-------------------------- MODULE LinkedListProofs --------------------------
(***************************************************************************)
(* Proofs about the linked list (module LinkedList) for any number of      *)
(* nodes and any payloads: the links in both directions, the ends and the  *)
(* length agree in every state, and each call changes the sequence of      *)
(* payloads at its node (module ListView).                                 *)
(*                                                                         *)
(* The nodes are followed as a sequence q; each operation gives the next   *)
(* q, and what the list means is read off it.                              *)
(***************************************************************************)
EXTENDS LinkedList, SequenceTheorems, WellFoundedInduction, TLAPS

(* q are the l nodes from h to t, by way of nx and back by way of pr: all of  *)
(* u, each once.                                                              *)
Follows(q, l, u, h, t, nx, pr) ==
  /\ l \in Nat /\ q \in [1 .. l -> u]
  /\ \A n \in u : \E k \in 1 .. l : q[k] = n
  /\ \A a, b \in 1 .. l : q[a] = q[b] => a = b
  /\ \A k \in 1 .. l : nx[q[k]] = IF k = l THEN NULL ELSE q[k + 1]
  /\ \A k \in 1 .. l : pr[q[k]] = IF k = 1 THEN NULL ELSE q[k - 1]
  /\ h = (IF l = 0 THEN NULL ELSE q[1])
  /\ t = (IF l = 0 THEN NULL ELSE q[l])

Typed == /\ pre \in [Node -> Node \cup {NULL}] /\ nxt \in [Node -> Node \cup {NULL}]
         /\ v \in [Node -> Value \cup {NULL}]

(* The walk of jbl_ll_free is at the head, and knows the second node.         *)
Walking == i # NULL => i = head /\ j = nxt[i]

Holds(q) == Follows(q, len, Used, head, tail, nxt, pre)
ListInv == Typed /\ Walking /\ \E q : Holds(q)
-----------------------------------------------------------------------------
(* Following the links.                                                       *)

(* A set of numbers has a least one.                                          *)
LEMMA LeastNumber ==
  ASSUME NEW T, T \subseteq Nat, T # {}
  PROVE  \E x \in T : \A y \in T : x <= y
<1> DEFINE R == OpToRel(<, Nat)
<1>1. PICK x \in T : \A y \in T : ~ (<<y, x>> \in R)
  BY NatLessThanWellFounded, WFMin
<1>2. \A y \in T : y < x => <<y, x>> \in R
  BY DEF OpToRel
<1> HIDE DEF R
<1>3. ASSUME NEW y \in T PROVE x <= y
  <2>1. ~ (y < x) /\ y \in Nat /\ x \in Nat
    BY <1>1, <1>2
  <2> QED BY <2>1
<1> QED BY <1>3

(* There is one walk of l steps from f along link.                            *)
Walks(w, l, f, link) ==
  w = [k \in 1 .. l |-> IF k = 1 THEN f ELSE IF w[k - 1] = NULL THEN NULL ELSE link[w[k - 1]]]

(* Two walks of one length from one node are the same. *)
LEMMA OneWalk ==
  ASSUME NEW l \in Nat, NEW f, NEW link, NEW w, NEW q,
         Walks(w, l, f, link), Walks(q, l, f, link)
  PROVE  w = q
<1> DEFINE T == {k \in 1 .. l : w[k] # q[k]}
<1>1. \A k \in 1 .. l :
        /\ w[k] = IF k = 1 THEN f ELSE IF w[k - 1] = NULL THEN NULL ELSE link[w[k - 1]]
        /\ q[k] = IF k = 1 THEN f ELSE IF q[k - 1] = NULL THEN NULL ELSE link[q[k - 1]]
  BY DEF Walks
<1>2. ASSUME T # {} PROVE FALSE
  <2>0. T \subseteq Nat
    OBVIOUS
  <2>1. PICK k \in T : \A y \in T : k <= y
    <3> HIDE DEF T
    <3> QED BY <1>2, <2>0, LeastNumber
  <2>2. k # 1 /\ k \in 1 .. l
    BY <1>1
  <2>3. k - 1 \in 1 .. l /\ ~ (k <= k - 1)
    BY <2>2
  <2>4. w[k - 1] = q[k - 1]
    BY <2>1, <2>3
  <2>5. w[k] = q[k]
    BY <1>1, <2>2, <2>4
  <2> QED BY <2>1, <2>5
<1>3. \A k \in 1 .. l : w[k] = q[k]
  BY <1>2
<1>4. w = [k \in 1 .. l |-> w[k]] /\ q = [k \in 1 .. l |-> q[k]]
  BY DEF Walks
<1> QED BY <1>3, <1>4

(* What the model calls a walk is that one.                                   *)
LEMMA WalkIs ==
  ASSUME NEW f, NEW link, NEW q, Walks(q, len, f, link), len \in Nat
  PROVE  Walk(f, link) = q
<1> PICK l : l = len
  OBVIOUS
<1> DEFINE w == CHOOSE w : w = [k \in 1 .. l |-> IF k = 1 THEN f
                           ELSE IF w[k - 1] = NULL THEN NULL ELSE link[w[k - 1]]]
<1>1. Walk(f, link) = [k \in 1 .. l |-> w[k]]
  BY DEF Walk
<1>2. Walks(w, l, f, link)
  BY DEF Walks
<1> HIDE DEF w
<1>3. w = q
  BY <1>2, OneWalk
<1>4. q = [k \in 1 .. l |-> q[k]]
  BY DEF Walks
<1> QED BY <1>1, <1>3, <1>4

(* The nodes of the model are the sequence followed, in both directions.      *)
LEMMA NodesAre ==
  ASSUME Typed, NEW q, Holds(q)
  PROVE  Nodes = q /\ Walk(tail, pre) = Reverse(q) /\ q \in Seq(Node) /\ Len(q) = len
<1>1. len \in Nat /\ q \in [1 .. len -> Used] /\ Used \subseteq Node
  BY DEF Holds, Follows, Used
<1>2. \A k \in 1 .. len : q[k] # NULL
  BY <1>1, LinkedListAssumption DEF NULL
<1>3. q \in Seq(Node) /\ Len(q) = len
  <2>1. q \in [1 .. len -> Node]
    BY <1>1
  <2> QED BY <1>1, <2>1, IsASeq, LenProperties
<1>4. Nodes = q
  <2>1. \A k \in 1 .. len : q[k] = IF k = 1 THEN head
                                   ELSE IF q[k - 1] = NULL THEN NULL ELSE nxt[q[k - 1]]
    <3> SUFFICES ASSUME NEW k \in 1 .. len
                 PROVE  q[k] = IF k = 1 THEN head
                               ELSE IF q[k - 1] = NULL THEN NULL ELSE nxt[q[k - 1]]
      OBVIOUS
    <3>1. CASE k = 1
      BY <1>1, <3>1 DEF Holds, Follows
    <3>2. CASE k # 1
      <4>1. k - 1 \in 1 .. len /\ k - 1 # len /\ (k - 1) + 1 = k
        BY <1>1, <3>2
      <4>2. nxt[q[k - 1]] = q[k]
        BY <4>1 DEF Holds, Follows
      <4> QED BY <1>2, <3>2, <4>1, <4>2
    <3> QED BY <3>1, <3>2
  <2>2. Walks(q, len, head, nxt)
    <3>1. q = [k \in 1 .. len |-> q[k]]
      BY <1>1
    <3> QED BY <2>1, <3>1 DEF Walks
  <2> QED BY <1>1, <2>2, WalkIs DEF Nodes
<1>5. Walk(tail, pre) = Reverse(q)
  <2> DEFINE r == [k \in 1 .. len |-> q[(len - k) + 1]]
  <2>1. \A k \in 1 .. len : r[k] = q[(len - k) + 1] /\ (len - k) + 1 \in 1 .. len
    BY <1>1
  <2>2. r = [k \in 1 .. len |-> r[k]]
    OBVIOUS
  <2>3. Reverse(q) = r
    BY <1>3 DEF Reverse
  <2> HIDE DEF r
  <2>4. \A k \in 1 .. len : r[k] = IF k = 1 THEN tail
                                   ELSE IF r[k - 1] = NULL THEN NULL ELSE pre[r[k - 1]]
    <3> SUFFICES ASSUME NEW k \in 1 .. len
                 PROVE  r[k] = IF k = 1 THEN tail
                               ELSE IF r[k - 1] = NULL THEN NULL ELSE pre[r[k - 1]]
      OBVIOUS
    <3>1. CASE k = 1
      <4>1. (len - 1) + 1 = len /\ len # 0
        BY <1>1, <3>1
      <4>2. r[1] = q[len]
        BY <2>1, <3>1, <4>1
      <4> QED BY <3>1, <4>1, <4>2 DEF Holds, Follows
    <3>2. CASE k # 1
      <4>1. k - 1 \in 1 .. len
        BY <1>1, <3>2
      <4> PICK m : m = (len - (k - 1)) + 1
        OBVIOUS
      <4>2. m \in 1 .. len /\ m # 1 /\ m - 1 = (len - k) + 1
        BY <1>1, <3>2
      <4>3. r[k - 1] = q[m] /\ r[k] = q[m - 1]
        BY <2>1, <4>1, <4>2
      <4>4. pre[q[m]] = q[m - 1]
        BY <4>2 DEF Holds, Follows
      <4> QED BY <1>2, <3>2, <4>2, <4>3, <4>4
    <3> QED BY <3>1, <3>2
  <2>5. Walks(r, len, tail, pre)
    BY <2>2, <2>4 DEF Walks
  <2> QED BY <1>1, <2>3, <2>5, WalkIs
<1> QED BY <1>3, <1>4, <1>5

(* A list that is followed in this way is well linked.                        *)
LEMMA HoldsLinked ==
  ASSUME Typed, NEW q, Holds(q)
  PROVE  WellLinked
<1>1. Nodes = q /\ Walk(tail, pre) = Reverse(q)
  BY NodesAre
<1>2. len \in Nat /\ q \in [1 .. len -> Used]
  BY DEF Holds, Follows
<1>3. Range(q) = Used
  <2>1. DOMAIN q = 1 .. len /\ \A k \in 1 .. len : q[k] \in Used
    BY <1>2
  <2>2. \A n \in Used : \E k \in 1 .. len : q[k] = n
    BY DEF Holds, Follows
  <2> QED BY <2>1, <2>2 DEF Range
<1>4. IsInjective(q)
  BY <1>2 DEF IsInjective, Holds, Follows
<1>5. CASE len = 0
  BY <1>1, <1>2, <1>3, <1>4, <1>5 DEF WellLinked, Holds, Follows
<1>6. CASE len # 0
  <2>1. 1 \in 1 .. len /\ len \in 1 .. len
    BY <1>2, <1>6
  <2>2. tail = q[len] /\ nxt[q[len]] = NULL /\ head = q[1] /\ pre[q[1]] = NULL
    BY <1>6, <2>1 DEF Holds, Follows
  <2> QED BY <1>1, <1>2, <1>3, <1>4, <1>6, <2>2 DEF WellLinked
<1> QED BY <1>5, <1>6
-----------------------------------------------------------------------------
(* Sequences with one more and one less.                                      *)

(* jbl_ll_node_insert, in the sequence: x behind the first p.                 *)
Longer(q, l, p, x) == [k \in 1 .. l + 1 |-> CASE k <= p -> q[k] [] k = p + 1 -> x
                                              [] OTHER -> q[k - 1]]
(* jbl_ll_node_delete: without the one at p.                                  *)
Shorter(q, l, p) == [k \in 1 .. l - 1 |-> IF k < p THEN q[k] ELSE q[k + 1]]

(* Two sequences, one behind the other.                                       *)
Joined(e, s, t, S) ==
  /\ e \in Seq(S) /\ Len(e) = Len(s) + Len(t) /\ e = [k \in 1 .. Len(e) |-> e[k]]
  /\ \A k \in 1 .. Len(s) + Len(t) : e[k] = IF k <= Len(s) THEN s[k] ELSE t[k - Len(s)]
(* The concatenation of the library is that one.                              *)
LEMMA JoinFacts ==
  ASSUME NEW S, NEW s \in Seq(S), NEW t \in Seq(S)
  PROVE  Joined(s \o t, s, t, S)
<1>1. /\ s \o t \in Seq(S) /\ Len(s \o t) = Len(s) + Len(t)
      /\ \A k \in 1 .. Len(s) + Len(t) : (s \o t)[k] = IF k <= Len(s) THEN s[k] ELSE t[k - Len(s)]
  BY ConcatProperties
<1> PICK e : e = s \o t
  OBVIOUS
<1>2. e = [k \in 1 .. Len(e) |-> e[k]]
  <2>1. e \in [1 .. Len(e) -> S]
    BY <1>1, LenProperties
  <2> QED BY <2>1
<1> QED BY <1>1, <1>2 DEF Joined

(* The community module's insertion is that one.                              *)
LEMMA InsertIsLonger ==
  ASSUME NEW S, NEW q \in Seq(S), NEW p \in 0 .. Len(q), NEW x \in S
  PROVE  InsertAt(q, p + 1, x) = Longer(q, Len(q), p, x)
<1> PICK l : l = Len(q)
  OBVIOUS
<1> PICK a : a = SubSeq(q, 1, p)
  OBVIOUS
<1> PICK b : b = SubSeq(q, p + 1, l)
  OBVIOUS
<1>1. l \in Nat /\ p \in Nat /\ p <= l
  OBVIOUS
<1>2. a \in Seq(S) /\ Len(a) = p /\ \A k \in 1 .. p : a[k] = q[k]
  BY <1>1
<1>3. b \in Seq(S) /\ Len(b) = l - p /\ \A k \in 1 .. l - p : b[k] = q[p + k]
  BY <1>1
<1> PICK c : c = <<x>>
  OBVIOUS
<1>4. c \in Seq(S) /\ Len(c) = 1 /\ c[1] = x
  OBVIOUS
<1> PICK d : d = a \o c
  OBVIOUS
<1>5. d \in Seq(S) /\ Len(d) = p + 1 /\ \A k \in 1 .. p + 1 : d[k] = IF k <= p THEN q[k] ELSE x
  BY <1>1, <1>2, <1>4
<1> PICK e : e = d \o b
  OBVIOUS
<1>6. /\ e \in Seq(S) /\ Len(e) = l + 1
      /\ e = [k \in 1 .. Len(e) |-> e[k]]
      /\ \A k \in 1 .. l + 1 : e[k] = IF k <= p + 1 THEN d[k] ELSE b[k - (p + 1)]
  <2>1. Joined(e, d, b, S)
    BY <1>3, <1>5, JoinFacts
  <2>2. Len(d) = p + 1 /\ Len(b) = l - p /\ (p + 1) + (l - p) = l + 1
    BY <1>1, <1>3, <1>5
  <2> QED BY ONLY <2>1, <2>2 DEF Joined
<1>7. \A k \in 1 .. l + 1 : e[k] = CASE k <= p -> q[k] [] k = p + 1 -> x [] OTHER -> q[k - 1]
  <2> SUFFICES ASSUME NEW k \in 1 .. l + 1
               PROVE  e[k] = CASE k <= p -> q[k] [] k = p + 1 -> x [] OTHER -> q[k - 1]
    OBVIOUS
  <2>1. CASE k <= p + 1
    <3>1. k \in 1 .. p + 1
      BY <1>1, <2>1
    <3>2. e[k] = d[k] /\ d[k] = IF k <= p THEN q[k] ELSE x
      BY <1>5, <1>6, <2>1, <3>1
    <3> QED BY ONLY <1>1, <2>1, <3>1, <3>2
  <2>2. CASE ~ (k <= p + 1)
    <3>1. k - (p + 1) \in 1 .. l - p /\ p + (k - (p + 1)) = k - 1
      BY <1>1, <2>2
    <3>2. b[k - (p + 1)] = q[k - 1]
      BY <1>3, <3>1
    <3>3. e[k] = b[k - (p + 1)]
      BY <1>6, <2>2
    <3>4. k \in Nat
      BY <1>1
    <3> QED BY ONLY <1>1, <2>2, <3>2, <3>3, <3>4
  <2> QED BY <2>1, <2>2
<1>8. e = [k \in 1 .. l + 1 |-> e[k]]
  BY <1>6
<1>9. InsertAt(q, p + 1, x) = e
  <2>1. (p + 1) - 1 = p
    BY <1>1
  <2> QED BY <2>1 DEF InsertAt
<1> QED BY <1>7, <1>8, <1>9 DEF Longer

(* So is its removal.                                                         *)
LEMMA RemoveIsShorter ==
  ASSUME NEW S, NEW q \in Seq(S), NEW p \in 1 .. Len(q)
  PROVE  RemoveAt(q, p) = Shorter(q, Len(q), p)
<1> PICK l : l = Len(q)
  OBVIOUS
<1> PICK a : a = SubSeq(q, 1, p - 1)
  OBVIOUS
<1> PICK b : b = SubSeq(q, p + 1, l)
  OBVIOUS
<1>1. l \in Nat /\ p \in Nat /\ p <= l /\ p >= 1
  OBVIOUS
<1>2. a \in Seq(S) /\ Len(a) = p - 1 /\ \A k \in 1 .. p - 1 : a[k] = q[k]
  BY <1>1
<1>3. b \in Seq(S) /\ Len(b) = l - p /\ \A k \in 1 .. l - p : b[k] = q[p + k]
  BY <1>1
<1> PICK e : e = a \o b
  OBVIOUS
<1>4. /\ e \in Seq(S) /\ Len(e) = l - 1
      /\ e = [k \in 1 .. Len(e) |-> e[k]]
      /\ \A k \in 1 .. l - 1 : e[k] = IF k <= p - 1 THEN a[k] ELSE b[k - (p - 1)]
  <2>1. Joined(e, a, b, S)
    BY <1>2, <1>3, JoinFacts
  <2>2. Len(a) = p - 1 /\ Len(b) = l - p /\ (p - 1) + (l - p) = l - 1
    BY <1>1, <1>2, <1>3
  <2> QED BY ONLY <2>1, <2>2 DEF Joined
<1>5. \A k \in 1 .. l - 1 : e[k] = IF k < p THEN q[k] ELSE q[k + 1]
  <2> SUFFICES ASSUME NEW k \in 1 .. l - 1
               PROVE  e[k] = IF k < p THEN q[k] ELSE q[k + 1]
    OBVIOUS
  <2>1. CASE k < p
    <3>1. k \in 1 .. p - 1
      BY <1>1, <2>1
    <3>2. e[k] = a[k] /\ a[k] = q[k]
      <4>1. k <= p - 1
        BY <3>1
      <4> QED BY <1>2, <1>4, <3>1, <4>1
    <3> QED BY <2>1, <3>2
  <2>2. CASE ~ (k < p)
    <3>1. k - (p - 1) \in 1 .. l - p /\ p + (k - (p - 1)) = k + 1
      BY <1>1, <2>2
    <3>2. b[k - (p - 1)] = q[k + 1]
      BY <1>3, <3>1
    <3>3. e[k] = b[k - (p - 1)]
      <4>1. ~ (k <= p - 1)
        BY <1>1, <2>2
      <4> QED BY <1>4, <4>1
    <3> QED BY <2>2, <3>2, <3>3
  <2> QED BY <2>1, <2>2
<1>6. e = [k \in 1 .. l - 1 |-> e[k]]
  BY <1>4
<1>7. RemoveAt(q, p) = e
  BY DEF RemoveAt
<1> QED BY <1>5, <1>6, <1>7 DEF Shorter
-----------------------------------------------------------------------------
(* The operations on the links.                                               *)

(* What jbl_ll_node_insert does to the fields, for the new node n between     *)
(* after and next.                                                            *)
LinksIn(h, t, nx, pr, n, after, next, h2, t2, nx2, pr2) ==
  /\ h2 = (IF after = NULL THEN n ELSE h)
  /\ t2 = (IF next = NULL THEN n ELSE t)
  /\ \A m \in Node : nx2[m] = CASE m = n -> next [] m = after -> n [] OTHER -> nx[m]
  /\ \A m \in Node : pr2[m] = CASE m = n -> after [] m = next -> n [] OTHER -> pr[m]
(* The new node is followed behind the first p.                               *)
LEMMA InsertFollows ==
  ASSUME NEW q, NEW l, NEW u, NEW h, NEW t, NEW nx, NEW pr, Follows(q, l, u, h, t, nx, pr),
         u \subseteq Node, NEW n \in Node, n \notin u, NEW p \in 0 .. l,
         NEW after, after = (IF p = 0 THEN NULL ELSE q[p]),
         NEW next, next = (IF p = l THEN NULL ELSE q[p + 1]),
         NEW h2, NEW t2, NEW nx2, NEW pr2, LinksIn(h, t, nx, pr, n, after, next, h2, t2, nx2, pr2)
  PROVE  Follows(Longer(q, l, p, n), l + 1, u \cup {n}, h2, t2, nx2, pr2)
<1> PICK q2 : q2 = Longer(q, l, p, n)
  OBVIOUS
<1>1. /\ l \in Nat /\ p \in Nat /\ p <= l /\ q \in [1 .. l -> u]
      /\ \A a, b \in 1 .. l : q[a] = q[b] => a = b
      /\ NULL \notin Node
  BY LinkedListAssumption DEF Follows, NULL
<1>2. \A k \in 1 .. l : q[k] \in u /\ q[k] \in Node /\ q[k] # n /\ q[k] # NULL
  BY <1>1
<1>3. \A k \in 1 .. l : q[k] = after <=> k = p
  BY <1>1, <1>2
<1>4. \A k \in 1 .. l : q[k] = next <=> k = p + 1
  <2>1. CASE p = l
    BY <1>1, <1>2, <2>1
  <2>2. CASE p # l
    <3>1. p + 1 \in 1 .. l /\ next = q[p + 1]
      BY <1>1, <2>2
    <3> QED BY <1>1, <3>1
  <2> QED BY <2>1, <2>2
<1>5. \A k \in 1 .. l + 1 : q2[k] = CASE k <= p -> q[k] [] k = p + 1 -> n [] OTHER -> q[k - 1]
  BY DEF Longer
<1>6. nx2[n] = next /\ \A k \in 1 .. l : nx2[q[k]] = IF k = p THEN n ELSE nx[q[k]]
  <2>1. \A m \in Node : m # n => nx2[m] = IF m = after THEN n ELSE nx[m]
    BY DEF LinksIn
  <2>2. nx2[n] = next
    <3>1. after # n
      <4>1. p # 0 => p \in 1 .. l
        BY <1>1
      <4> QED BY <1>1, <1>2, <4>1
    <3> QED BY <3>1 DEF LinksIn
  <2>3. ASSUME NEW k \in 1 .. l PROVE nx2[q[k]] = IF k = p THEN n ELSE nx[q[k]]
    <3> PICK m : m = q[k]
      OBVIOUS
    <3>1. m \in Node /\ m # n /\ (m = after <=> k = p)
      BY <1>2, <1>3
    <3>2. nx2[m] = IF m = after THEN n ELSE nx[m]
      BY <2>1, <3>1
    <3> QED BY <3>1, <3>2
  <2> QED BY <2>2, <2>3
<1>7. pr2[n] = after /\ \A k \in 1 .. l : pr2[q[k]] = IF k = p + 1 THEN n ELSE pr[q[k]]
  <2>1. \A m \in Node : m # n => pr2[m] = IF m = next THEN n ELSE pr[m]
    BY DEF LinksIn
  <2>2. pr2[n] = after
    <3>1. next # n
      <4>1. p # l => p + 1 \in 1 .. l
        BY <1>1
      <4> QED BY <1>1, <1>2, <4>1
    <3> QED BY <3>1 DEF LinksIn
  <2>3. ASSUME NEW k \in 1 .. l PROVE pr2[q[k]] = IF k = p + 1 THEN n ELSE pr[q[k]]
    <3> PICK m : m = q[k]
      OBVIOUS
    <3>1. m \in Node /\ m # n /\ (m = next <=> k = p + 1)
      BY <1>2, <1>4
    <3>2. pr2[m] = IF m = next THEN n ELSE pr[m]
      BY <2>1, <3>1
    <3> QED BY <3>1, <3>2
  <2> QED BY <2>2, <2>3
<1>8. \A k \in 1 .. l + 1 : /\ k <= p => k \in 1 .. l
                            /\ k # p + 1 /\ ~ (k <= p) => k - 1 \in 1 .. l /\ k - 1 > p
  BY <1>1
<1>9. q2 \in [1 .. l + 1 -> u \cup {n}]
  <2>1. \A k \in 1 .. l + 1 : q2[k] \in u \cup {n}
    BY <1>2, <1>5, <1>8
  <2>2. q2 = [k \in 1 .. l + 1 |-> q2[k]]
    BY DEF Longer
  <2> QED BY <2>1, <2>2
<1>10. \A m \in u \cup {n} : \E k \in 1 .. l + 1 : q2[k] = m
  <2>1. p + 1 \in 1 .. l + 1 /\ q2[p + 1] = n
    BY <1>1, <1>5
  <2>2. ASSUME NEW m \in u PROVE \E k \in 1 .. l + 1 : q2[k] = m
    <3>1. PICK k \in 1 .. l : q[k] = m
      BY DEF Follows
    <3>2. CASE k <= p
      <4>1. k \in 1 .. l + 1
        BY <1>1
      <4> QED BY <1>5, <3>1, <3>2, <4>1
    <3>3. CASE ~ (k <= p)
      <4>1. k + 1 \in 1 .. l + 1 /\ ~ (k + 1 <= p) /\ k + 1 # p + 1 /\ (k + 1) - 1 = k
        BY <1>1, <3>3
      <4> QED BY <1>5, <3>1, <4>1
    <3> QED BY <3>2, <3>3
  <2> QED BY <2>1, <2>2
<1>11. \A a, b \in 1 .. l + 1 : q2[a] = q2[b] => a = b
  <2> SUFFICES ASSUME NEW a \in 1 .. l + 1, NEW b \in 1 .. l + 1, q2[a] = q2[b]
               PROVE  a = b
    OBVIOUS
  <2>1. \A k \in 1 .. l + 1 : q2[k] = n <=> k = p + 1
    BY <1>1, <1>2, <1>5, <1>8
  <2>2. CASE a = p + 1 \/ b = p + 1
    BY <2>1, <2>2
  <2>3. CASE a # p + 1 /\ b # p + 1
    <3> PICK c : c = IF a <= p THEN a ELSE a - 1
      OBVIOUS
    <3> PICK d : d = IF b <= p THEN b ELSE b - 1
      OBVIOUS
    <3>1. c \in 1 .. l /\ d \in 1 .. l /\ q2[a] = q[c] /\ q2[b] = q[d]
      BY <1>5, <1>8, <2>3
    <3>2. c = d
      BY <1>1, <3>1
    <3> QED BY <1>1, <2>3, <3>2
  <2> QED BY <2>2, <2>3
<1>12. \A k \in 1 .. l + 1 : nx2[q2[k]] = IF k = l + 1 THEN NULL ELSE q2[k + 1]
  <2> SUFFICES ASSUME NEW k \in 1 .. l + 1
               PROVE  nx2[q2[k]] = IF k = l + 1 THEN NULL ELSE q2[k + 1]
    OBVIOUS
  <2>1. CASE k = p + 1
    <3>1. nx2[q2[k]] = next
      BY <1>1, <1>5, <1>6, <2>1
    <3>2. CASE p = l
      BY <2>1, <3>1, <3>2
    <3>3. CASE p # l
      <4>1. p + 2 \in 1 .. l + 1 /\ ~ (p + 2 <= p) /\ p + 2 # p + 1 /\ (p + 2) - 1 = p + 1
        BY <1>1, <3>3
      <4>2. q2[p + 2] = q[p + 1]
        BY <1>5, <4>1
      <4>3. k # l + 1 /\ k + 1 = p + 2
        BY <1>1, <2>1, <3>3
      <4> QED BY <3>1, <3>3, <4>2, <4>3
    <3> QED BY <3>2, <3>3
  <2>2. CASE k = p
    <3>1. k \in 1 .. l /\ q2[k] = q[k] /\ k + 1 \in 1 .. l + 1 /\ k # l + 1
      BY <1>1, <1>5, <2>2
    <3>2. nx2[q2[k]] = n
      BY <1>6, <2>2, <3>1
    <3>3. q2[k + 1] = n
      BY <1>1, <1>5, <2>2, <3>1
    <3> QED BY <3>1, <3>2, <3>3
  <2>3. CASE k < p
    <3>1. k \in 1 .. l /\ k # l /\ k # l + 1 /\ k + 1 \in 1 .. l + 1 /\ k + 1 <= p /\ k <= p /\ k # p
      BY <1>1, <2>3
    <3>2. q2[k] = q[k] /\ q2[k + 1] = q[k + 1]
      BY <1>5, <3>1
    <3>3. nx2[q[k]] = nx[q[k]]
      BY <1>6, <3>1
    <3>4. nx[q[k]] = q[k + 1]
      BY <3>1 DEF Follows
    <3> QED BY <3>1, <3>2, <3>3, <3>4
  <2>4. CASE k > p + 1
    <3>1. k - 1 \in 1 .. l /\ ~ (k <= p) /\ k # p + 1 /\ k - 1 # p /\ (k - 1) + 1 = k
      BY <1>1, <2>4
    <3>2. q2[k] = q[k - 1] /\ nx2[q[k - 1]] = nx[q[k - 1]]
      BY <1>5, <1>6, <3>1
    <3>3. nx[q[k - 1]] = IF k - 1 = l THEN NULL ELSE q[k]
      BY <3>1 DEF Follows
    <3>4. CASE k = l + 1
      BY <1>1, <3>2, <3>3, <3>4
    <3>5. CASE k # l + 1
      <4>1. k + 1 \in 1 .. l + 1 /\ ~ (k + 1 <= p) /\ k + 1 # p + 1 /\ (k + 1) - 1 = k /\ k - 1 # l
        BY <1>1, <2>4, <3>5
      <4>2. q2[k + 1] = q[k]
        BY <1>5, <4>1
      <4> QED BY <3>2, <3>3, <3>5, <4>1, <4>2
    <3> QED BY <3>4, <3>5
  <2> QED BY <1>1, <2>1, <2>2, <2>3, <2>4
<1>13. \A k \in 1 .. l + 1 : pr2[q2[k]] = IF k = 1 THEN NULL ELSE q2[k - 1]
  <2> SUFFICES ASSUME NEW k \in 1 .. l + 1
               PROVE  pr2[q2[k]] = IF k = 1 THEN NULL ELSE q2[k - 1]
    OBVIOUS
  <2>1. CASE k = p + 1
    <3>1. pr2[q2[k]] = after
      BY <1>1, <1>5, <1>7, <2>1
    <3>2. CASE p = 0
      BY <2>1, <3>1, <3>2
    <3>3. CASE p # 0
      <4>1. p \in 1 .. l + 1 /\ k - 1 = p /\ k # 1 /\ p <= p
        BY <1>1, <2>1, <3>3
      <4>2. q2[p] = q[p]
        BY <1>5, <4>1
      <4> QED BY <3>1, <3>3, <4>1, <4>2
    <3> QED BY <3>2, <3>3
  <2>2. CASE k = p + 2
    <3>1. p + 1 \in 1 .. l /\ k - 1 = p + 1 /\ k # 1 /\ ~ (k <= p) /\ k # p + 1
          /\ p + 1 \in 1 .. l + 1 /\ ~ (p + 1 <= p)
      BY <1>1, <2>2
    <3>2. q2[k] = q[p + 1] /\ q2[k - 1] = n
      BY <1>5, <3>1
    <3>3. pr2[q[p + 1]] = n
      BY <1>7, <3>1
    <3> QED BY <3>1, <3>2, <3>3
  <2>3. CASE k <= p
    <3>1. k \in 1 .. l /\ k # p + 1
      BY <1>1, <2>3
    <3>2. q2[k] = q[k] /\ pr2[q[k]] = pr[q[k]]
      BY <1>5, <1>7, <2>3, <3>1
    <3>3. pr[q[k]] = IF k = 1 THEN NULL ELSE q[k - 1]
      BY <3>1 DEF Follows
    <3>4. CASE k # 1
      <4>1. k - 1 \in 1 .. l + 1 /\ k - 1 <= p
        BY <1>1, <2>3, <3>4
      <4>2. q2[k - 1] = q[k - 1]
        BY <1>5, <4>1
      <4> QED BY <3>2, <3>3, <4>2
    <3> QED BY <3>2, <3>3, <3>4
  <2>4. CASE k > p + 2
    <3>1. k - 1 \in 1 .. l /\ ~ (k <= p) /\ k # p + 1 /\ k - 1 # p + 1 /\ k - 1 # 1 /\ k # 1
          /\ k - 1 \in 1 .. l + 1 /\ ~ (k - 1 <= p)
      BY <1>1, <2>4
    <3>2. q2[k] = q[k - 1] /\ pr2[q[k - 1]] = pr[q[k - 1]] /\ q2[k - 1] = q[(k - 1) - 1]
      BY <1>5, <1>7, <3>1
    <3>3. pr[q[k - 1]] = q[(k - 1) - 1]
      BY <3>1 DEF Follows
    <3> QED BY <3>1, <3>2, <3>3
  <2> QED BY <1>1, <2>1, <2>2, <2>3, <2>4
<1>14. h2 = q2[1]
  <2>1. 1 \in 1 .. l + 1
    BY <1>1
  <2>2. CASE p = 0
    <3>1. q2[1] = n
      BY <1>5, <2>1, <2>2
    <3> QED BY <2>2, <3>1 DEF LinksIn
  <2>3. CASE p # 0
    <3>1. 1 <= p /\ p \in 1 .. l /\ l # 0
      BY <1>1, <2>3
    <3>2. q2[1] = q[1] /\ after # NULL
      BY <1>2, <1>5, <2>1, <2>3, <3>1
    <3> QED BY <3>1, <3>2 DEF Follows, LinksIn
  <2> QED BY <2>2, <2>3
<1>15. t2 = q2[l + 1]
  <2>1. l + 1 \in 1 .. l + 1
    BY <1>1
  <2>2. CASE p = l
    <3>1. q2[l + 1] = n
      BY <1>1, <1>5, <2>1, <2>2
    <3> QED BY <2>2, <3>1 DEF LinksIn
  <2>3. CASE p # l
    <3>1. ~ (l + 1 <= p) /\ l + 1 # p + 1 /\ (l + 1) - 1 = l /\ p + 1 \in 1 .. l /\ l # 0
      BY <1>1, <2>3
    <3>2. q2[l + 1] = q[l] /\ next # NULL
      BY <1>2, <1>5, <2>1, <2>3, <3>1
    <3> QED BY <3>1, <3>2 DEF Follows, LinksIn
  <2> QED BY <2>2, <2>3
<1>16. l + 1 \in Nat /\ l + 1 # 0
  BY <1>1
<1> QED BY <1>9, <1>10, <1>11, <1>12, <1>13, <1>14, <1>15, <1>16 DEF Follows

(* What jbl_ll_node_delete does to the fields, for the node n.                *)
LinksOut(h, t, nx, pr, n, h2, t2, nx2, pr2) ==
  /\ h2 = (IF pr[n] = NULL THEN nx[n] ELSE h)
  /\ t2 = (IF nx[n] = NULL THEN pr[n] ELSE t)
  /\ \A m \in Node : nx2[m] = CASE m = n -> NULL [] m = pr[n] -> nx[n] [] OTHER -> nx[m]
  /\ \A m \in Node : pr2[m] = CASE m = n -> NULL [] m = nx[n] -> pr[n] [] OTHER -> pr[m]
(* The node at p is followed no longer.                                       *)
LEMMA DeleteFollows ==
  ASSUME NEW q, NEW l, NEW u, NEW h, NEW t, NEW nx, NEW pr, Follows(q, l, u, h, t, nx, pr),
         u \subseteq Node, NEW p \in 1 .. l, NEW n, n = q[p],
         NEW h2, NEW t2, NEW nx2, NEW pr2, LinksOut(h, t, nx, pr, n, h2, t2, nx2, pr2)
  PROVE  Follows(Shorter(q, l, p), l - 1, u \ {n}, h2, t2, nx2, pr2)
<1> PICK q2 : q2 = Shorter(q, l, p)
  OBVIOUS
<1>1. /\ l \in Nat /\ p \in Nat /\ 1 <= p /\ p <= l /\ q \in [1 .. l -> u]
      /\ \A a, b \in 1 .. l : q[a] = q[b] => a = b
      /\ NULL \notin Node
  BY LinkedListAssumption DEF Follows, NULL
<1>2. \A k \in 1 .. l : q[k] \in u /\ q[k] \in Node /\ q[k] # NULL /\ (q[k] = n <=> k = p)
  BY <1>1
<1>3. pr[n] = (IF p = 1 THEN NULL ELSE q[p - 1]) /\ nx[n] = (IF p = l THEN NULL ELSE q[p + 1])
  BY DEF Follows
<1>4. \A k \in 1 .. l : q[k] = pr[n] <=> k = p - 1
  <2>1. p # 1 => p - 1 \in 1 .. l
    BY <1>1
  <2> QED BY <1>1, <1>2, <1>3, <2>1
<1>5. \A k \in 1 .. l : q[k] = nx[n] <=> k = p + 1
  <2>1. p # l => p + 1 \in 1 .. l
    BY <1>1
  <2> QED BY <1>1, <1>2, <1>3, <2>1
<1>6. \A k \in 1 .. l - 1 : q2[k] = IF k < p THEN q[k] ELSE q[k + 1]
  BY DEF Shorter
<1>7. ASSUME NEW k \in 1 .. l, k # p PROVE nx2[q[k]] = IF k = p - 1 THEN nx[n] ELSE nx[q[k]]
  <2>1. \A m \in Node : m # n => nx2[m] = IF m = pr[n] THEN nx[n] ELSE nx[m]
    BY DEF LinksOut
  <2> PICK m : m = q[k]
    OBVIOUS
  <2>2. m \in Node /\ m # n /\ (m = pr[n] <=> k = p - 1)
    BY <1>2, <1>4, <1>7
  <2>3. nx2[m] = IF m = pr[n] THEN nx[n] ELSE nx[m]
    BY <2>1, <2>2
  <2> QED BY <2>2, <2>3
<1>8. ASSUME NEW k \in 1 .. l, k # p PROVE pr2[q[k]] = IF k = p + 1 THEN pr[n] ELSE pr[q[k]]
  <2>1. \A m \in Node : m # n => pr2[m] = IF m = nx[n] THEN pr[n] ELSE pr[m]
    BY DEF LinksOut
  <2> PICK m : m = q[k]
    OBVIOUS
  <2>2. m \in Node /\ m # n /\ (m = nx[n] <=> k = p + 1)
    BY <1>2, <1>5, <1>8
  <2>3. pr2[m] = IF m = nx[n] THEN pr[n] ELSE pr[m]
    BY <2>1, <2>2
  <2> QED BY <2>2, <2>3
<1>9. \A k \in 1 .. l - 1 : k \in 1 .. l /\ k + 1 \in 1 .. l /\ k # l /\ k \in Nat
  BY <1>1
<1>10. q2 \in [1 .. l - 1 -> u \ {n}]
  <2>1. ASSUME NEW k \in 1 .. l - 1 PROVE q2[k] \in u \ {n}
    <3>1. CASE k < p
      <4>1. k # p /\ k \in 1 .. l
        BY <1>1, <1>9, <3>1
      <4> QED BY <1>2, <1>6, <3>1, <4>1
    <3>2. CASE ~ (k < p)
      <4>1. k + 1 # p /\ k + 1 \in 1 .. l
        BY <1>1, <1>9, <3>2
      <4> QED BY <1>2, <1>6, <3>2, <4>1
    <3> QED BY <3>1, <3>2
  <2>2. q2 = [k \in 1 .. l - 1 |-> q2[k]]
    BY DEF Shorter
  <2> QED BY <2>1, <2>2
<1>11. \A m \in u \ {n} : \E k \in 1 .. l - 1 : q2[k] = m
  <2> SUFFICES ASSUME NEW m \in u, m # n PROVE \E k \in 1 .. l - 1 : q2[k] = m
    OBVIOUS
  <2>1. PICK k \in 1 .. l : q[k] = m
    BY DEF Follows
  <2>2. k # p
    BY <2>1
  <2>3. CASE k < p
    <3>1. k \in 1 .. l - 1
      BY <1>1, <2>3
    <3> QED BY <1>6, <2>1, <2>3, <3>1
  <2>4. CASE k > p
    <3>1. k - 1 \in 1 .. l - 1 /\ ~ (k - 1 < p) /\ (k - 1) + 1 = k
      BY <1>1, <2>4
    <3> QED BY <1>6, <2>1, <3>1
  <2> QED BY <1>1, <2>2, <2>3, <2>4
<1>12. \A a, b \in 1 .. l - 1 : q2[a] = q2[b] => a = b
  <2> SUFFICES ASSUME NEW a \in 1 .. l - 1, NEW b \in 1 .. l - 1, q2[a] = q2[b]
               PROVE  a = b
    OBVIOUS
  <2> PICK c : c = IF a < p THEN a ELSE a + 1
    OBVIOUS
  <2> PICK d : d = IF b < p THEN b ELSE b + 1
    OBVIOUS
  <2>1. c \in 1 .. l /\ d \in 1 .. l /\ q2[a] = q[c] /\ q2[b] = q[d]
    BY <1>6, <1>9
  <2>2. c = d
    BY <1>1, <2>1
  <2> QED BY <1>1, <1>9, <2>2
<1>13. \A k \in 1 .. l - 1 : nx2[q2[k]] = IF k = l - 1 THEN NULL ELSE q2[k + 1]
  <2> SUFFICES ASSUME NEW k \in 1 .. l - 1
               PROVE  nx2[q2[k]] = IF k = l - 1 THEN NULL ELSE q2[k + 1]
    OBVIOUS
  <2>1. CASE k = p - 1
    <3>1. k < p /\ k # p /\ k \in 1 .. l
      BY <1>1, <1>9, <2>1
    <3>2. nx2[q2[k]] = nx[n]
      BY <1>6, <1>7, <2>1, <3>1
    <3>3. CASE k = l - 1
      <4>1. p = l
        BY <1>1, <2>1, <3>3
      <4> QED BY <1>3, <3>2, <3>3, <4>1
    <3>4. CASE k # l - 1
      <4>1. p # l /\ k + 1 \in 1 .. l - 1 /\ ~ (k + 1 < p) /\ (k + 1) + 1 = p + 1
        BY <1>1, <2>1, <3>4
      <4>2. q2[k + 1] = q[p + 1]
        BY <1>6, <4>1
      <4> QED BY <1>3, <3>2, <3>4, <4>1, <4>2
    <3> QED BY <3>3, <3>4
  <2>2. CASE k < p - 1
    <3>1. k < p /\ k # p /\ k # p - 1 /\ k + 1 < p /\ k + 1 \in 1 .. l - 1 /\ k # l - 1
          /\ k \in 1 .. l /\ k # l
      BY <1>1, <2>2
    <3>2. q2[k] = q[k] /\ q2[k + 1] = q[k + 1]
      BY <1>6, <3>1
    <3>3. nx2[q[k]] = nx[q[k]]
      BY <1>7, <3>1
    <3>4. nx[q[k]] = q[k + 1]
      BY <3>1 DEF Follows
    <3> QED BY <3>1, <3>2, <3>3, <3>4
  <2>3. CASE k >= p
    <3>1. ~ (k < p) /\ k + 1 # p /\ k + 1 # p - 1 /\ k + 1 \in 1 .. l
      BY <1>1, <2>3
    <3>2. q2[k] = q[k + 1] /\ nx2[q[k + 1]] = nx[q[k + 1]]
      BY <1>6, <1>7, <3>1
    <3>3. nx[q[k + 1]] = IF k + 1 = l THEN NULL ELSE q[(k + 1) + 1]
      BY <3>1 DEF Follows
    <3>4. CASE k = l - 1
      <4>1. k + 1 = l
        BY <1>1, <3>4
      <4> QED BY <3>2, <3>3, <3>4, <4>1
    <3>5. CASE k # l - 1
      <4>1. k + 1 # l /\ k + 1 \in 1 .. l - 1 /\ ~ (k + 1 < p)
        BY <1>1, <2>3, <3>5
      <4>2. q2[k + 1] = q[(k + 1) + 1]
        BY <1>6, <4>1
      <4> QED BY <3>2, <3>3, <3>5, <4>1, <4>2
    <3> QED BY <3>4, <3>5
  <2> QED BY <1>1, <2>1, <2>2, <2>3
<1>14. \A k \in 1 .. l - 1 : pr2[q2[k]] = IF k = 1 THEN NULL ELSE q2[k - 1]
  <2> SUFFICES ASSUME NEW k \in 1 .. l - 1
               PROVE  pr2[q2[k]] = IF k = 1 THEN NULL ELSE q2[k - 1]
    OBVIOUS
  <2>1. CASE k = p
    <3>1. ~ (k < p) /\ k + 1 = p + 1 /\ k + 1 # p /\ k + 1 \in 1 .. l
      BY <1>1, <2>1
    <3>2. pr2[q2[k]] = pr[n]
      BY <1>6, <1>8, <3>1
    <3>3. CASE k = 1
      BY <1>3, <2>1, <3>2, <3>3
    <3>4. CASE k # 1
      <4>1. p # 1 /\ k - 1 \in 1 .. l - 1 /\ k - 1 < p /\ k - 1 = p - 1
        BY <1>1, <2>1, <3>4
      <4>2. q2[k - 1] = q[p - 1]
        BY <1>6, <4>1
      <4> QED BY <1>3, <3>2, <3>4, <4>1, <4>2
    <3> QED BY <3>3, <3>4
  <2>2. CASE k < p
    <3>1. k # p /\ k # p + 1 /\ k \in 1 .. l
      BY <1>1, <2>2
    <3>2. q2[k] = q[k] /\ pr2[q[k]] = pr[q[k]]
      BY <1>6, <1>8, <2>2, <3>1
    <3>3. pr[q[k]] = IF k = 1 THEN NULL ELSE q[k - 1]
      BY <3>1 DEF Follows
    <3>4. CASE k # 1
      <4>1. k - 1 \in 1 .. l - 1 /\ k - 1 < p
        BY <1>1, <2>2, <3>4
      <4>2. q2[k - 1] = q[k - 1]
        BY <1>6, <4>1
      <4> QED BY <3>2, <3>3, <4>2
    <3> QED BY <3>2, <3>3, <3>4
  <2>3. CASE k > p
    <3>1. ~ (k < p) /\ k + 1 # p /\ k + 1 # p + 1 /\ k + 1 \in 1 .. l /\ k # 1 /\ k + 1 # 1
          /\ (k + 1) - 1 = k /\ k - 1 \in 1 .. l - 1 /\ ~ (k - 1 < p) /\ (k - 1) + 1 = k
      BY <1>1, <2>3
    <3>2. q2[k] = q[k + 1] /\ pr2[q[k + 1]] = pr[q[k + 1]] /\ q2[k - 1] = q[k]
      BY <1>6, <1>8, <3>1
    <3>3. pr[q[k + 1]] = q[k]
      BY <3>1 DEF Follows
    <3> QED BY <3>1, <3>2, <3>3
  <2> QED BY <1>1, <2>1, <2>2, <2>3
<1>15. h2 = IF l - 1 = 0 THEN NULL ELSE q2[1]
  <2>1. h = q[1] /\ q[1] # NULL
    <3>1. 1 \in 1 .. l /\ l # 0
      BY <1>1
    <3> QED BY <1>2, <3>1 DEF Follows
  <2>2. h2 = IF p = 1 THEN nx[n] ELSE q[1]
    <3>1. p # 1 => p - 1 \in 1 .. l
      BY <1>1
    <3> QED BY <1>2, <1>3, <2>1, <3>1 DEF LinksOut
  <2>3. CASE p = 1 /\ l = 1
    BY <1>3, <2>2, <2>3
  <2>4. CASE p = 1 /\ l # 1
    <3>1. 1 \in 1 .. l - 1 /\ ~ (1 < p) /\ l - 1 # 0 /\ 1 + 1 = p + 1 /\ p # l
      BY <1>1, <2>4
    <3>2. q2[1] = q[p + 1]
      BY <1>6, <3>1
    <3> QED BY <1>3, <2>2, <2>4, <3>1, <3>2
  <2>5. CASE p # 1
    <3>1. 1 \in 1 .. l - 1 /\ 1 < p /\ l - 1 # 0
      BY <1>1, <2>5
    <3>2. q2[1] = q[1]
      BY <1>6, <3>1
    <3> QED BY <2>2, <2>5, <3>1, <3>2
  <2> QED BY <2>3, <2>4, <2>5
<1>16. t2 = IF l - 1 = 0 THEN NULL ELSE q2[l - 1]
  <2>1. t = q[l] /\ q[l] # NULL
    <3>1. l \in 1 .. l /\ l # 0
      BY <1>1
    <3> QED BY <1>2, <3>1 DEF Follows
  <2>2. t2 = IF p = l THEN pr[n] ELSE q[l]
    <3>1. p # l => p + 1 \in 1 .. l
      BY <1>1
    <3> QED BY <1>2, <1>3, <2>1, <3>1 DEF LinksOut
  <2>3. CASE p = l /\ l = 1
    BY <1>3, <2>2, <2>3
  <2>4. CASE p = l /\ l # 1
    <3>1. l - 1 \in 1 .. l - 1 /\ l - 1 < p /\ l - 1 # 0 /\ l - 1 = p - 1 /\ p # 1
      BY <1>1, <2>4
    <3>2. q2[l - 1] = q[p - 1]
      BY <1>6, <3>1
    <3> QED BY <1>3, <2>2, <2>4, <3>1, <3>2
  <2>5. CASE p # l
    <3>1. l - 1 \in 1 .. l - 1 /\ ~ (l - 1 < p) /\ l - 1 # 0 /\ (l - 1) + 1 = l
      BY <1>1, <2>5
    <3>2. q2[l - 1] = q[l]
      BY <1>6, <3>1
    <3> QED BY <2>2, <2>5, <3>1, <3>2
  <2> QED BY <2>3, <2>4, <2>5
<1>17. l - 1 \in Nat
  BY <1>1
<1> QED BY <1>10, <1>11, <1>12, <1>13, <1>14, <1>15, <1>16, <1>17 DEF Follows
-----------------------------------------------------------------------------
(* What the list means: the sequence of payloads module ListView sees.        *)

Seen == [k \in 1 .. len |-> Payload(Nodes[k])]
SeenBy(q) == /\ Seen = [k \in 1 .. len |-> v[q[k]]] /\ \A k \in 1 .. len : v[q[k]] \in Value
             /\ Seen \in Seq(Value) /\ Len(Seen) = len /\ len \in Nat
(* It is read off the nodes followed.                                         *)
LEMMA SeenIs ==
  ASSUME NEW q
  PROVE  Typed /\ Holds(q) => SeenBy(q)
<1> SUFFICES ASSUME Typed, Holds(q) PROVE SeenBy(q)
  OBVIOUS
<1>1. Nodes = q /\ len \in Nat
  BY NodesAre DEF Holds, Follows
<1>2. \A k \in 1 .. len : q[k] # NULL /\ v[q[k]] \in Value
  BY LinkedListAssumption DEF Holds, Follows, Used, Typed, NULL
<1>3. \A k \in 1 .. len : Payload(q[k]) = v[q[k]]
  BY <1>2 DEF Payload
<1>4. Seen = [k \in 1 .. len |-> v[q[k]]]
  BY <1>1, <1>3 DEF Seen
<1> PICK s, l : s = [k \in 1 .. len |-> v[q[k]]] /\ l = len
  OBVIOUS
<1>5. s \in [1 .. l -> Value]
  BY <1>2
<1>6. s \in Seq(Value) /\ Len(s) = l
  BY <1>1, <1>5
<1> QED BY <1>1, <1>2, <1>4, <1>6 DEF SeenBy

(* And after a step.                                                          *)
LEMMA SeenNext ==
  ASSUME NEW q
  PROVE  Typed' /\ Holds(q)' => SeenBy(q)'
<1>1. Typed /\ Holds(q) => SeenBy(q)
  BY SeenIs
<1> QED BY <1>1, PTL

(* The place of a node is where it is followed.                               *)
LEMMA PlaceIs ==
  ASSUME Typed, NEW q, Holds(q)
  PROVE  /\ Place(NULL) = 0
         /\ \A p \in 1 .. len : Place(q[p]) = p
         /\ \A n \in Used : Place(n) \in 1 .. len /\ q[Place(n)] = n
<1>1. Nodes = q
  BY NodesAre
<1>2. \A p \in 1 .. len : q[p] # NULL
  BY LinkedListAssumption DEF Holds, Follows, Used, NULL
<1>3. \A p \in 1 .. len : Place(q[p]) = p
  BY <1>1, <1>2 DEF Place, Holds, Follows
<1>4. \A n \in Used : \E p \in 1 .. len : q[p] = n
  BY DEF Holds, Follows
<1>5. Place(NULL) = 0
  BY DEF Place
<1>6. ASSUME NEW n \in Used PROVE Place(n) \in 1 .. len /\ q[Place(n)] = n
  <2>1. PICK p \in 1 .. len : q[p] = n
    BY <1>4
  <2> QED BY <1>3, <2>1
<1> QED BY <1>3, <1>5, <1>6

(* What a step leaves: nodes that are followed, and s as the payloads.        *)
Leaves(q2, s) == Typed' /\ Holds(q2)' /\ Seen' = s

(* jbl_ll_node_insert puts the payload behind the node's.                     *)
LEMMA InsertStep ==
  ASSUME Typed, NEW q, Holds(q), NEW x \in Value, NEW after \in Used \cup {NULL},
         NEW n \in Node \ Used, InsertNode(n, x, after)
  PROVE  \E q2 : Leaves(q2, InsertAt(Seen, Place(after) + 1, x))
<1> PICK p : p = Place(after)
  OBVIOUS
<1> PICK l, u, val, sn : l = len /\ u = Used /\ val = v /\ sn = Seen
  OBVIOUS
<1>1. /\ p \in 0 .. l /\ l \in Nat /\ after = (IF p = 0 THEN NULL ELSE q[p])
      /\ u \subseteq Node /\ Follows(q, l, u, head, tail, nxt, pre)
  BY PlaceIs DEF Holds, Follows, Used
<1> PICK next : next = IF after = NULL THEN head ELSE nxt[after]
  OBVIOUS
<1>2. next = (IF p = l THEN NULL ELSE q[p + 1]) /\ next \in Node \cup {NULL} /\ next # n
  <2>1. \A k \in 1 .. l : q[k] \in u /\ q[k] # NULL
    BY <1>1, LinkedListAssumption DEF Follows, NULL
  <2>2. next = (IF p = l THEN NULL ELSE q[p + 1])
    <3>1. CASE p = 0
      <4>1. next = head /\ 0 + 1 = 1
        BY <1>1, <3>1
      <4> QED BY <1>1, <3>1, <4>1 DEF Follows
    <3>2. CASE p # 0
      <4>1. p \in 1 .. l
        BY <1>1, <3>2
      <4>2. next = nxt[q[p]]
        BY <1>1, <2>1, <3>2, <4>1
      <4> QED BY <1>1, <4>1, <4>2 DEF Follows
    <3> QED BY <3>1, <3>2
  <2>3. p # l => p + 1 \in 1 .. l
    BY <1>1
  <2>4. NULL # n
    BY LinkedListAssumption DEF NULL
  <2> QED BY <1>1, <2>1, <2>2, <2>3, <2>4
<1>3. after \in Node \cup {NULL} /\ after # n
  BY LinkedListAssumption DEF Used, NULL
<1> PICK q2 : q2 = Longer(q, l, p, n)
  OBVIOUS
<1>4. LinksIn(head, tail, nxt, pre, n, after, next, head', tail', nxt', pre')
  <2>1. head' = (IF after = NULL THEN n ELSE head) /\ tail' = (IF next = NULL THEN n ELSE tail)
    BY DEF InsertNode
  <2>2. \A m \in Node : nxt'[m] = CASE m = n -> next [] m = after -> n [] OTHER -> nxt[m]
    BY DEF InsertNode
  <2>3. \A m \in Node : pre'[m] = CASE m = n -> after [] m = next -> n [] OTHER -> pre[m]
    BY DEF InsertNode
  <2> QED BY <2>1, <2>2, <2>3 DEF LinksIn
<1>5. len' = l + 1 /\ v' = [val EXCEPT ![n] = x]
  BY DEF InsertNode
<1>6. Used' = u \cup {n} /\ v' \in [Node -> Value \cup {NULL}]
      /\ v'[n] = x /\ \A m \in u : v'[m] = val[m]
  BY <1>5, LinkedListAssumption DEF Used, Typed, NULL
<1>7. Typed'
  <2>1. nxt' \in [Node -> Node \cup {NULL}]
    <3>1. nxt' = [m \in Node |-> CASE m = n -> next [] m = after -> n [] OTHER -> nxt[m]]
      BY DEF InsertNode
    <3>2. ASSUME NEW m \in Node
          PROVE (CASE m = n -> next [] m = after -> n [] OTHER -> nxt[m]) \in Node \cup {NULL}
      BY <1>2, <1>3 DEF Typed
    <3> QED BY <3>1, <3>2
  <2>2. pre' \in [Node -> Node \cup {NULL}]
    <3>1. pre' = [m \in Node |-> CASE m = n -> after [] m = next -> n [] OTHER -> pre[m]]
      BY DEF InsertNode
    <3>2. ASSUME NEW m \in Node
          PROVE (CASE m = n -> after [] m = next -> n [] OTHER -> pre[m]) \in Node \cup {NULL}
      BY <1>2, <1>3 DEF Typed
    <3> QED BY <3>1, <3>2
  <2> QED BY <1>6, <2>1, <2>2 DEF Typed
<1>8. Holds(q2)'
  <2>1. Follows(q2, l + 1, u \cup {n}, head', tail', nxt', pre')
    BY <1>1, <1>2, <1>4, InsertFollows
  <2> QED BY <1>5, <1>6, <2>1 DEF Holds
<1>9. Seen' = InsertAt(sn, p + 1, x)
  <2>1. SeenBy(q)
    BY SeenIs
  <2>2. Seen' = [k \in 1 .. len' |-> v'[q2[k]]]
    BY <1>7, <1>8, SeenNext DEF SeenBy
  <2>3. \A k \in 1 .. l + 1 : v'[q2[k]] = CASE k <= p -> sn[k] [] k = p + 1 -> x
                                             [] OTHER -> sn[k - 1]
    <3> SUFFICES ASSUME NEW k \in 1 .. l + 1
                 PROVE  v'[q2[k]] = CASE k <= p -> sn[k] [] k = p + 1 -> x [] OTHER -> sn[k - 1]
      OBVIOUS
    <3>1. \A m \in 1 .. l : v'[q[m]] = sn[m]
      BY <1>1, <1>6, <2>1 DEF SeenBy, Follows
    <3>2. q2[k] = CASE k <= p -> q[k] [] k = p + 1 -> n [] OTHER -> q[k - 1]
      BY DEF Longer
    <3>3. CASE k <= p
      <4>1. k \in 1 .. l
        BY <1>1, <3>3
      <4> QED BY <1>1, <3>1, <3>2, <3>3, <4>1
    <3>4. CASE k = p + 1
      <4>1. ~ (k <= p)
        <5>1. p \in Nat
          BY <1>1
        <5> QED BY ONLY <3>4, <5>1
      <4>2. q2[k] = n
        BY <3>2, <3>4, <4>1
      <4> QED BY <1>6, <3>4, <4>1, <4>2
    <3>5. CASE k > p + 1
      <4>1. k - 1 \in 1 .. l /\ ~ (k <= p) /\ k # p + 1
        BY <1>1, <3>5
      <4> QED BY <3>1, <3>2, <4>1
    <3> QED BY <1>1, <3>3, <3>4, <3>5
  <2>4. Seen' = Longer(sn, l, p, x)
    BY <1>5, <2>2, <2>3 DEF Longer
  <2>5. sn \in Seq(Value) /\ Len(sn) = l
    BY <2>1 DEF SeenBy
  <2>6. InsertAt(sn, p + 1, x) = Longer(sn, l, p, x)
    BY <1>1, <2>5, InsertIsLonger
  <2> QED BY <2>4, <2>6
<1> QED BY <1>7, <1>8, <1>9 DEF Leaves

(* jbl_ll_node_delete takes out the payload of the node.                      *)
LEMMA DeleteStep ==
  ASSUME Typed, NEW q, Holds(q), NEW n \in Used, DeleteNode(n)
  PROVE  \E q2 : Leaves(q2, RemoveAt(Seen, Place(n)))
<1> PICK p : p = Place(n)
  OBVIOUS
<1> PICK l, u, val, sn : l = len /\ u = Used /\ val = v /\ sn = Seen
  OBVIOUS
<1>1. /\ p \in 1 .. l /\ l \in Nat /\ n = q[p] /\ n \in Node
      /\ u \subseteq Node /\ Follows(q, l, u, head, tail, nxt, pre)
  BY PlaceIs DEF Holds, Follows, Used
<1> PICK q2 : q2 = Shorter(q, l, p)
  OBVIOUS
<1>2. LinksOut(head, tail, nxt, pre, n, head', tail', nxt', pre')
  <2>1. head' = (IF pre[n] = NULL THEN nxt[n] ELSE head)
        /\ tail' = (IF nxt[n] = NULL THEN pre[n] ELSE tail)
    BY DEF DeleteNode
  <2>2. \A m \in Node : nxt'[m] = CASE m = n -> NULL [] m = pre[n] -> nxt[n] [] OTHER -> nxt[m]
    BY DEF DeleteNode
  <2>3. \A m \in Node : pre'[m] = CASE m = n -> NULL [] m = nxt[n] -> pre[n] [] OTHER -> pre[m]
    BY DEF DeleteNode
  <2> QED BY <2>1, <2>2, <2>3 DEF LinksOut
<1>3. len' = l - 1 /\ v' = [val EXCEPT ![n] = NULL]
  BY DEF DeleteNode
<1>4. Used' = u \ {n} /\ v' \in [Node -> Value \cup {NULL}] /\ \A m \in u \ {n} : v'[m] = val[m]
  BY <1>1, <1>3 DEF Used, Typed
<1>5. Typed'
  <2>1. nxt' \in [Node -> Node \cup {NULL}]
    <3>1. nxt' = [m \in Node |-> CASE m = n -> NULL [] m = pre[n] -> nxt[n] [] OTHER -> nxt[m]]
      BY DEF DeleteNode
    <3>2. ASSUME NEW m \in Node
          PROVE (CASE m = n -> NULL [] m = pre[n] -> nxt[n] [] OTHER -> nxt[m]) \in Node \cup {NULL}
      BY <1>1 DEF Typed
    <3> QED BY <3>1, <3>2
  <2>2. pre' \in [Node -> Node \cup {NULL}]
    <3>1. pre' = [m \in Node |-> CASE m = n -> NULL [] m = nxt[n] -> pre[n] [] OTHER -> pre[m]]
      BY DEF DeleteNode
    <3>2. ASSUME NEW m \in Node
          PROVE (CASE m = n -> NULL [] m = nxt[n] -> pre[n] [] OTHER -> pre[m]) \in Node \cup {NULL}
      BY <1>1 DEF Typed
    <3> QED BY <3>1, <3>2
  <2> QED BY <1>4, <2>1, <2>2 DEF Typed
<1>6. Holds(q2)'
  <2>1. Follows(q2, l - 1, u \ {n}, head', tail', nxt', pre')
    BY <1>1, <1>2, DeleteFollows
  <2> QED BY <1>3, <1>4, <2>1 DEF Holds
<1>7. Seen' = RemoveAt(sn, p)
  <2>1. SeenBy(q)
    BY SeenIs
  <2>2. Seen' = [k \in 1 .. len' |-> v'[q2[k]]]
    BY <1>5, <1>6, SeenNext DEF SeenBy
  <2>3. \A k \in 1 .. l - 1 : v'[q2[k]] = IF k < p THEN sn[k] ELSE sn[k + 1]
    <3> SUFFICES ASSUME NEW k \in 1 .. l - 1
                 PROVE  v'[q2[k]] = IF k < p THEN sn[k] ELSE sn[k + 1]
      OBVIOUS
    <3>1. \A m \in 1 .. l : m # p => v'[q[m]] = sn[m]
      <4>1. \A m \in 1 .. l : m # p => q[m] \in u \ {n}
        BY <1>1 DEF Follows
      <4>2. \A m \in 1 .. l : sn[m] = val[q[m]]
        BY <2>1 DEF SeenBy
      <4> QED BY <1>4, <4>1, <4>2
    <3>2. q2[k] = IF k < p THEN q[k] ELSE q[k + 1]
      BY DEF Shorter
    <3>3. k \in 1 .. l /\ k + 1 \in 1 .. l /\ (k < p => k # p) /\ (~ (k < p) => k + 1 # p)
      BY <1>1
    <3> QED BY <3>1, <3>2, <3>3
  <2>4. Seen' = Shorter(sn, l, p)
    BY <1>3, <2>2, <2>3 DEF Shorter
  <2>5. sn \in Seq(Value) /\ Len(sn) = l
    BY <2>1 DEF SeenBy
  <2>6. RemoveAt(sn, p) = Shorter(sn, l, p)
    BY <1>1, <2>5, RemoveIsShorter
  <2> QED BY <2>4, <2>6
<1> QED BY <1>5, <1>6, <1>7 DEF Leaves

(* jbl_ll_swap_node exchanges two payloads.                                   *)
LEMMA SwapStep ==
  ASSUME Typed, NEW q, Holds(q), NEW a \in Used, NEW b \in Used, SwapNode(a, b)
  PROVE  Leaves(q, [Seen EXCEPT ![Place(a)] = Seen[Place(b)], ![Place(b)] = Seen[Place(a)]])
<1> PICK l, u, val, sn : l = len /\ u = Used /\ val = v /\ sn = Seen
  OBVIOUS
<1> PICK c, d : c = Place(a) /\ d = Place(b)
  OBVIOUS
<1>1. /\ c \in 1 .. l /\ d \in 1 .. l /\ l \in Nat /\ q[c] = a /\ q[d] = b /\ a # b
      /\ a \in Node /\ b \in Node /\ val[a] # NULL /\ val[b] # NULL
  <2>1. c \in 1 .. l /\ d \in 1 .. l /\ q[c] = a /\ q[d] = b
    BY PlaceIs
  <2>2. l \in Nat /\ a # b
    BY DEF Holds, Follows, SwapNode
  <2> QED BY <2>1, <2>2 DEF Used
<1>2. v' = [val EXCEPT ![a] = val[b], ![b] = val[a]] /\ UNCHANGED <<head, tail, len, pre, nxt>>
  BY DEF SwapNode
<1>3. /\ v' \in [Node -> Value \cup {NULL}] /\ v'[a] = val[b] /\ v'[b] = val[a]
      /\ \A m \in Node : m # a /\ m # b => v'[m] = val[m]
  BY <1>1, <1>2 DEF Typed
<1>4. Used' = u
  BY <1>1, <1>3 DEF Used
<1>5. Typed' /\ Holds(q)'
  BY <1>2, <1>3, <1>4 DEF Typed, Holds
<1>6. Seen' = [sn EXCEPT ![c] = sn[d], ![d] = sn[c]]
  <2>1. SeenBy(q)
    BY SeenIs
  <2>2. Seen' = [k \in 1 .. l |-> v'[q[k]]]
    BY <1>2, <1>5, SeenNext DEF SeenBy
  <2>3. sn = [k \in 1 .. l |-> val[q[k]]]
    BY <2>1 DEF SeenBy
  <2>4. \A k \in 1 .. l : q[k] \in Node /\ (q[k] = a <=> k = c) /\ (q[k] = b <=> k = d)
    BY <1>1 DEF Holds, Follows, Used
  <2>5. \A k \in 1 .. l : v'[q[k]] = IF k = d THEN sn[c] ELSE IF k = c THEN sn[d] ELSE sn[k]
    BY <1>1, <1>3, <2>3, <2>4
  <2>6. [sn EXCEPT ![c] = sn[d], ![d] = sn[c]]
          = [k \in 1 .. l |-> IF k = d THEN sn[c] ELSE IF k = c THEN sn[d] ELSE sn[k]]
    BY <1>1, <2>3
  <2>7. [k \in 1 .. l |-> v'[q[k]]]
          = [k \in 1 .. l |-> IF k = d THEN sn[c] ELSE IF k = c THEN sn[d] ELSE sn[k]]
    BY <2>5
  <2> QED BY ONLY <2>2, <2>6, <2>7
<1> QED BY <1>5, <1>6 DEF Leaves
-----------------------------------------------------------------------------
(* The invariant.                                                             *)

(* It holds of the list without nodes.                                        *)
LEMMA ListInvInit ==
  ASSUME Init
  PROVE  ListInv
<1>1. Typed /\ Walking
  BY DEF Init, Typed, Walking
<1>2. Used = {}
  BY DEF Init, Used
<1> PICK q : q = [k \in 1 .. 0 |-> NULL]
  OBVIOUS
<1>3. Holds(q)
  BY <1>2 DEF Init, Holds, Follows
<1> QED BY <1>1, <1>3 DEF ListInv

(* Leaving a list that is followed keeps the invariant.                       *)
LEMMA LeavesHolds ==
  ASSUME NEW q2, NEW s, Leaves(q2, s), Walking'
  PROVE  ListInv'
BY DEF Leaves, ListInv

(* A call outside the walk leaves the walk alone.                             *)
LEMMA IdleWalks ==
  ASSUME Idle, UNCHANGED <<i, j>>
  PROVE  Walking'
BY DEF Idle, Walking

(* The first node of a list that is freed, and the second.                    *)
LEMMA FreeStepHead ==
  ASSUME Typed, Walking, NEW q, Holds(q), FreeStep
  PROVE  /\ i \in Used /\ Place(i) = 1 /\ DeleteNode(i) /\ Walking'
<1>1. i # NULL /\ i = head /\ j = nxt[i] /\ DeleteNode(i)
  BY DEF FreeStep, Walking
<1>2. len \in Nat /\ len # 0 /\ head = q[1] /\ 1 \in 1 .. len
  BY <1>1 DEF Holds, Follows
<1>3. i \in Used /\ Place(i) = 1
  <2>1. i \in Used
    BY <1>1, <1>2 DEF Holds, Follows
  <2>2. Place(q[1]) = 1
    BY <1>2, PlaceIs
  <2> QED BY <1>1, <1>2, <2>1, <2>2
<1>4. pre[i] = NULL
  BY <1>1, <1>2 DEF Holds, Follows
<1>5. head' = j
  BY <1>1, <1>4 DEF DeleteNode
<1>6. i' = j /\ (j # NULL => j' = nxt'[j])
  BY DEF FreeStep
<1>7. Walking'
  BY <1>5, <1>6 DEF Walking
<1> QED BY <1>1, <1>3, <1>7

(* The walk begins at the head.                                               *)
LEMMA BeginFreeStep ==
  ASSUME ListInv, BeginFree
  PROVE  ListInv' /\ Seen' = Seen
<1>1. UNCHANGED <<head, tail, len, pre, nxt, v>>
  BY DEF BeginFree
<1>2. Walking'
  BY <1>1 DEF BeginFree, Walking
<1>3. Typed' /\ (\A q : Holds(q) => Holds(q)')
  BY <1>1 DEF ListInv, Typed, Holds, Used
<1>4. Seen' = Seen
  BY <1>1 DEF Seen, Payload, Nodes, Walk
<1> QED BY <1>2, <1>3, <1>4 DEF ListInv

(* What each operation does to the payloads, and that the links stay.         *)
LEMMA StepsDo ==
  ASSUME ListInv
  PROVE  /\ \A x \in Value, after \in Used \cup {NULL} :
              Insert(x, after) => ListInv' /\ Seen' = InsertAt(Seen, Place(after) + 1, x)
         /\ \A n \in Used : Delete(n) => ListInv' /\ Seen' = RemoveAt(Seen, Place(n))
         /\ \A a, b \in Used :
              SwapNode(a, b) =>
                /\ ListInv'
                /\ Seen' = [Seen EXCEPT ![Place(a)] = Seen[Place(b)], ![Place(b)] = Seen[Place(a)]]
         /\ FreeStep => ListInv' /\ Seen' = RemoveAt(Seen, 1) /\ Seen # <<>>
         /\ BeginFree => ListInv' /\ Seen' = Seen
<1>1. PICK q : Typed /\ Walking /\ Holds(q)
  BY DEF ListInv
<1>2. ASSUME NEW x \in Value, NEW after \in Used \cup {NULL}, Insert(x, after)
      PROVE  ListInv' /\ Seen' = InsertAt(Seen, Place(after) + 1, x)
  <2>1. PICK n \in Node \ Used : InsertNode(n, x, after)
    BY <1>2 DEF Insert
  <2>2. PICK q2 : Leaves(q2, InsertAt(Seen, Place(after) + 1, x))
    BY <1>1, <2>1, InsertStep
  <2>3. Walking'
    BY <1>2, IdleWalks DEF Insert
  <2> QED BY <2>2, <2>3, LeavesHolds DEF Leaves
<1>3. ASSUME NEW n \in Used, Delete(n) PROVE ListInv' /\ Seen' = RemoveAt(Seen, Place(n))
  <2>1. PICK q2 : Leaves(q2, RemoveAt(Seen, Place(n)))
    BY <1>1, <1>3, DeleteStep DEF Delete
  <2>2. Walking'
    BY <1>3, IdleWalks DEF Delete
  <2> QED BY <2>1, <2>2, LeavesHolds DEF Leaves
<1>4. ASSUME NEW a \in Used, NEW b \in Used, SwapNode(a, b)
      PROVE  /\ ListInv'
             /\ Seen' = [Seen EXCEPT ![Place(a)] = Seen[Place(b)], ![Place(b)] = Seen[Place(a)]]
  <2>1. Leaves(q, [Seen EXCEPT ![Place(a)] = Seen[Place(b)], ![Place(b)] = Seen[Place(a)]])
    BY <1>1, <1>4, SwapStep
  <2>2. Walking'
    BY <1>4, IdleWalks DEF SwapNode
  <2> QED BY <2>1, <2>2, LeavesHolds DEF Leaves
<1>5. ASSUME FreeStep PROVE ListInv' /\ Seen' = RemoveAt(Seen, 1) /\ Seen # <<>>
  <2>1. i \in Used /\ Place(i) = 1 /\ DeleteNode(i) /\ Walking'
    BY <1>1, <1>5, FreeStepHead
  <2>2. PICK q2 : Leaves(q2, RemoveAt(Seen, 1))
    BY <1>1, <2>1, DeleteStep
  <2>3. Seen # <<>>
    <3>1. 1 \in 1 .. len
      BY <1>1, <2>1, PlaceIs
    <3>2. len \in Nat /\ len # 0 /\ Len(Seen) = len
      BY <1>1, <3>1, SeenIs DEF SeenBy
    <3> QED BY <3>2
  <2> QED BY <2>1, <2>2, <2>3, LeavesHolds DEF Leaves
<1>6. ASSUME BeginFree PROVE ListInv' /\ Seen' = Seen
  BY <1>6, BeginFreeStep
<1> QED BY <1>2, <1>3, <1>4, <1>5, <1>6

(* It is kept by every step.                                                  *)
LEMMA ListInvNext ==
  ASSUME ListInv, [Next]_vars
  PROVE  ListInv'
<1>1. CASE Next
  BY <1>1, StepsDo DEF Next
<1>2. CASE UNCHANGED vars
  BY <1>2 DEF vars, ListInv, Typed, Walking, Holds, Used
<1> QED BY <1>1, <1>2

(* In every state the nodes in use are followed, once each, from the head to  *)
(* the tail and back.                                                         *)
THEOREM NodesStayFollowed == Spec => []ListInv
<1>1. Init => ListInv
  BY ListInvInit
<1>2. ListInv /\ [Next]_vars => ListInv'
  BY ListInvNext
<1> QED BY <1>1, <1>2, PTL DEF Spec

(* Head, tail, length and the links of every node agree after any calls of    *)
(* jbl_ll_node_insert, jbl_ll_node_delete and jbl_ll_swap_node, and in the    *)
(* middle of jbl_ll_free.                                                     *)
THEOREM ListStaysLinked == Spec => []WellLinked
<1>1. ListInv => WellLinked
  BY HoldsLinked DEF ListInv
<1> QED BY <1>1, NodesStayFollowed, PTL

(* Each call changes the payloads at the node it was given, and nothing else: *)
(* inserts behind it, takes it out, exchanges it with the other.              *)
THEOREM CallsHitTheirNode == Spec => InPlace
<1> DEFINE Calls ==
  /\ \A x \in Value, after \in Used \cup {NULL} :
       Insert(x, after) => View!AddAt(Place(after) + 1, x)
  /\ \A n \in Used : Delete(n) => View!DropAt(Place(n))
  /\ \A a, b \in Used : SwapNode(a, b) => View!Exchange(Place(a), Place(b))
  /\ FreeStep => View!DropAt(1)
<1>1. ListInv => Calls
  <2> SUFFICES ASSUME ListInv PROVE Calls
    OBVIOUS
  <2>1. \A x, k : Seen' = InsertAt(Seen, k, x) => View!AddAt(k, x)
    BY DEF Seen, View!AddAt, InsertAt, View!InsertAt
  <2>2. \A k : Seen' = RemoveAt(Seen, k) => View!DropAt(k)
    BY DEF Seen, View!DropAt, RemoveAt, View!RemoveAt
  <2>3. \A k, m : Seen' = [Seen EXCEPT ![k] = Seen[m], ![m] = Seen[k]] => View!Exchange(k, m)
    BY DEF Seen, View!Exchange
  <2> QED BY <2>1, <2>2, <2>3, StepsDo
<1>2. ListInv /\ [Next]_vars => [Calls]_vars
  BY <1>1
<1>3. InPlace <=> [][Calls]_vars
  BY DEF InPlace
<1>4. Spec => [][Calls]_vars
  <2> HIDE DEF Calls
  <2> QED BY <1>2, NodesStayFollowed, PTL DEF Spec
<1> QED BY <1>3, <1>4

(* A list is a sequence of payloads that is changed at one place at a time    *)
(* (module ListView).                                                         *)
THEOREM ListImplemented == Spec => ImplementsList
<1>1. Init => View!Init
  <2>1. Init => Seen = <<>>
    <3> SUFFICES ASSUME Init PROVE Seen = <<>>
      OBVIOUS
    <3>1. len = 0
      BY DEF Init
    <3> QED BY <3>1 DEF Seen
  <2> QED BY <2>1 DEF Seen, View!Init
<1>2. ListInv /\ [Next]_vars => [View!Next]_Seen
  <2> SUFFICES ASSUME ListInv, [Next]_vars PROVE [View!Next]_Seen
    OBVIOUS
  <2>1. PICK q : Typed /\ Holds(q)
    BY DEF ListInv
  <2>2. Seen \in Seq(Value) /\ Len(Seen) = len /\ len \in Nat
    BY <2>1, SeenIs DEF SeenBy
  <2>3. DOMAIN Seen = 1 .. len
    BY <2>2
  <2>4. ASSUME NEW x \in Value, NEW k \in 1 .. len + 1, Seen' = InsertAt(Seen, k, x)
        PROVE  View!Next
    <3>1. k \in 1 .. Len(Seen) + 1
      BY <2>2
    <3>2. View!AddAt(k, x)
      BY <2>4 DEF Seen, View!AddAt, InsertAt, View!InsertAt
    <3> QED BY <3>1, <3>2 DEF Seen, View!Next
  <2>5. ASSUME NEW k \in 1 .. len, Seen' = RemoveAt(Seen, k) PROVE View!Next
    <3>1. View!DropAt(k)
      BY <2>5 DEF Seen, View!DropAt, RemoveAt, View!RemoveAt
    <3> QED BY <2>3, <3>1 DEF Seen, View!Next
  <2>6. ASSUME NEW k \in 1 .. len, NEW m \in 1 .. len,
               Seen' = [Seen EXCEPT ![k] = Seen[m], ![m] = Seen[k]]
        PROVE  View!Next
    <3>1. View!Exchange(k, m)
      BY <2>6 DEF Seen, View!Exchange
    <3> QED BY <2>3, <3>1 DEF Seen, View!Next
  <2>7. ASSUME NEW x \in Value, NEW after \in Used \cup {NULL}, Insert(x, after) PROVE View!Next
    <3>1. Place(after) + 1 \in 1 .. len + 1
      BY <2>1, <2>2, PlaceIs
    <3> QED BY <2>4, <2>7, <3>1, StepsDo
  <2>8. ASSUME NEW n \in Used, Delete(n) PROVE View!Next
    <3>1. Place(n) \in 1 .. len
      BY <2>1, PlaceIs
    <3> QED BY <2>5, <2>8, <3>1, StepsDo
  <2>9. ASSUME NEW a \in Used, NEW b \in Used, SwapNode(a, b) PROVE View!Next
    <3>1. Place(a) \in 1 .. len /\ Place(b) \in 1 .. len
      BY <2>1, PlaceIs
    <3> QED BY <2>6, <2>9, <3>1, StepsDo
  <2>10. ASSUME FreeStep PROVE View!Next
    <3>1. Seen' = RemoveAt(Seen, 1) /\ Seen # <<>>
      BY <2>10, StepsDo
    <3>2. 1 \in 1 .. len
      BY <2>2, <3>1
    <3> QED BY <2>5, <3>1, <3>2
  <2>11. ASSUME BeginFree PROVE Seen' = Seen
    BY <2>11, StepsDo
  <2>12. ASSUME UNCHANGED vars PROVE Seen' = Seen
    BY <2>12 DEF vars, Seen, Payload, Nodes, Walk
  <2> QED BY <2>7, <2>8, <2>9, <2>10, <2>11, <2>12 DEF Next
<1>3. ImplementsList <=> View!Init /\ [][View!Next]_Seen
  BY DEF ImplementsList, View!Spec, Seen
<1>4. Spec => View!Init /\ [][View!Next]_Seen
  BY <1>1, <1>2, NodesStayFollowed, PTL DEF Spec
<1> QED BY <1>3, <1>4
=============================================================================
