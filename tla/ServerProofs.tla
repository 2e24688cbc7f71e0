---------------------------- MODULE ServerProofs ----------------------------
(***************************************************************************)
(* Proofs about the server loop (module Server) for any number of clients, *)
(* descriptors and addresses of poll nodes: OwnHandle and PendingLive.     *)
(*                                                                         *)
(* Neither is inductive.  What they rest on: a socket that was closed and  *)
(* not yet removed keeps a descriptor that is free (Registered), and of    *)
(* the nodes with a pending event only websockets are closed (QueueOpen),  *)
(* since a handler closes its own node, whose event is taken, and a        *)
(* broadcast closes websockets.                                            *)
(***************************************************************************)
EXTENDS Server, FiniteSetTheorems, SequenceTheorems, WellFoundedInduction, TLAPS

Client0 == [here : BOOLEAN, unread : BOOLEAN, more : BOOLEAN, asked : BOOLEAN, eof : BOOLEAN]
Node0 == [handle : 0 .. MaxHandle, mode : BOOLEAN, ws : BOOLEAN, said : BOOLEAN]

WorldType == [peer : [Peers -> Client0],
              fds : [Handles -> Peers \cup {None}],
              reg : [Handles -> Nodes \cup {None}],
              ready : SUBSET (Handles \cup {0}),
              node : [Nodes -> Node0],
              poll : SUBSET Nodes]

(* A descriptor in use is that of one open socket, registered under its node; *)
(* that of a closed one is free, and nothing is due on a free one.            *)
OpenOwns(w) == \A n \in w.poll : w.node[n].mode =>
                 /\ w.node[n].handle \in Handles
                 /\ w.fds[w.node[n].handle] \in Peers /\ w.reg[w.node[n].handle] = n
ClosedFree(w) == \A n \in w.poll : ~ w.node[n].mode =>
                   w.node[n].handle \in Handles /\ w.fds[w.node[n].handle] = None
UsedOwned(w) == \A h \in Handles : w.fds[h] # None =>
                  \E n \in w.poll : w.node[n].mode /\ w.node[n].handle = h
ReadyUsed(w) == \A h \in w.ready \ {0} : w.fds[h] # None

Registered(w) == /\ w \in WorldType
                 /\ OpenOwns(w) /\ ClosedFree(w) /\ UsedOwned(w) /\ ReadyUsed(w)

(* The events still to be taken.  b: the batch, a: the node being served, s:  *)
(* nodes of pending events that were freed, whose address may be in the poll  *)
(* again, of another client.                                                  *)
QueueTyped(b, a) == b \in Seq(Nodes \cup {HostNode}) /\ a \in Nodes \cup {None}
QueueLive(w, b, a, s) ==
  /\ \A i \in DOMAIN b : b[i] \in w.poll \cup s \cup {HostNode} /\ b[i] # a
  /\ a # None => a \in w.poll \cup s
  /\ \A i, j \in DOMAIN b : b[i] = b[j] => i = j
QueueOpen(w, b, s) ==
  \A i \in DOMAIN b : b[i] \in w.poll \ s => w.node[b[i]].mode \/ w.node[b[i]].ws

(* Only an event still to be taken is stale.                                  *)
StaleDue(b, a, s) ==
  /\ s \subseteq Nodes
  /\ \A n \in s : n = a \/ \E i \in DOMAIN b : b[i] = n

(* An event of the listening socket stands for a connection to accept.        *)
HostDue(b, q) == (\E i \in DOMAIN b : b[i] = HostNode) => q # <<>>

Ordered(w, b, a, q, s) ==
  /\ Registered(w)
  /\ QueueTyped(b, a) /\ QueueLive(w, b, a, s) /\ QueueOpen(w, b, s) /\ StaleDue(b, a, s)
  /\ q \in Seq(Peers) /\ HostDue(b, q)

ServerInv == Ordered(World, batch, at, backlog, stale)
-----------------------------------------------------------------------------
(* The pieces of a handler keep the sockets and the registrations in order. *)

(* The descriptors that closing the sockets of S gives back.                  *)
Gone(w, S) == {w.node[n].handle : n \in {m \in S : w.node[m].mode}}

(* What jwl_socket_close does to the sockets of S, field by field.            *)
LEMMA ClosesFacts ==
  ASSUME NEW w \in WorldType, NEW S, S \subseteq w.poll, NEW v, v = Closes(w, S)
  PROVE  /\ v \in WorldType /\ v.poll = w.poll
         /\ \A h \in Handles : v.fds[h] = (IF h \in Gone(w, S) THEN None ELSE w.fds[h])
         /\ \A h \in Handles : v.reg[h] = (IF h \in Gone(w, S) THEN None ELSE w.reg[h])
         /\ v.ready = w.ready \ Gone(w, S)
         /\ \A n \in Nodes : v.node[n].handle = w.node[n].handle /\ v.node[n].ws = w.node[n].ws
         /\ \A n \in Nodes : v.node[n].mode <=> w.node[n].mode /\ n \notin S
<1> DEFINE open == {n \in S : w.node[n].mode}
           gone == {w.node[n].handle : n \in open}
           left == {w.fds[h] : h \in gone}
           fds1 == [h \in Handles |-> IF h \in gone THEN None ELSE w.fds[h]]
           reg1 == [h \in Handles |-> IF h \in gone THEN None ELSE w.reg[h]]
           peer1 == [p \in Peers |-> IF p \in left THEN Away ELSE w.peer[p]]
           node1 == [n \in Nodes |-> IF n \in open THEN Reset(w.node[n]) ELSE w.node[n]]
<1>1. v = [w EXCEPT !.fds = fds1, !.peer = peer1, !.node = node1, !.reg = reg1,
                    !.ready = w.ready \ gone]
  BY DEF Closes, Deregister, WorldType
<1>2. /\ w.fds \in [Handles -> Peers \cup {None}] /\ w.reg \in [Handles -> Nodes \cup {None}]
      /\ w.peer \in [Peers -> Client0] /\ w.node \in [Nodes -> Node0]
      /\ w.ready \subseteq Handles \cup {0} /\ w.poll \subseteq Nodes
  BY DEF WorldType
<1>3. Gone(w, S) = gone
  BY DEF Gone
<1>4. /\ fds1 \in [Handles -> Peers \cup {None}] /\ reg1 \in [Handles -> Nodes \cup {None}]
      /\ w.ready \ gone \subseteq Handles \cup {0}
  BY <1>2
<1>5. peer1 \in [Peers -> Client0]
  BY <1>2 DEF Away, Client0
<1>6. \A n \in Nodes : /\ Reset(w.node[n]) \in Node0
                       /\ Reset(w.node[n]).handle = w.node[n].handle
                       /\ Reset(w.node[n]).ws = w.node[n].ws
                       /\ ~ Reset(w.node[n]).mode
  BY <1>2 DEF Reset, Node0
<1>7. node1 \in [Nodes -> Node0]
  BY <1>2, <1>6
<1>8. /\ \A n \in Nodes : node1[n].handle = w.node[n].handle /\ node1[n].ws = w.node[n].ws
      /\ \A n \in Nodes : node1[n].mode <=> w.node[n].mode /\ n \notin S
  BY <1>2, <1>6
<1> HIDE DEF fds1, reg1, peer1, node1, gone, open, left
<1>9. /\ v.fds = fds1 /\ v.reg = reg1 /\ v.peer = peer1 /\ v.node = node1
      /\ v.ready = w.ready \ gone /\ v.poll = w.poll /\ v \in WorldType
  BY <1>1, <1>2, <1>4, <1>5, <1>7 DEF WorldType
<1> QED BY <1>3, <1>8, <1>9 DEF fds1, reg1

(* Of the sockets in the poll, a descriptor tells which is open on it.        *)
LEMMA OwnerUnique ==
  ASSUME NEW w, Registered(w), NEW n \in w.poll, NEW m \in w.poll,
         w.node[n].mode, w.node[m].mode, w.node[n].handle = w.node[m].handle
  PROVE  n = m
BY DEF Registered, OpenOwns

(* Closing connections of the poll list leaves every descriptor with at most  *)
(* one open owner.                                                            *)
LEMMA ClosesKeep ==
  ASSUME NEW w, Registered(w), NEW S, S \subseteq w.poll
  PROVE  Registered(Closes(w, S))
<1> PICK v : v = Closes(w, S)
  OBVIOUS
<1>1. w \in WorldType /\ w.poll \subseteq Nodes
  BY DEF Registered, WorldType
<1>2. /\ v \in WorldType /\ v.poll = w.poll
      /\ \A h \in Handles : v.fds[h] = (IF h \in Gone(w, S) THEN None ELSE w.fds[h])
      /\ \A h \in Handles : v.reg[h] = (IF h \in Gone(w, S) THEN None ELSE w.reg[h])
      /\ v.ready = w.ready \ Gone(w, S)
      /\ \A n \in Nodes : v.node[n].handle = w.node[n].handle
      /\ \A n \in Nodes : v.node[n].mode <=> w.node[n].mode /\ n \notin S
  BY <1>1, ClosesFacts
<1>3. ASSUME NEW n \in w.poll, w.node[n].mode, n \notin S
      PROVE  w.node[n].handle \notin Gone(w, S)
  BY <1>3, OwnerUnique DEF Gone
<1>4. \A n \in S : w.node[n].mode => w.node[n].handle \in Gone(w, S)
  BY DEF Gone
<1>5. OpenOwns(v)
  BY <1>1, <1>2, <1>3 DEF Registered, OpenOwns
<1>6. ClosedFree(v)
  BY <1>1, <1>2, <1>4 DEF Registered, ClosedFree, OpenOwns
<1>7. UsedOwned(v)
  <2> SUFFICES ASSUME NEW h \in Handles, v.fds[h] # None
               PROVE  \E n \in v.poll : v.node[n].mode /\ v.node[n].handle = h
    BY DEF UsedOwned
  <2>1. h \notin Gone(w, S) /\ w.fds[h] # None
    BY <1>2
  <2>2. PICK n \in w.poll : w.node[n].mode /\ w.node[n].handle = h
    BY <2>1 DEF Registered, UsedOwned
  <2> QED BY <1>1, <1>2, <1>4, <2>1, <2>2
<1>8. ReadyUsed(v)
  <2>1. w.ready \subseteq Handles \cup {0}
    BY <1>1 DEF WorldType
  <2> QED BY <1>2, <2>1 DEF Registered, ReadyUsed
<1> QED BY <1>2, <1>5, <1>6, <1>7, <1>8 DEF Registered

(* What leaves descriptors, registrations and open sockets as they are.       *)
SameOwners(w, v) ==
  /\ v \in WorldType /\ v.fds = w.fds /\ v.reg = w.reg /\ v.poll = w.poll
  /\ \A h \in v.ready \ w.ready : h = 0 \/ v.fds[h] # None
  /\ \A n \in w.poll : /\ v.node[n].handle = w.node[n].handle
                       /\ v.node[n].mode <=> w.node[n].mode
                       /\ w.node[n].ws => v.node[n].ws

(* Changes that leave list, descriptors and modes alone keep the descriptors' *)
(* owners.                                                                    *)
LEMMA OwnersKeep ==
  ASSUME NEW w, NEW v, Registered(w), SameOwners(w, v)
  PROVE  Registered(v)
BY DEF Registered, SameOwners, OpenOwns, ClosedFree, UsedOwned, ReadyUsed

(* A client's record stays one.                                               *)
LEMMA ClientTyped ==
  ASSUME NEW x \in Client0, NEW b \in BOOLEAN
  PROVE  /\ [x EXCEPT !.unread = b] \in Client0 /\ [x EXCEPT !.asked = b] \in Client0
         /\ [x EXCEPT !.more = b] \in Client0 /\ [x EXCEPT !.eof = b] \in Client0
         /\ [x EXCEPT !.here = b] \in Client0
BY DEF Client0

(* A handler reads what a client sent, and answers it.                        *)
LEMMA ReadsKeep ==
  ASSUME NEW w, Registered(w), NEW n \in w.poll, w.node[n].mode
  PROVE  SameOwners(w, Reads(w, n)) /\ Registered(Reads(w, n)) /\ Reads(w, n).node = w.node
<1> PICK p : p = w.fds[w.node[n].handle]
  OBVIOUS
<1>1. w \in WorldType /\ p \in Peers
  BY DEF Registered, OpenOwns
<1> PICK c : c = [w.peer[p] EXCEPT !.unread = FALSE]
  OBVIOUS
<1>2. c \in Client0
  <2>1. w.peer[p] \in Client0
    BY <1>1 DEF WorldType
  <2> QED BY <2>1, ClientTyped
<1>3. Reads(w, n) = [w EXCEPT !.peer = [w.peer EXCEPT ![p] = c]]
  BY <1>1 DEF Reads, WorldType
<1>4. [w.peer EXCEPT ![p] = c] \in [Peers -> Client0]
  BY <1>1, <1>2 DEF WorldType
<1>5. SameOwners(w, Reads(w, n)) /\ Reads(w, n).node = w.node
  BY <1>1, <1>3, <1>4 DEF WorldType, SameOwners
<1> QED BY <1>5, OwnersKeep

(* Answering a request writes flags and the peer's side only. *)
LEMMA AnswerKeeps ==
  ASSUME NEW w, Registered(w), NEW n \in w.poll, w.node[n].mode
  PROVE  SameOwners(w, Answer(w, n)) /\ Registered(Answer(w, n)) /\ Answer(w, n).node = w.node
<1> PICK p : p = w.fds[w.node[n].handle]
  OBVIOUS
<1>1. w \in WorldType /\ p \in Peers
  BY DEF Registered, OpenOwns
<1> PICK c : c = [w.peer[p] EXCEPT !.asked = FALSE]
  OBVIOUS
<1>2. c \in Client0
  <2>1. w.peer[p] \in Client0
    BY <1>1 DEF WorldType
  <2> QED BY <2>1, ClientTyped
<1>3. Answer(w, n) = [w EXCEPT !.peer = [w.peer EXCEPT ![p] = c]]
  BY <1>1 DEF Answer, WorldType
<1>4. [w.peer EXCEPT ![p] = c] \in [Peers -> Client0]
  BY <1>1, <1>2 DEF WorldType
<1>5. SameOwners(w, Answer(w, n)) /\ Answer(w, n).node = w.node
  BY <1>1, <1>3, <1>4 DEF WorldType, SameOwners
<1> QED BY <1>5, OwnersKeep

(* A set of numbers has a least one.                                          *)
LEMMA LeastNode ==
  ASSUME NEW T, T \subseteq Nat, T # {}
  PROVE  \E x \in T : \A y \in T : x <= y
<1> DEFINE R == OpToRel(<, Nat)
<1>1. PICK x \in T : \A y \in T : ~ (<<y, x>> \in R)
  BY NatLessThanWellFounded, WFMin
<1>2. \A y \in T : y < x => <<y, x>> \in R
  BY DEF OpToRel
<1> HIDE DEF R
<1>3. ASSUME NEW y \in T PROVE x <= y
  <2>1. ~ (y < x) /\ y \in Nat /\ x \in Nat
    BY <1>1, <1>2
  <2> QED BY <2>1
<1> QED BY <1>3

(* What jwl_socket_poll_remove_closed does, field by field.                   *)
ClosedOn(w, h) == \E n \in w.poll : ~ w.node[n].mode /\ w.node[n].handle = h
Removed(w, v) ==
  /\ v \in WorldType /\ v.fds = w.fds /\ v.peer = w.peer
  /\ v.poll = {n \in w.poll : w.node[n].mode}
  /\ \A h \in Handles : v.reg[h] = (IF ClosedOn(w, h) THEN None ELSE w.reg[h])
  /\ \A h \in v.ready : h \in w.ready
  /\ \A n \in v.poll : v.node[n] = w.node[n]

(* The removing walk of get: what is left of the list is what it kept, in     *)
(* both lists.                                                                *)
LEMMA RemoveClosedFacts ==
  ASSUME NEW w, w \in WorldType
  PROVE  Removed(w, RemoveClosed(w))
<1> PICK v : v = RemoveClosed(w)
  OBVIOUS
<1> DEFINE closed == {n \in w.poll : ~ w.node[n].mode}
           gone == {w.node[n].handle : n \in closed}
           reg1 == [h \in Handles |-> IF h \in gone THEN None ELSE w.reg[h]]
           node1 == [n \in Nodes |-> IF n \in closed THEN Unused ELSE w.node[n]]
<1>1. v = [w EXCEPT !.poll = w.poll \ closed, !.node = node1, !.reg = reg1,
                    !.ready = w.ready \ gone]
  BY DEF RemoveClosed, Deregister, WorldType
<1>2. /\ w.reg \in [Handles -> Nodes \cup {None}] /\ w.node \in [Nodes -> Node0]
      /\ w.ready \subseteq Handles \cup {0} /\ w.poll \subseteq Nodes
  BY DEF WorldType
<1>3. Unused \in Node0
  BY ServerAssumption DEF Unused, Node0
<1>4. /\ reg1 \in [Handles -> Nodes \cup {None}] /\ node1 \in [Nodes -> Node0]
      /\ w.ready \ gone \subseteq Handles \cup {0} /\ w.poll \ closed \subseteq Nodes
  BY <1>2, <1>3
<1>5. \A h : h \in gone <=> ClosedOn(w, h)
  BY DEF ClosedOn
<1>6. \A n \in w.poll \ closed : node1[n] = w.node[n] /\ w.node[n].mode
  BY <1>2
<1>7. w.poll \ closed = {n \in w.poll : w.node[n].mode}
  OBVIOUS
<1>8. \A h \in Handles : reg1[h] = (IF h \in gone THEN None ELSE w.reg[h])
  OBVIOUS
<1> HIDE DEF reg1, node1, gone, closed
<1>9. /\ v.reg = reg1 /\ v.node = node1 /\ v.ready = w.ready \ gone /\ v.poll = w.poll \ closed
      /\ v.fds = w.fds /\ v.peer = w.peer /\ v \in WorldType
  BY <1>1, <1>4 DEF WorldType
<1> QED BY <1>5, <1>6, <1>7, <1>8, <1>9 DEF Removed

(* Memory for a node there is: the open sockets have descriptors of their     *)
(* own, and one more is free.                                                 *)
LEMMA NodeFree ==
  ASSUME NEW v \in WorldType, OpenOwns(v), \A n \in v.poll : v.node[n].mode,
         NEW h \in Handles, \A n \in v.poll : v.node[n].handle # h
  PROVE  FreeNode(v) \in Nodes /\ FreeNode(v) \notin v.poll
<1> DEFINE f == [n \in v.poll |-> v.node[n].handle]
<1>1. f \in Injection(v.poll, Handles \ {h})
  BY DEF OpenOwns, Injection, IsInjective
<1>2. IsFiniteSet(Handles) /\ Cardinality(Handles) = MaxHandle /\ MaxHandle \in Nat
  BY FS_Interval, ServerAssumption DEF Handles
<1>3. IsFiniteSet(Handles \ {h}) /\ Cardinality(Handles \ {h}) = MaxHandle - 1
  BY <1>2, FS_RemoveElement
<1>4. Cardinality(v.poll) <= MaxHandle - 1 /\ IsFiniteSet(v.poll)
  BY <1>1, <1>3, FS_Injection
<1>5. v.poll \subseteq Nodes
  BY DEF WorldType
<1>6. Nodes # v.poll
  BY <1>2, <1>4, ServerAssumption, FS_CardinalityType
<1>7. PICK m \in Nodes \ v.poll : \A k \in Nodes \ v.poll : m <= k
  <2>1. Nodes \ v.poll # {} /\ Nodes \ v.poll \subseteq Nat
    BY <1>5, <1>6, ServerAssumption
  <2> QED BY <2>1, LeastNode
<1> QED BY <1>7 DEF FreeNode, Lowest

(* jwl_socket_poll_add of descriptor h under node n, field by field.          *)
Added(w, n, h, v) ==
  /\ v \in WorldType /\ v.fds = w.fds /\ v.poll = w.poll \cup {n}
  /\ v.reg = [w.reg EXCEPT ![h] = n]
  /\ v.ready \subseteq w.ready \cup {h}
  /\ v.node[n].handle = h /\ v.node[n].mode
  /\ \A m \in Nodes : m # n => v.node[m] = w.node[m]

(* jwl_poll_add: one new node, and nothing else moves. *)
LEMMA AddFacts ==
  ASSUME NEW w, w \in WorldType, NEW n \in Nodes, NEW h \in Handles
  PROVE  Added(w, n, h, Add(w, n, h))
<1> PICK v : v = Add(w, n, h)
  OBVIOUS
<1> DEFINE new == [handle |-> h, mode |-> TRUE, ws |-> FALSE, said |-> FALSE]
           node1 == [w.node EXCEPT ![n] = new]
           reg1 == [w.reg EXCEPT ![h] = n]
           ready1 == IF w.peer[w.fds[h]].unread \/ w.peer[w.fds[h]].eof
                     THEN w.ready \cup {h} ELSE w.ready
<1>1. v = [w EXCEPT !.poll = w.poll \cup {n}, !.node = node1, !.reg = reg1, !.ready = ready1]
  BY DEF Add, WorldType
<1>2. /\ w.reg \in [Handles -> Nodes \cup {None}] /\ w.node \in [Nodes -> Node0]
      /\ w.ready \subseteq Handles \cup {0} /\ w.poll \subseteq Nodes
  BY DEF WorldType
<1>3. new \in Node0 /\ new.handle = h /\ new.mode
  <2>1. h \in 0 .. MaxHandle
    BY ServerAssumption DEF Handles
  <2> QED BY <2>1 DEF Node0
<1> HIDE DEF new
<1>4. /\ reg1 \in [Handles -> Nodes \cup {None}] /\ node1 \in [Nodes -> Node0]
      /\ ready1 \subseteq w.ready \cup {h} /\ ready1 \subseteq Handles \cup {0}
      /\ w.poll \cup {n} \subseteq Nodes
  BY <1>2, <1>3
<1>5. node1[n] = new /\ \A m \in Nodes : m # n => node1[m] = w.node[m]
  BY <1>2
<1> HIDE DEF reg1, node1, ready1
<1>6. /\ v.reg = reg1 /\ v.node = node1 /\ v.ready = ready1 /\ v.poll = w.poll \cup {n}
      /\ v.fds = w.fds /\ v \in WorldType
  BY <1>1, <1>4 DEF WorldType
<1> QED BY <1>3, <1>4, <1>5, <1>6 DEF reg1, Added

(* The accept of a client p on a free descriptor h: the closed sockets go     *)
(* first, so that h is nobody else's when it is registered.                   *)
LEMMA AcceptKeeps ==
  ASSUME NEW w, Registered(w), NEW h \in Handles, w.fds[h] = None, NEW p \in Peers,
         NEW v, v = RemoveThenAdd([w EXCEPT !.fds[h] = p], h)
  PROVE  /\ Registered(v)
         /\ \A n \in w.poll : w.node[n].mode => n \in v.poll /\ v.node[n] = w.node[n]
<1>1. w \in WorldType /\ OpenOwns(w) /\ ClosedFree(w) /\ UsedOwned(w) /\ ReadyUsed(w)
  BY DEF Registered
<1>2. w.poll \subseteq Nodes /\ w.fds \in [Handles -> Peers \cup {None}]
      /\ w.reg \in [Handles -> Nodes \cup {None}] /\ w.ready \subseteq Handles \cup {0}
  BY <1>1 DEF WorldType
<1> PICK x : x = [w EXCEPT !.fds[h] = p]
  OBVIOUS
<1>3. /\ x \in WorldType /\ x.fds = [w.fds EXCEPT ![h] = p] /\ x.reg = w.reg
      /\ x.ready = w.ready /\ x.poll = w.poll /\ x.node = w.node
  BY <1>1 DEF WorldType
<1> PICK y : y = RemoveClosed(x)
  OBVIOUS
<1>4. /\ y \in WorldType /\ y.fds = x.fds
      /\ y.poll = {n \in w.poll : w.node[n].mode}
      /\ \A g \in Handles : y.reg[g] = (IF ClosedOn(w, g) THEN None ELSE w.reg[g])
      /\ \A g \in y.ready : g \in w.ready
      /\ \A n \in y.poll : y.node[n] = w.node[n]
  <2>1. Removed(x, y)
    BY <1>3, RemoveClosedFacts
  <2> QED BY <1>3, <2>1 DEF Removed, ClosedOn
<1>5. None \notin Peers
  BY ServerAssumption
<1>6. \A n \in y.poll : /\ n \in w.poll /\ w.node[n].mode /\ w.node[n].handle \in Handles
                        /\ w.fds[w.node[n].handle] \in Peers /\ w.node[n].handle # h
                        /\ w.reg[w.node[n].handle] = n
  BY <1>1, <1>4, <1>5 DEF OpenOwns
<1>7. \A n \in y.poll : y.reg[w.node[n].handle] = n
  BY <1>1, <1>4, <1>5, <1>6 DEF ClosedFree, ClosedOn
<1>8. OpenOwns(y) /\ \A n \in y.poll : y.node[n].mode /\ y.node[n].handle # h
  BY <1>2, <1>3, <1>4, <1>6, <1>7 DEF OpenOwns
<1> PICK n : n = FreeNode(y)
  OBVIOUS
<1>9. n \in Nodes /\ n \notin y.poll
  BY <1>4, <1>8, NodeFree
<1>10. v = Add(y, n, h)
  BY DEF RemoveThenAdd
<1>11. /\ v \in WorldType /\ v.fds = y.fds /\ v.poll = y.poll \cup {n}
       /\ v.reg = [y.reg EXCEPT ![h] = n]
       /\ v.ready \subseteq y.ready \cup {h}
       /\ v.node[n].handle = h /\ v.node[n].mode
       /\ \A m \in Nodes : m # n => v.node[m] = y.node[m]
  <2>1. Added(y, n, h, v)
    BY <1>4, <1>9, <1>10, AddFacts
  <2> QED BY <2>1 DEF Added
<1>12. /\ v.reg[h] = n /\ \A g \in Handles : g # h => v.reg[g] = y.reg[g]
       /\ v.fds[h] = p /\ \A g \in Handles : g # h => v.fds[g] = w.fds[g]
  <2>1. y.reg \in [Handles -> Nodes \cup {None}]
    BY <1>4 DEF WorldType
  <2> QED BY <1>2, <1>3, <1>4, <1>11, <2>1
<1>13. \A m \in y.poll : m \in Nodes /\ m # n /\ v.node[m] = w.node[m]
  BY <1>2, <1>4, <1>9, <1>11
<1>14. OpenOwns(v) /\ ClosedFree(v)
  BY <1>6, <1>7, <1>11, <1>12, <1>13 DEF OpenOwns, ClosedFree
<1>15. UsedOwned(v)
  <2> SUFFICES ASSUME NEW g \in Handles, v.fds[g] # None
               PROVE  \E m \in v.poll : v.node[m].mode /\ v.node[m].handle = g
    BY DEF UsedOwned
  <2>1. CASE g = h
    BY <1>11, <2>1
  <2>2. CASE g # h
    <3>1. PICK m \in w.poll : w.node[m].mode /\ w.node[m].handle = g
      BY <1>1, <1>12, <2>2 DEF UsedOwned
    <3>2. m \in y.poll
      BY <1>4, <3>1
    <3> QED BY <1>11, <1>13, <3>1, <3>2
  <2> QED BY <2>1, <2>2
<1>16. ReadyUsed(v)
  <2> SUFFICES ASSUME NEW g \in v.ready \ {0} PROVE v.fds[g] # None
    BY DEF ReadyUsed
  <2>1. CASE g = h
    BY <1>5, <1>12, <2>1
  <2>2. CASE g # h
    <3>1. g \in w.ready \ {0} /\ g \in Handles
      BY <1>2, <1>4, <1>11, <2>2
    <3> QED BY <1>1, <1>12, <2>2, <3>1 DEF ReadyUsed
  <2> QED BY <2>1, <2>2
<1> QED BY <1>4, <1>11, <1>13, <1>14, <1>15, <1>16 DEF Registered
-----------------------------------------------------------------------------
(* The events still to be taken, while a handler runs.                        *)

(* What changes neither descriptors nor open sockets leaves them in order.    *)
LEMMA SameKeeps ==
  ASSUME NEW w, NEW b, NEW a, NEW q, NEW s, Ordered(w, b, a, q, s), NEW v, SameOwners(w, v)
  PROVE  Ordered(v, b, a, q, s)
<1>1. Registered(v) /\ v.poll = w.poll
  BY OwnersKeep DEF Ordered, SameOwners
<1>2. QueueLive(v, b, a, s)
  BY <1>1 DEF Ordered, QueueLive
<1>3. QueueOpen(v, b, s)
  BY DEF Ordered, QueueOpen, SameOwners
<1> QED BY <1>1, <1>2, <1>3 DEF Ordered

(* The handler is done with its node.                                         *)
LEMMA DoneKeeps ==
  ASSUME NEW w, NEW b, NEW a, NEW q, NEW s, Ordered(w, b, a, q, s), a \notin s
  PROVE  Ordered(w, b, None, q, s)
<1>1. b \in Seq(Nodes \cup {HostNode})
  BY DEF Ordered, QueueTyped
<1>2. \A i \in DOMAIN b : b[i] # None
  BY <1>1, ServerAssumption
<1>3. StaleDue(b, None, s)
  BY DEF Ordered, StaleDue
<1> QED BY <1>2, <1>3 DEF Ordered, QueueTyped, QueueLive

(* A socket may be closed whose event is not in the batch, or a websocket.    *)
MayClose(w, b, n) == w.node[n].ws \/ \A i \in DOMAIN b : b[i] # n

(* Closing such sockets leaves no other one with an event closed.             *)
LEMMA ClosingKeeps ==
  ASSUME NEW w, NEW b, NEW a, NEW q, NEW s, Ordered(w, b, a, q, s),
         NEW S, S \subseteq w.poll, \A n \in S : MayClose(w, b, n)
  PROVE  Ordered(Closes(w, S), b, a, q, s) /\ Closes(w, S).poll = w.poll
<1> PICK v : v = Closes(w, S)
  OBVIOUS
<1>1. Registered(v) /\ w \in WorldType /\ w.poll \subseteq Nodes
  BY ClosesKeep DEF Ordered, Registered, WorldType
<1>2. /\ v.poll = w.poll
      /\ \A n \in Nodes : v.node[n].mode <=> w.node[n].mode /\ n \notin S
      /\ \A n \in Nodes : v.node[n].ws = w.node[n].ws
  BY <1>1, ClosesFacts
<1>3. QueueLive(v, b, a, s)
  BY <1>2 DEF Ordered, QueueLive
<1>4. QueueOpen(v, b, s)
  <2> SUFFICES ASSUME NEW i \in DOMAIN b, b[i] \in w.poll \ s
               PROVE  v.node[b[i]].mode \/ v.node[b[i]].ws
    BY <1>2 DEF QueueOpen
  <2>1. w.node[b[i]].mode \/ w.node[b[i]].ws
    BY DEF Ordered, QueueOpen
  <2>2. b[i] \in Nodes /\ (b[i] \in S => w.node[b[i]].ws)
    BY <1>1 DEF MayClose
  <2> QED BY <1>2, <2>1, <2>2
<1> QED BY <1>1, <1>2, <1>3, <1>4 DEF Ordered

(* The node being served has no further event in the batch.                   *)
LEMMA ServedOnce ==
  ASSUME NEW w, NEW b, NEW a, NEW q, NEW s, Ordered(w, b, a, q, s), a # None, a \notin s
  PROVE  a \in w.poll /\ a \in Nodes /\ MayClose(w, b, a)
BY DEF Ordered, QueueLive, MayClose, QueueTyped

(* What the handler does to its node: a websocket it is from now on, or the   *)
(* head of a message it has.                                                  *)
LEMMA FlagsKeep ==
  ASSUME NEW w, Registered(w), NEW n \in w.poll, NEW x \in BOOLEAN, NEW y \in BOOLEAN,
         w.node[n].ws => x
  PROVE  SameOwners(w, [w EXCEPT !.node = [w.node EXCEPT ![n] =
           [handle |-> w.node[n].handle, mode |-> w.node[n].mode, ws |-> x, said |-> y]]])
<1> DEFINE new == [handle |-> w.node[n].handle, mode |-> w.node[n].mode, ws |-> x, said |-> y]
<1>1. w \in WorldType /\ n \in Nodes /\ w.node \in [Nodes -> Node0] /\ w.poll \subseteq Nodes
  BY DEF Registered, WorldType
<1>2. new \in Node0
  BY <1>1 DEF Node0
<1>3. new.handle = w.node[n].handle /\ (new.mode <=> w.node[n].mode) /\ (w.node[n].ws => new.ws)
  OBVIOUS
<1> HIDE DEF new
<1> PICK node1 : node1 = [w.node EXCEPT ![n] = new]
  OBVIOUS
<1>4. node1 \in [Nodes -> Node0] /\ node1[n] = new /\ \A m \in Nodes : m # n => node1[m] = w.node[m]
  BY <1>1, <1>2
<1>5. \A m \in w.poll : /\ node1[m].handle = w.node[m].handle
                        /\ node1[m].mode <=> w.node[m].mode
                        /\ w.node[m].ws => node1[m].ws
  BY <1>1, <1>3, <1>4
<1> PICK v : v = [w EXCEPT !.node = node1]
  OBVIOUS
<1>6. v \in WorldType /\ v.fds = w.fds /\ v.reg = w.reg /\ v.poll = w.poll /\ v.ready = w.ready
      /\ v.node = node1
  BY <1>1, <1>4 DEF WorldType
<1>7. SameOwners(w, v)
  BY <1>5, <1>6 DEF SameOwners
<1> QED BY <1>7 DEF new

(* A node's record with one flag set.                                         *)
LEMMA NodeRecord ==
  ASSUME NEW r \in Node0, NEW b
  PROVE  /\ [r EXCEPT !.said = b] = [handle |-> r.handle, mode |-> r.mode, ws |-> r.ws, said |-> b]
         /\ [r EXCEPT !.ws = b] = [handle |-> r.handle, mode |-> r.mode, ws |-> b, said |-> r.said]
         /\ r.ws \in BOOLEAN /\ r.said \in BOOLEAN
BY DEF Node0

(* Marking a connection as having a message to send on moves no descriptor. *)
LEMMA SaidKeeps ==
  ASSUME NEW w, Registered(w), NEW n \in w.poll, NEW b \in BOOLEAN
  PROVE  SameOwners(w, [w EXCEPT !.node[n].said = b])
<1> PICK r : r = w.node[n]
  OBVIOUS
<1>1. w \in WorldType /\ n \in Nodes /\ r \in Node0
  BY DEF Registered, WorldType
<1>2. [r EXCEPT !.said = b] = [handle |-> r.handle, mode |-> r.mode, ws |-> r.ws, said |-> b]
      /\ r.ws \in BOOLEAN
  BY <1>1, NodeRecord
<1> PICK c : c = [r EXCEPT !.said = b]
  OBVIOUS
<1>3. [w EXCEPT !.node[n].said = b] = [w EXCEPT !.node = [w.node EXCEPT ![n] = c]]
  BY <1>1 DEF WorldType
<1> QED BY <1>2, <1>3, FlagsKeep

(* Marking a connection as upgraded moves no descriptor. *)
LEMMA WsKeeps ==
  ASSUME NEW w, Registered(w), NEW n \in w.poll, NEW b \in BOOLEAN, w.node[n].ws => b
  PROVE  SameOwners(w, [w EXCEPT !.node[n].ws = b])
<1> PICK r : r = w.node[n]
  OBVIOUS
<1>1. w \in WorldType /\ n \in Nodes /\ r \in Node0
  BY DEF Registered, WorldType
<1>2. [r EXCEPT !.ws = b] = [handle |-> r.handle, mode |-> r.mode, ws |-> b, said |-> r.said]
      /\ r.said \in BOOLEAN
  BY <1>1, NodeRecord
<1> PICK c : c = [r EXCEPT !.ws = b]
  OBVIOUS
<1>3. [w EXCEPT !.node[n].ws = b] = [w EXCEPT !.node = [w.node EXCEPT ![n] = c]]
  BY <1>1 DEF WorldType
<1> QED BY <1>2, <1>3, FlagsKeep
-----------------------------------------------------------------------------
(* The steps.                                                                 *)

(* What a handler makes of the sockets is what is there next.                 *)
LEMMA BecomesNext ==
  ASSUME NEW w \in WorldType, Becomes(w)
  PROVE  World' = w
BY DEF Becomes, World, WorldType

(* Sends to any of the connections write the peers' side only. *)
LEMMA SendsKeep ==
  ASSUME NEW w, Ordered(w, batch, at, backlog, stale), SendsAll(w)
  PROVE  Ordered(World', batch, at, backlog, stale)
<1>1. PICK bad \in SUBSET Sockets(w) :
        Becomes(Closes(IF at \in Sockets(w) \ bad THEN Answer(w, at) ELSE w, bad))
  BY DEF SendsAll
<1> PICK x : x = IF at \in Sockets(w) \ bad THEN Answer(w, at) ELSE w
  OBVIOUS
<1>2. Ordered(x, batch, at, backlog, stale) /\ x.poll = w.poll /\ x.node = w.node
  <2>1. CASE at \in Sockets(w) \ bad
    <3>1. at \in w.poll /\ w.node[at].mode /\ Registered(w)
      BY <2>1 DEF Sockets, Ordered
    <3>2. SameOwners(w, x) /\ x.node = w.node
      BY <2>1, <3>1, AnswerKeeps
    <3> QED BY <3>2, SameKeeps DEF SameOwners
  <2> QED BY <2>1
<1>3. bad \subseteq x.poll /\ \A n \in bad : MayClose(x, batch, n)
  BY <1>2 DEF Sockets, MayClose
<1> PICK v : v = Closes(x, bad)
  OBVIOUS
<1>4. Ordered(v, batch, at, backlog, stale)
  BY <1>2, <1>3, ClosingKeeps
<1>5. v \in WorldType /\ Becomes(v)
  BY <1>1, <1>4 DEF Ordered, Registered
<1>6. World' = v
  BY <1>5, BecomesNext
<1> QED BY <1>4, <1>6

(* The end of a handler: it sends its last message on once more, or returns.  *)
LEMMA EndsKeep ==
  ASSUME NEW w, Ordered(w, batch, at, backlog, stale), Ends(w)
  PROVE  Ordered(World', batch, at, backlog, stale)
<1>1. CASE SendsAll(w)
  BY <1>1, SendsKeep
<1>2. CASE Becomes(w)
  <2>1. w \in WorldType
    BY DEF Ordered, Registered
  <2>2. World' = w
    BY <1>2, <2>1, BecomesNext
  <2> QED BY <2>2
<1> QED BY <1>1, <1>2 DEF Ends

(* A handler that is done leaves the event at hand behind. *)
LEMMA DoneNext ==
  ASSUME Ordered(World', batch, at, backlog, stale), Taking, Done
  PROVE  ServerInv'
<1> PICK v : v = World'
  OBVIOUS
<1>1. Ordered(v, batch, None, backlog, stale)
  BY DoneKeeps DEF Taking
<1> QED BY <1>1 DEF Done, ServerInv

(* Serving a node: what the handlers start from.                              *)
LEMMA ServedFacts ==
  ASSUME ServerInv, Serving
  PROVE  /\ Ordered(World, batch, at, backlog, stale) /\ Registered(World)
         /\ at \in World.poll /\ World.node[at].mode /\ MayClose(World, batch, at)
<1>1. at # None /\ node[at].mode /\ at \notin stale
  BY DEF Serving, Taking
<1>2. Ordered(World, batch, at, backlog, stale)
  BY DEF ServerInv
<1>3. at \in World.poll /\ MayClose(World, batch, at)
  BY <1>1, <1>2, ServedOnce
<1> QED BY <1>1, <1>2, <1>3 DEF Ordered, World

(* Having read the request.                                                   *)
LEMMA ReadFacts ==
  ASSUME ServerInv, Serving, NEW w, w = Reads(World, at)
  PROVE  /\ Ordered(w, batch, at, backlog, stale) /\ Registered(w)
         /\ at \in w.poll /\ w.node = node /\ w.node[at].mode
<1>1. /\ Ordered(World, batch, at, backlog, stale) /\ Registered(World)
      /\ at \in World.poll /\ World.node[at].mode
  BY ServedFacts
<1> PICK x, n : x = World /\ n = at
  OBVIOUS
<1>2. SameOwners(x, Reads(x, n)) /\ Registered(Reads(x, n)) /\ Reads(x, n).node = x.node
  BY <1>1, ReadsKeep
<1>3. SameOwners(x, w) /\ Registered(w) /\ w.node = x.node
  BY <1>2
<1>4. Ordered(w, batch, at, backlog, stale)
  BY <1>1, <1>3, SameKeeps
<1>5. w.poll = x.poll
  BY <1>3 DEF SameOwners
<1> QED BY <1>1, <1>3, <1>4, <1>5 DEF World

(* A handler that ends with its node answered or closed.                      *)
LEMMA AnswerNext ==
  ASSUME NEW w, Ordered(w, batch, at, backlog, stale), at \in w.poll, w.node[at].mode,
         Becomes(Answer(w, at)), Taking, Done
  PROVE  ServerInv'
<1> PICK n : n = at
  OBVIOUS
<1> PICK v : v = Answer(w, n)
  OBVIOUS
<1>1. SameOwners(w, v)
  <2>1. Registered(w)
    BY DEF Ordered
  <2> QED BY <2>1, AnswerKeeps
<1>2. Ordered(v, batch, at, backlog, stale) /\ v \in WorldType
  BY <1>1, SameKeeps DEF SameOwners
<1>3. World' = v
  BY <1>2, BecomesNext
<1> QED BY <1>2, <1>3, DoneNext

(* jwl_socket_close of the connection at hand, in or out of the list. *)
LEMMA CloseKeeps ==
  ASSUME NEW w, Ordered(w, batch, at, backlog, stale), Taking
  PROVE  Ordered(Close(w, at), batch, at, backlog, stale) /\ Close(w, at) \in WorldType
<1>1. at \in w.poll /\ MayClose(w, batch, at)
  BY ServedOnce DEF Taking
<1> PICK S : S = {at}
  OBVIOUS
<1>2. S \subseteq w.poll /\ \A n \in S : MayClose(w, batch, n)
  BY <1>1
<1>3. Ordered(Closes(w, S), batch, at, backlog, stale)
  BY <1>2, ClosingKeeps
<1> QED BY <1>3 DEF Close, Ordered, Registered

(* A handler that closes the connection at hand. *)
LEMMA CloseNext ==
  ASSUME NEW w, Ordered(w, batch, at, backlog, stale), Taking, Becomes(Close(w, at)), Done
  PROVE  ServerInv'
<1> PICK v : v = Close(w, at)
  OBVIOUS
<1>1. Ordered(v, batch, at, backlog, stale) /\ v \in WorldType
  BY CloseKeeps
<1>2. World' = v
  BY <1>1, BecomesNext
<1> QED BY <1>1, <1>2, DoneNext

(* A request whose rest has not come yet. *)
LEMMA ReceivePartStep ==
  ASSUME ServerInv, ReceivePart
  PROVE  ServerInv'
<1> PICK w : w = Reads(World, at)
  OBVIOUS
<1>1. /\ Ordered(w, batch, at, backlog, stale) /\ Registered(w) /\ at \in w.poll /\ w.node = node
  BY ReadFacts DEF ReceivePart
<1>2. PICK head \in {FALSE, node[at].ws} :
        Becomes([w EXCEPT !.node[at].said = w.node[at].said \/ head])
  BY DEF ReceivePart
<1> PICK n, b : n = at /\ b = (w.node[n].said \/ head)
  OBVIOUS
<1> PICK v : v = [w EXCEPT !.node[n].said = b]
  OBVIOUS
<1>3. SameOwners(w, v)
  BY <1>1, SaidKeeps
<1>4. Ordered(v, batch, at, backlog, stale) /\ v \in WorldType
  <2>1. Ordered(v, batch, at, backlog, stale)
    BY <1>1, <1>3, SameKeeps
  <2> QED BY <2>1 DEF Ordered, Registered
<1>5. World' = v
  BY <1>2, <1>4, BecomesNext
<1> QED BY <1>4, <1>5 DEF ReceivePart, ServerInv

(* A receive that fails closes its connection. *)
LEMMA ReceiveFailsStep ==
  ASSUME ServerInv, ReceiveFails
  PROVE  ServerInv'
<1>1. Ordered(World, batch, at, backlog, stale) /\ Taking
  BY DEF ReceiveFails, Serving, ServerInv
<1> PICK x, v : x = World /\ v = Close(x, at)
  OBVIOUS
<1>2. Ordered(v, batch, at, backlog, stale)
  BY <1>1, CloseKeeps
<1>3. Ends(v) /\ Taking /\ Done
  BY DEF ReceiveFails, Serving
<1>4. Ordered(World', batch, at, backlog, stale)
  BY <1>2, <1>3, EndsKeep
<1> QED BY <1>3, <1>4, DoneNext

(* An event of a connection closed meanwhile is passed over. *)
LEMMA SkipStep ==
  ASSUME ServerInv, Skip
  PROVE  ServerInv'
<1> PICK x : x = World
  OBVIOUS
<1>1. Ordered(x, batch, at, backlog, stale) /\ Ends(x) /\ Taking /\ Done
  BY DEF Skip, ServerInv
<1>2. Ordered(World', batch, at, backlog, stale)
  BY <1>1, EndsKeep
<1> QED BY <1>1, <1>2, DoneNext

(* The answers to a whole request, and a close frame. *)
LEMMA RequestStep ==
  ASSUME ServerInv, CloseAsked \/ Respond \/ CloseFrame
  PROVE  ServerInv'
<1> PICK w : w = Reads(World, at)
  OBVIOUS
<1>1. Serving /\ Taking
  BY DEF CloseAsked, Respond, CloseFrame, Whole, Serving
<1>2. /\ Ordered(w, batch, at, backlog, stale) /\ Registered(w) /\ at \in w.poll /\ w.node[at].mode
  BY <1>1, ReadFacts
<1>3. Done /\ (Becomes(Answer(w, at)) \/ Becomes(Close(w, at)))
  BY DEF CloseAsked, Respond, CloseFrame
<1> QED BY <1>1, <1>2, <1>3, AnswerNext, CloseNext

(* The upgrade of a connection to a websocket. *)
LEMMA UpgradeStep ==
  ASSUME ServerInv, Upgrade
  PROVE  ServerInv'
<1> PICK w : w = Reads(World, at)
  OBVIOUS
<1>1. Serving /\ Taking
  BY DEF Upgrade, Whole, Serving
<1>2. /\ Ordered(w, batch, at, backlog, stale) /\ Registered(w) /\ at \in w.poll /\ w.node[at].mode
  BY <1>1, ReadFacts
<1> PICK n : n = at
  OBVIOUS
<1> PICK v : v = [w EXCEPT !.node[n].ws = TRUE]
  OBVIOUS
<1>3. SameOwners(w, v)
  BY <1>2, WsKeeps
<1>4. Ordered(v, batch, at, backlog, stale) /\ at \in v.poll /\ v.node[at].mode
  <2>1. Ordered(v, batch, at, backlog, stale)
    BY <1>2, <1>3, SameKeeps
  <2> QED BY <1>2, <1>3, <2>1 DEF SameOwners
<1>5. Done /\ (Becomes(Answer(v, at)) \/ Becomes(Close(v, at)))
  BY DEF Upgrade
<1> QED BY <1>1, <1>4, <1>5, AnswerNext, CloseNext

(* A message sent on to every websocket of the list. *)
LEMMA BroadcastStep ==
  ASSUME ServerInv, Broadcast
  PROVE  ServerInv'
<1> PICK w : w = Reads(World, at)
  OBVIOUS
<1>1. Serving /\ Taking
  BY DEF Broadcast, Whole, Serving
<1>2. /\ Ordered(w, batch, at, backlog, stale) /\ Registered(w) /\ at \in w.poll
  BY <1>1, ReadFacts
<1> PICK n : n = at
  OBVIOUS
<1> PICK v : v = [w EXCEPT !.node[n].said = TRUE]
  OBVIOUS
<1>3. SameOwners(w, v)
  BY <1>2, SaidKeeps
<1>4. Ordered(v, batch, at, backlog, stale)
  BY <1>2, <1>3, SameKeeps
<1>5. SendsAll(v) /\ Done
  BY DEF Broadcast
<1>6. Ordered(World', batch, at, backlog, stale)
  BY <1>4, <1>5, SendsKeep
<1> QED BY <1>1, <1>5, <1>6, DoneNext

(* Taking an event from the end of the batch.                                 *)
LEMMA TakenFacts ==
  ASSUME NEW w, NEW b, NEW q, NEW s, Ordered(w, b, None, q, s), b # <<>>, NEW c, c = Taken(b)
  PROVE  /\ Len(b) \in DOMAIN b /\ Last(b) = b[Len(b)]
         /\ c \in Seq(Nodes \cup {HostNode})
         /\ DOMAIN c = 1 .. Len(b) - 1
         /\ \A i \in DOMAIN c : i \in DOMAIN b /\ i < Len(b) /\ c[i] = b[i]
<1>1. b \in Seq(Nodes \cup {HostNode})
  BY DEF Ordered, QueueTyped
<1>2. Len(b) \in Nat \ {0} /\ DOMAIN b = 1 .. Len(b)
  BY <1>1
<1>3. c = SubSeq(b, 1, Len(b) - 1)
  BY DEF Taken, Front
<1>4. c \in Seq(Nodes \cup {HostNode}) /\ Len(c) = Len(b) - 1
      /\ \A i \in 1 .. Len(c) : c[i] = b[i]
  BY <1>1, <1>2, <1>3
<1>5. DOMAIN c = 1 .. Len(c)
  BY <1>4
<1> QED BY <1>2, <1>4, <1>5 DEF Last

(* The next jwl_poll get: accepted, removed and pending events of a new       *)
(* batch.                                                                     *)
LEMMA GetStep ==
  ASSUME ServerInv, Get
  PROVE  ServerInv'
<1> PICK w, b, q, s, c, a : /\ w = World /\ b = batch /\ q = backlog /\ s = stale
                            /\ c = Taken(batch) /\ a = Last(batch)
  OBVIOUS
<1>1. Ordered(w, b, None, q, s) /\ b # <<>> /\ a # HostNode /\ a = b[Len(b)]
  BY DEF Get, ServerInv, Last
<1>2. /\ Len(b) \in DOMAIN b /\ c \in Seq(Nodes \cup {HostNode})
      /\ \A i \in DOMAIN c : i \in DOMAIN b /\ i < Len(b) /\ c[i] = b[i]
  BY <1>1, TakenFacts
<1>3. QueueTyped(c, a)
  BY <1>1, <1>2 DEF Ordered, QueueTyped
<1>4. QueueLive(w, c, a, s)
  <2>1. a \in w.poll \cup s
    BY <1>1, <1>2 DEF Ordered, QueueLive
  <2>2. \A i \in DOMAIN c : c[i] # a
    <3> SUFFICES ASSUME NEW i \in DOMAIN c PROVE c[i] # a
      OBVIOUS
    <3>1. i \in DOMAIN b /\ i # Len(b) /\ c[i] = b[i]
      <4>1. i \in DOMAIN b /\ i < Len(b) /\ c[i] = b[i]
        BY <1>2
      <4>2. i \in Int /\ Len(b) \in Int
        BY <4>1 DEF Ordered, QueueTyped
      <4> QED BY <4>1, <4>2
    <3> QED BY <1>1, <1>2, <3>1 DEF Ordered, QueueLive
  <2> QED BY <1>1, <1>2, <2>1, <2>2 DEF Ordered, QueueLive
<1>5. QueueOpen(w, c, s)
  BY <1>1, <1>2 DEF Ordered, QueueOpen
<1>6. HostDue(c, q)
  BY <1>1, <1>2 DEF Ordered, HostDue
<1>7. StaleDue(c, a, s)
  <2>1. DOMAIN c = 1 .. Len(b) - 1 /\ DOMAIN b = 1 .. Len(b) /\ Len(b) \in Nat
    BY <1>1, TakenFacts DEF Ordered, QueueTyped
  <2>2. \A i \in DOMAIN b : i \in DOMAIN c \/ i = Len(b)
    BY <2>1
  <2>3. \A n \in s : \E i \in DOMAIN b : b[i] = n
    <3>1. None \notin s
      BY <1>1, ServerAssumption DEF Ordered, StaleDue
    <3> QED BY <1>1, <3>1 DEF Ordered, StaleDue
  <2> QED BY <1>1, <1>2, <2>2, <2>3 DEF Ordered, StaleDue
<1>8. Ordered(w, c, a, q, s)
  BY <1>1, <1>3, <1>4, <1>5, <1>6, <1>7 DEF Ordered
<1>9. World' = w /\ batch' = c /\ at' = a /\ backlog' = q /\ stale' = s
  BY DEF Get, kernel, World
<1> QED BY <1>8, <1>9 DEF ServerInv

(* What the kernel reports of edges are events of nodes in the poll that hold *)
(* open sockets, and of the listening socket when a connection waits.         *)
LEMMA WaitStep ==
  ASSUME ServerInv, Wait
  PROVE  ServerInv'
<1> DEFINE news == {h \in ready : Readable(h)}
           E == {NodeOf(h) : h \in news}
<1> PICK w, q, s, b, v : /\ w = World /\ q = backlog /\ s = stale /\ b = batch'
                         /\ v = [w EXCEPT !.ready = {}]
  OBVIOUS
<1>1. Ordered(w, <<>>, None, q, s) /\ Registered(w) /\ w \in WorldType
  BY DEF Wait, ServerInv, Ordered, Registered
<1>2. b \in SetToSeqs(E)
  BY DEF Wait
<1>3. \A h \in news : /\ h = 0 => NodeOf(h) = HostNode /\ q # <<>>
                      /\ h # 0 => NodeOf(h) \in w.poll /\ w.node[NodeOf(h)].mode
  <2> SUFFICES ASSUME NEW h \in news
               PROVE  /\ h = 0 => NodeOf(h) = HostNode /\ q # <<>>
                      /\ h # 0 => NodeOf(h) \in w.poll /\ w.node[NodeOf(h)].mode
    OBVIOUS
  <2>1. CASE h = 0
    BY <2>1 DEF NodeOf, Readable
  <2>2. CASE h # 0
    <3>1. h \in w.ready /\ h \in Handles
      BY <1>1, <2>2 DEF World, WorldType
    <3>2. w.fds[h] # None
      BY <1>1, <2>2, <3>1 DEF Registered, ReadyUsed
    <3>3. PICK n \in w.poll : w.node[n].mode /\ w.node[n].handle = h
      BY <1>1, <3>1, <3>2 DEF Registered, UsedOwned
    <3>4. w.reg[h] = n
      BY <1>1, <3>3 DEF Registered, OpenOwns
    <3>5. NodeOf(h) = n
      BY <2>2, <3>4 DEF NodeOf, World
    <3> QED BY <2>2, <3>3, <3>5
  <2> QED BY <2>1, <2>2
<1>4. w.poll \subseteq Nodes /\ HostNode \notin w.poll
  BY <1>1, ServerAssumption DEF WorldType
<1>5. \A e \in E : /\ e \in w.poll \cup {HostNode}
                   /\ e = HostNode => q # <<>>
                   /\ e # HostNode => w.node[e].mode
  BY <1>3, <1>4
<1>6. IsFiniteSet(E) /\ E \subseteq Nodes \cup {HostNode}
  <2>1. IsFiniteSet(Nodes \cup {HostNode})
    BY ServerAssumption, FS_AddElement
  <2>2. E \subseteq Nodes \cup {HostNode}
    BY <1>4, <1>5
  <2> QED BY <2>1, <2>2, FS_Subset
<1> HIDE DEF E, news
<1> PICK k : k = Cardinality(E)
  OBVIOUS
<1>7. k \in Nat
  BY <1>6, FS_CardinalityType
<1>8. b \in [1 .. k -> E] /\ \A i, j \in 1 .. k : i # j => b[i] # b[j]
  BY <1>2 DEF SetToSeqs
<1>9. b \in Seq(Nodes \cup {HostNode}) /\ DOMAIN b = 1 .. k
  BY <1>6, <1>7, <1>8
<1>10. /\ v \in WorldType /\ v.fds = w.fds /\ v.reg = w.reg /\ v.poll = w.poll
       /\ v.ready = {} /\ v.node = w.node
  BY <1>1 DEF WorldType
<1>11. Registered(v)
  <2>1. SameOwners(w, v)
    BY <1>10 DEF SameOwners
  <2> QED BY <1>1, <2>1, OwnersKeep
<1>12. QueueTyped(b, None)
  BY <1>9 DEF QueueTyped
<1>13. \A i \in DOMAIN b : b[i] \in E
  BY <1>8, <1>9
<1>14. QueueLive(v, b, None, s)
  <2>1. \A i, j \in DOMAIN b : b[i] = b[j] => i = j
    BY <1>8, <1>9
  <2>2. \A i \in DOMAIN b : b[i] # None
    BY <1>6, <1>13, ServerAssumption
  <2> QED BY <1>5, <1>10, <1>13, <2>1, <2>2 DEF QueueLive
<1>15. QueueOpen(v, b, s) /\ StaleDue(b, None, s)
  <2>1. s = {}
    BY <1>1, ServerAssumption DEF Ordered, StaleDue
  <2> QED BY <1>4, <1>5, <1>10, <1>13, <2>1 DEF QueueOpen, StaleDue
<1>16. HostDue(b, q)
  BY <1>5, <1>13 DEF HostDue
<1>17. Ordered(v, b, None, q, s)
  BY <1>1, <1>11, <1>12, <1>14, <1>15, <1>16 DEF Ordered
<1>18. World' = v /\ at' = None /\ backlog' = q /\ stale' = s
  BY DEF Wait, kernel, World
<1> QED BY <1>17, <1>18 DEF ServerInv

(* A connection is accepted: of the events left in the batch, those of closed *)
(* sockets are stale from now on, and the removal leaves the open ones.       *)
LEMMA AcceptStep ==
  ASSUME ServerInv, Accept
  PROVE  ServerInv'
<1> PICK w, b, q, s, c, h, p : /\ w = World /\ b = batch /\ q = backlog /\ s = stale
                               /\ c = Taken(batch) /\ h = Lowest(Free) /\ p = Head(backlog)
  OBVIOUS
<1>1. Ordered(w, b, None, q, s) /\ b # <<>> /\ Last(b) = HostNode /\ Free # {}
  BY DEF Accept, ServerInv
<1>2. /\ Len(b) \in DOMAIN b /\ Last(b) = b[Len(b)] /\ c \in Seq(Nodes \cup {HostNode})
      /\ \A i \in DOMAIN c : i \in DOMAIN b /\ i < Len(b) /\ c[i] = b[i]
  BY <1>1, TakenFacts
<1>3. q \in Seq(Peers) /\ q # <<>>
  BY <1>1, <1>2 DEF Ordered, HostDue
<1>4. p \in Peers /\ Tail(q) \in Seq(Peers)
  BY <1>3
<1>5. h \in Handles /\ w.fds[h] = None
  <2>1. Free \subseteq Nat
    BY DEF Free, Handles
  <2>2. \E x \in Free : \A y \in Free : x <= y
    BY <1>1, <2>1, LeastNode
  <2>3. h \in Free
    BY <2>2 DEF Lowest
  <2> QED BY <2>3 DEF Free, World
<1> PICK v : v = RemoveThenAdd([w EXCEPT !.fds[h] = p], h)
  OBVIOUS
<1>6. Registered(w) /\ w.poll \subseteq Nodes
  BY <1>1 DEF Ordered, Registered, WorldType
<1>7. /\ Registered(v)
      /\ \A n \in w.poll : w.node[n].mode => n \in v.poll /\ v.node[n] = w.node[n]
  BY <1>4, <1>5, <1>6, AcceptKeeps
<1> PICK z : z = (s \cup {n \in w.poll : ~ w.node[n].mode}) \cap ToSet(c)
  OBVIOUS
<1>8. \A i \in DOMAIN c : /\ c[i] # HostNode /\ c[i] # None /\ c[i] \in ToSet(c)
                          /\ c[i] \in w.poll \cup s
                          /\ c[i] \notin z => c[i] \in w.poll \ s /\ w.node[c[i]].mode
  <2> SUFFICES ASSUME NEW i \in DOMAIN c
               PROVE  /\ c[i] # HostNode /\ c[i] # None /\ c[i] \in ToSet(c)
                      /\ c[i] \in w.poll \cup s
                      /\ c[i] \notin z => c[i] \in w.poll \ s /\ w.node[c[i]].mode
    OBVIOUS
  <2>1. i \in DOMAIN b /\ i < Len(b) /\ c[i] = b[i] /\ c[i] \in ToSet(c)
    BY <1>2 DEF ToSet
  <2>2. i # Len(b)
    BY <2>1 DEF Ordered, QueueTyped
  <2>3. c[i] # HostNode
    BY <1>1, <1>2, <2>1, <2>2 DEF Ordered, QueueLive
  <2>4. c[i] \in w.poll \cup s /\ c[i] # None
    BY <1>1, <2>1, <2>3 DEF Ordered, QueueLive
  <2> QED BY <2>1, <2>3, <2>4
<1>9. \A i \in DOMAIN c : c[i] \in v.poll \cup z
  BY <1>7, <1>8
<1>10. QueueTyped(c, None)
  BY <1>2 DEF QueueTyped
<1>11. QueueLive(v, c, None, z)
  <2>1. \A i, j \in DOMAIN c : c[i] = c[j] => i = j
    BY <1>1, <1>2 DEF Ordered, QueueLive
  <2> QED BY <1>8, <1>9, <2>1 DEF QueueLive
<1>12. QueueOpen(v, c, z) /\ HostDue(c, Tail(q)) /\ StaleDue(c, None, z)
  <2>1. QueueOpen(v, c, z)
    BY <1>7, <1>8 DEF QueueOpen
  <2>2. s \subseteq Nodes
    BY <1>1 DEF Ordered, StaleDue
  <2>3. StaleDue(c, None, z)
    BY <1>6, <2>2 DEF StaleDue, ToSet
  <2> QED BY <1>8, <2>1, <2>3 DEF HostDue
<1>13. Ordered(v, c, None, Tail(q), z)
  BY <1>4, <1>7, <1>10, <1>11, <1>12 DEF Ordered
<1>14. Becomes(v) /\ v \in WorldType
  <2>1. v \in WorldType
    BY <1>7 DEF Registered
  <2> QED BY <2>1 DEF Accept
<1>15. World' = v
  BY <1>14, BecomesNext
<1>16. batch' = c /\ at' = None /\ backlog' = Tail(q) /\ stale' = z
  BY DEF Accept, World
<1> QED BY <1>13, <1>15, <1>16 DEF ServerInv

(* A client that connects adds an event of the listening socket.              *)
LEMMA ConnectStep ==
  ASSUME ServerInv, NEW p \in Peers, Connect(p)
  PROVE  ServerInv'
<1> PICK w, q, s, c : /\ w = World /\ q = backlog /\ s = stale
                      /\ c = [peer[p] EXCEPT !.here = TRUE]
  OBVIOUS
<1>1. Ordered(w, batch, at, q, s) /\ Registered(w) /\ w \in WorldType /\ q \in Seq(Peers)
  BY DEF ServerInv, Ordered, Registered
<1>2. c \in Client0
  <2>1. peer[p] \in Client0
    BY <1>1 DEF WorldType, World
  <2> QED BY <2>1, ClientTyped
<1> PICK v : v = [w EXCEPT !.peer = [w.peer EXCEPT ![p] = c], !.ready = w.ready \cup {0}]
  OBVIOUS
<1>3. [w.peer EXCEPT ![p] = c] \in [Peers -> Client0]
  BY <1>1, <1>2 DEF WorldType
<1>4. SameOwners(w, v)
  BY <1>1, <1>3 DEF SameOwners, WorldType
<1>5. Ordered(v, batch, at, q, s)
  BY <1>1, <1>4, SameKeeps
<1>6. Append(q, p) \in Seq(Peers) /\ Append(q, p) # <<>>
  BY <1>1
<1>7. Ordered(v, batch, at, Append(q, p), s)
  BY <1>5, <1>6 DEF Ordered, HostDue
<1>8. World' = v
  BY DEF Connect, World, kernel, program
<1> QED BY <1>7, <1>8 DEF Connect, program, ServerInv

(* What arrives from a connected client, or its end, is an edge of its        *)
(* descriptor, if it has one.                                                 *)
LEMMA ArrivalStep ==
  ASSUME ServerInv, NEW p \in Peers, NEW c \in Client0,
         peer' = [peer EXCEPT ![p] = c], Edge(p), UNCHANGED <<backlog, kernel, program>>
  PROVE  ServerInv'
<1> PICK w, E : w = World /\ E = {h \in Handles : fds[h] = p}
  OBVIOUS
<1>1. Ordered(w, batch, at, backlog, stale) /\ Registered(w) /\ w \in WorldType
  BY DEF ServerInv, Ordered, Registered
<1> PICK v : v = [w EXCEPT !.peer = [w.peer EXCEPT ![p] = c], !.ready = w.ready \cup E]
  OBVIOUS
<1>2. [w.peer EXCEPT ![p] = c] \in [Peers -> Client0]
  BY <1>1 DEF WorldType
<1>3. w.ready \cup E \in SUBSET (Handles \cup {0})
  BY <1>1 DEF WorldType
<1>4. \A h \in E : w.fds[h] # None
  BY ServerAssumption DEF World
<1>5. SameOwners(w, v)
  BY <1>1, <1>2, <1>3, <1>4 DEF SameOwners, WorldType
<1>6. Ordered(v, batch, at, backlog, stale)
  BY <1>1, <1>5, SameKeeps
<1>7. World' = v
  BY DEF Edge, World, kernel, program
<1> QED BY <1>6, <1>7 DEF program, ServerInv

(* What clients do between two steps of the program. *)
LEMMA ClientStep ==
  ASSUME ServerInv, NEW p \in Peers, Ask(p) \/ AskRest(p) \/ HangUp(p)
  PROVE  ServerInv'
<1>1. peer \in [Peers -> Client0] /\ peer[p] \in Client0
  BY DEF ServerInv, Ordered, Registered, WorldType, World
<1> PICK x : x = peer[p]
  OBVIOUS
<1>2. Edge(p) /\ UNCHANGED <<backlog, kernel, program>>
  BY DEF Ask, AskRest, HangUp
<1>3. CASE Ask(p)
  <2>1. PICK m \in BOOLEAN : peer' = [peer EXCEPT ![p].asked = TRUE, ![p].unread = TRUE,
                                                 ![p].more = m]
    BY <1>3 DEF Ask
  <2> PICK y : y = [x EXCEPT !.asked = TRUE]
    OBVIOUS
  <2> PICK z : z = [y EXCEPT !.unread = TRUE]
    OBVIOUS
  <2> PICK c : c = [z EXCEPT !.more = m]
    OBVIOUS
  <2>2. y \in Client0
    BY <1>1, ClientTyped
  <2>3. z \in Client0
    BY <2>2, ClientTyped
  <2>4. c \in Client0
    BY <2>3, ClientTyped
  <2>5. peer' = [peer EXCEPT ![p] = c]
    BY <1>1, <2>1
  <2> QED BY <1>2, <2>4, <2>5, ArrivalStep
<1>4. CASE AskRest(p)
  <2> PICK y : y = [x EXCEPT !.unread = TRUE]
    OBVIOUS
  <2> PICK c : c = [y EXCEPT !.more = FALSE]
    OBVIOUS
  <2>1. y \in Client0
    BY <1>1, ClientTyped
  <2>2. c \in Client0
    BY <2>1, ClientTyped
  <2>3. peer' = [peer EXCEPT ![p] = c]
    BY <1>1, <1>4 DEF AskRest
  <2> QED BY <1>2, <2>2, <2>3, ArrivalStep
<1>5. CASE HangUp(p)
  <2> PICK c : c = [x EXCEPT !.eof = TRUE]
    OBVIOUS
  <2>1. c \in Client0
    BY <1>1, ClientTyped
  <2>2. peer' = [peer EXCEPT ![p] = c]
    BY <1>1, <1>5 DEF HangUp
  <2> QED BY <1>2, <2>1, <2>2, ArrivalStep
<1> QED BY <1>3, <1>4, <1>5
-----------------------------------------------------------------------------
(* The invariant, and what it says.                                           *)

(* The listener is registered alone at the start. *)
LEMMA ServerInvInit == Init => ServerInv
<1> SUFFICES ASSUME Init PROVE ServerInv
  OBVIOUS
<1>1. Unused \in Node0 /\ Away \in Client0
  BY ServerAssumption DEF Unused, Node0, Away, Client0
<1>2. World \in WorldType
  BY <1>1 DEF Init, World, WorldType
<1>3. /\ World.poll = {} /\ World.ready = {} /\ World.fds = [h \in Handles |-> None]
      /\ batch = <<>> /\ at = None /\ backlog = <<>>
  BY DEF Init, World
<1>4. Registered(World)
  BY <1>2, <1>3 DEF Registered, OpenOwns, ClosedFree, UsedOwned, ReadyUsed
<1>5. /\ QueueTyped(batch, at) /\ QueueLive(World, batch, at, stale)
      /\ QueueOpen(World, batch, stale) /\ StaleDue(batch, at, stale)
      /\ backlog \in Seq(Peers) /\ HostDue(batch, backlog)
  BY <1>3 DEF Init, QueueTyped, QueueLive, QueueOpen, StaleDue, HostDue
<1> QED BY <1>4, <1>5 DEF ServerInv, Ordered

(* Every step of program and clients keeps the invariant. *)
LEMMA ServerInvNext == ServerInv /\ [Next]_vars => ServerInv'
<1> SUFFICES ASSUME ServerInv, [Next]_vars PROVE ServerInv'
  OBVIOUS
<1>1. ASSUME NEW p \in Peers, Connect(p) \/ Ask(p) \/ AskRest(p) \/ HangUp(p)
      PROVE  ServerInv'
  BY <1>1, ConnectStep, ClientStep
<1>2. CASE Serve
  BY <1>2, WaitStep, AcceptStep, GetStep, ReceivePartStep, ReceiveFailsStep, SkipStep,
     RequestStep, UpgradeStep, BroadcastStep DEF Serve
<1>3. CASE UNCHANGED vars
  <2>1. World' = World /\ batch' = batch /\ at' = at /\ backlog' = backlog /\ stale' = stale
    BY <1>3 DEF vars, World
  <2> QED BY <2>1 DEF ServerInv
<1> QED BY <1>1, <1>2, <1>3 DEF Next

(* What the sockets, the registrations and the events to be taken are in      *)
(* every state the server reaches.                                            *)
THEOREM ServerStaysOrdered == Spec => []ServerInv
BY ServerInvInit, ServerInvNext, PTL DEF Spec

(* What the invariant says of descriptors. *)
LEMMA OrderedOwns == ServerInv => OwnHandle
<1> SUFFICES ASSUME ServerInv PROVE OwnHandle
  OBVIOUS
<1> PICK w : w = World
  OBVIOUS
<1>1. OpenOwns(w) /\ UsedOwned(w)
  BY DEF ServerInv, Ordered, Registered
<1>2. w.fds = fds /\ w.reg = reg /\ w.poll = poll /\ w.node = node
  BY DEF World
<1>3. \A n \in poll : node[n].mode => /\ node[n].handle \in Handles
                                      /\ fds[node[n].handle] # None /\ reg[node[n].handle] = n
  BY <1>1, <1>2, ServerAssumption DEF OpenOwns
<1>4. ASSUME NEW h \in Handles
      PROVE  fds[h] # None <=> \E n \in poll : node[n].mode /\ node[n].handle = h /\ reg[h] = n
  <2>1. ASSUME fds[h] # None
        PROVE  \E n \in poll : node[n].mode /\ node[n].handle = h /\ reg[h] = n
    <3>1. PICK n \in poll : node[n].mode /\ node[n].handle = h
      BY <1>1, <1>2, <2>1 DEF UsedOwned
    <3> QED BY <1>3, <3>1
  <2> QED BY <1>3, <2>1
<1> QED BY <1>3, <1>4 DEF OwnHandle

(* A node whose event is pending is freed only if it is a closed websocket.   *)
LiveStep == \A n \in (ToSet(batch') \cup {at'}) \ {None, HostNode} :
  n \in poll' \ stale' \/ n \in stale \/ (n \in poll /\ node[n].ws /\ ~ node[n].mode)

(* What has an event pending, in a state of the server.                       *)
LEMMA PendingFacts ==
  ASSUME ServerInv, NEW n \in (ToSet(batch) \cup {at}) \ {None, HostNode}
  PROVE  /\ n \in poll \cup stale
         /\ n \in ToSet(batch) \ stale => node[n].mode \/ node[n].ws
<1> PICK w, b, a, s : w = World /\ b = batch /\ a = at /\ s = stale
  OBVIOUS
<1>1. QueueLive(w, b, a, s) /\ QueueOpen(w, b, s) /\ w.poll = poll /\ w.node = node
  BY DEF ServerInv, Ordered, World
<1>2. n \in poll \cup stale
  BY <1>1 DEF QueueLive, ToSet
<1>3. ASSUME n \in ToSet(b) \ s PROVE node[n].mode \/ node[n].ws
  BY <1>1, <1>2, <1>3 DEF QueueOpen, ToSet
<1> QED BY <1>2, <1>3

(* An accept frees, of the nodes with an event, closed websockets only.       *)
LEMMA AcceptLive ==
  ASSUME ServerInv, Accept, NEW n \in ToSet(batch'), n \in stale', n # HostNode
  PROVE  n \in stale \/ (n \in poll /\ node[n].ws /\ ~ node[n].mode)
<1>1. n \in stale \/ (n \in poll /\ ~ node[n].mode)
  BY DEF Accept
<1>2. n \in ToSet(batch)
  <2> PICK w, b, q, s, c : /\ w = World /\ b = batch /\ q = backlog /\ s = stale
                           /\ c = Taken(batch)
    OBVIOUS
  <2>1. Ordered(w, b, None, q, s) /\ b # <<>> /\ c = batch'
    BY DEF Accept, ServerInv
  <2>2. \A i \in DOMAIN c : i \in DOMAIN b /\ c[i] = b[i]
    BY <2>1, TakenFacts
  <2> QED BY <2>1, <2>2 DEF ToSet
<1>3. n # None
  <2>1. stale' \subseteq Nodes
    BY AcceptStep DEF ServerInv, Ordered, StaleDue
  <2> QED BY <2>1, ServerAssumption
<1>4. n \notin stale => node[n].mode \/ node[n].ws
  BY <1>2, <1>3, PendingFacts
<1> QED BY <1>1, <1>4

(* What every step keeps of the pending events.                               *)
LEMMA LiveNext == ServerInv /\ [Next]_vars => [LiveStep]_vars
<1> SUFFICES ASSUME ServerInv, Next,
                    NEW n \in (ToSet(batch') \cup {at'}) \ {None, HostNode}
             PROVE  \/ n \in poll' \ stale' \/ n \in stale
                    \/ n \in poll /\ node[n].ws /\ ~ node[n].mode
  BY DEF LiveStep
<1>1. ServerInv'
  BY ServerInvNext
<1>2. n \in poll' \cup stale'
  <2>1. QueueLive(World', batch', at', stale') /\ World'.poll = poll'
    BY <1>1 DEF ServerInv, Ordered, World
  <2> QED BY <2>1 DEF QueueLive, ToSet
<1>3. CASE n \notin stale'
  BY <1>2, <1>3
<1>4. CASE n \in stale' /\ stale' = stale
  BY <1>4
<1>5. CASE n \in stale' /\ Accept
  <2>1. n \in ToSet(batch')
    BY <1>5 DEF Accept
  <2> QED BY <1>5, <2>1, AcceptLive
<1>6. Accept \/ stale' = stale
  BY DEF Next, Serve, Connect, Ask, AskRest, HangUp, Wait, Get, ReceivePart, ReceiveFails, Skip,
     CloseAsked, Respond, Upgrade, Broadcast, CloseFrame, Done, program
<1> QED BY <1>3, <1>4, <1>5, <1>6

(* For any number of clients and descriptors: a descriptor in use belongs to  *)
(* one open socket of the poll and is registered under its node, when         *)
(* descriptors and nodes are given out again after jwl_socket_close and       *)
(* jwl_socket_poll_remove_closed.                                             *)
THEOREM DescriptorsHaveOneOwner == Spec => []OwnHandle
BY ServerStaysOrdered, OrderedOwns, PTL

(* For any number of clients, descriptors and addresses: a node with an event *)
(* still to be taken stays in the poll whatever handlers, failing sends and   *)
(* accepts come in between, unless it is a websocket that a broadcast has     *)
(* closed (webserver.c:253) and an accept then removed.                       *)
THEOREM PendingEventsLive == Spec => PendingLive
<1>1. ServerInv /\ [Next]_vars => [LiveStep]_vars
  BY LiveNext
<1>2. ServerInv /\ [LiveStep]_vars => [\A n \in (ToSet(batch') \cup {at'}) \ {None, HostNode} :
       \/ n \in poll' \ stale'
       \/ n \in stale
       \/ n \in poll /\ node[n].ws /\ ~node[n].mode]_vars
  BY DEF LiveStep
<1> QED BY <1>1, <1>2, ServerStaysOrdered, PTL DEF Spec, PendingLive
=============================================================================
