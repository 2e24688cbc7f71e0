----------------------------- MODULE LinkedList -----------------------------
(***************************************************************************)
(* The nodes of one list of jbl/jbl_ll.c: head, tail and length of the     *)
(* list, and in each node its neighbours and its payload.  The list has    *)
(* one holder, so jbl_ll_extend answers it unchanged; shared lists and     *)
(* references are not modelled here.                                       *)
(***************************************************************************)
EXTENDS Integers, SequencesExt

CONSTANTS Node,    \* memory for nodes
          Value    \* payloads

ASSUME LinkedListAssumption == 0 \notin Node \cup Value

NULL == 0

VARIABLES head, tail, len,   \* fields of the jbl_ll
          pre, nxt, v,       \* [Node -> field of the node]
          i, j               \* the walk of jbl_ll_free: this node and the next

vars == <<head, tail, len, pre, nxt, v, i, j>>

Init ==
  /\ head = NULL /\ tail = NULL /\ len = 0
  /\ pre = [n \in Node |-> NULL]
  /\ nxt = [n \in Node |-> NULL]
  /\ v = [n \in Node |-> NULL]
  /\ i = NULL /\ j = NULL

Used == {n \in Node : v[n] # NULL}        \* a node in use has a payload
Idle == i = NULL
-----------------------------------------------------------------------------
(* A variant: only the predecessor learns of the new node.                    *)
InsertNodeOneWay(n, x, after) ==
  LET next == IF after = NULL THEN head ELSE nxt[after]
  IN  /\ head' = IF after = NULL THEN n ELSE head
      /\ tail' = IF next = NULL THEN n ELSE tail
      /\ nxt' = [m \in Node |-> CASE m = n -> next [] m = after -> n [] OTHER -> nxt[m]]
      /\ pre' = [pre EXCEPT ![n] = after]
      /\ v' = [v EXCEPT ![n] = x]
      /\ len' = len + 1

(* A variant: no node to insert behind means the end of the list.             *)
InsertNodeAtEnd(n, x, after) ==
  LET behind == IF after = NULL THEN tail ELSE after
      next == IF behind = NULL THEN NULL ELSE nxt[behind]
  IN  /\ head' = IF behind = NULL THEN n ELSE head
      /\ tail' = IF next = NULL THEN n ELSE tail
      /\ nxt' = [m \in Node |-> CASE m = n -> next [] m = behind -> n [] OTHER -> nxt[m]]
      /\ pre' = [m \in Node |-> CASE m = n -> behind [] m = next -> n [] OTHER -> pre[m]]
      /\ v' = [v EXCEPT ![n] = x]
      /\ len' = len + 1

(* jbl_ll_node_insert of the new node n: behind after, or first when NULL.    *)
InsertNode(n, x, after) ==
  LET next == IF after = NULL THEN head ELSE nxt[after]
  IN  /\ head' = IF after = NULL THEN n ELSE head
      /\ tail' = IF next = NULL THEN n ELSE tail
      /\ nxt' = [m \in Node |-> CASE m = n -> next [] m = after -> n [] OTHER -> nxt[m]]
      /\ pre' = [m \in Node |-> CASE m = n -> after [] m = next -> n [] OTHER -> pre[m]]
      /\ v' = [v EXCEPT ![n] = x]
      /\ len' = len + 1

Insert(x, after) ==
  /\ Idle
  /\ \E n \in Node \ Used : InsertNode(n, x, after)
  /\ UNCHANGED <<i, j>>

(* A variant: the successor of a head that goes does not become the head.     *)
DeleteNodeKeepHead(n) ==
  /\ tail' = IF nxt[n] = NULL THEN pre[n] ELSE tail
  /\ pre' = [m \in Node |-> CASE m = n -> NULL [] m = nxt[n] -> pre[n] [] OTHER -> pre[m]]
  /\ nxt' = [m \in Node |-> CASE m = n -> NULL [] m = pre[n] -> nxt[n] [] OTHER -> nxt[m]]
  /\ v' = [v EXCEPT ![n] = NULL]
  /\ len' = len - 1
  /\ UNCHANGED head

(* jbl_ll_node_delete: delink, then free.                                     *)
DeleteNode(n) ==
  /\ tail' = IF nxt[n] = NULL THEN pre[n] ELSE tail
  /\ head' = IF pre[n] = NULL THEN nxt[n] ELSE head
  /\ pre' = [m \in Node |-> CASE m = n -> NULL [] m = nxt[n] -> pre[n] [] OTHER -> pre[m]]
  /\ nxt' = [m \in Node |-> CASE m = n -> NULL [] m = pre[n] -> nxt[n] [] OTHER -> nxt[m]]
  /\ v' = [v EXCEPT ![n] = NULL]
  /\ len' = len - 1

Delete(n) == Idle /\ DeleteNode(n) /\ UNCHANGED <<i, j>>

(* jbl_ll_swap_node: the payloads change places, the nodes stay.              *)
SwapNode(a, b) ==
  /\ Idle
  /\ a # b
  /\ v' = [v EXCEPT ![a] = v[b], ![b] = v[a]]
  /\ UNCHANGED <<head, tail, len, pre, nxt, i, j>>

(* jbl_ll_foreach_del in jbl_ll_free: the next node is read before this one   *)
(* is deleted.                                                                *)
BeginFree ==
  /\ Idle
  /\ i' = head
  /\ j' = IF head = NULL THEN NULL ELSE nxt[head]
  /\ UNCHANGED <<head, tail, len, pre, nxt, v>>

(* A variant: the next node is read when this one is gone.                    *)
FreeStepLate ==
  /\ i # NULL
  /\ DeleteNode(i)
  /\ i' = nxt'[i]
  /\ j' = NULL

FreeStep ==
  /\ i # NULL
  /\ DeleteNode(i)
  /\ i' = j
  /\ j' = IF j = NULL THEN NULL ELSE nxt'[j]

Next == \/ \E x \in Value, after \in Used \cup {NULL} : Insert(x, after)
        \/ \E n \in Used : Delete(n)
        \/ \E a, b \in Used : SwapNode(a, b)
        \/ BeginFree
        \/ FreeStep

Spec == Init /\ [][Next]_vars

(* The loop of jbl_ll_free runs in one call of the only thread.               *)
FairSpec == Spec /\ WF_vars(FreeStep)
-----------------------------------------------------------------------------
(* The nodes met from f on, len of them, by way of link.                      *)
Walk(f, link) ==
  LET w[k \in 1 .. len] == IF k = 1 THEN f
                           ELSE IF w[k - 1] = NULL THEN NULL ELSE link[w[k - 1]]
  IN  [k \in 1 .. len |-> w[k]]
Nodes == Walk(head, nxt)

(* Following nxt from the head for len steps meets every node in use once and *)
(* ends at the tail; following pre from the tail meets them backwards.        *)
WellLinked ==
  /\ len \in Nat
  /\ Range(Nodes) = Used
  /\ IsInjective(Nodes)
  /\ Walk(tail, pre) = Reverse(Nodes)
  /\ IF len = 0 THEN head = NULL /\ tail = NULL
     ELSE tail = Nodes[len] /\ nxt[tail] = NULL /\ pre[head] = NULL

(* Read from the head, the nodes are a sequence of payloads, and all that     *)
(* jbl_ll_node_insert, jbl_ll_node_delete and jbl_ll_swap_node ever do to it  *)
(* is a step of a sequence.                                                   *)
Payload(n) == IF n = NULL THEN NULL ELSE v[n]
View == INSTANCE ListView WITH list <- [k \in 1 .. len |-> Payload(Nodes[k])]
ImplementsList == View!Spec

(* Each call changes that sequence at the node it was given: jbl_ll_insert    *)
(* puts the payload right behind after (first when after is NULL),            *)
(* jbl_ll_delete takes out the node's, jbl_ll_free the first one.             *)
Place(n) == IF n = NULL THEN 0 ELSE CHOOSE k \in 1 .. len : Nodes[k] = n
InPlace ==
  [][/\ \A x \in Value, after \in Used \cup {NULL} :
          Insert(x, after) => View!AddAt(Place(after) + 1, x)
     /\ \A n \in Used : Delete(n) => View!DropAt(Place(n))
     /\ \A a, b \in Used : SwapNode(a, b) => View!Exchange(Place(a), Place(b))
     /\ FreeStep => View!DropAt(1)]_vars

(* The walk that frees a list frees all of it.                                *)
FreeEmpties == (i # NULL) ~> (Idle /\ Used = {})
=============================================================================
