------------------------------- MODULE Server -------------------------------
(***************************************************************************)
(* The server loop of examples/webserver.c over jwl_socket_poll and        *)
(* jwl_socket, on Linux: one thread waits for events (edge-triggered       *)
(* epoll), takes them from the end of a batch, accepts one client per      *)
(* event of the listening socket, serves a request or a websocket message  *)
(* per event of another.  A poll node holds a socket; the kernel knows it  *)
(* by its address, which the allocator gives out again.  The sockets       *)
(* block, so serving a client waits for the rest of what it sends.         *)
(*                                                                         *)
(* Clients send one request or message and wait for the answer: of two     *)
(* sent at once the second would stay in the buffer (a finding).           *)
(***************************************************************************)
EXTENDS Integers, FiniteSets, SequencesExt

CONSTANTS Peers,        \* clients; one connects again after its connection has ended
          Quiet,        \* bound: clients that connect and send nothing
          MaxHandle,    \* bound: descriptors of the process, one per client
          Nodes,        \* bound: addresses the allocator gives poll nodes, the lowest first
          HostNode,     \* the node of the listening socket, of descriptor 0
          None

ASSUME ServerAssumption == /\ MaxHandle \in Nat \ {0}
                           /\ Nodes \subseteq Nat /\ HostNode \notin Nodes
                           /\ IsFiniteSet(Nodes) /\ MaxHandle <= Cardinality(Nodes)
                           /\ None \notin Peers \cup Nodes /\ None # HostNode
                           /\ Quiet \subseteq Peers

Handles == 1 .. MaxHandle

VARIABLES peer,     \* per client: connected, what it sent, an answer it waits for
          backlog,  \* connections not accepted yet
          fds,      \* the connection behind a descriptor
          reg,      \* the node a descriptor is registered under
          ready,    \* descriptors with an edge since the last wait
          node,     \* the memory of the nodes
          poll,     \* thi->data: the nodes in the list, whose order matters to nothing
          batch,    \* thi->events[0 .. event_len)
          at,       \* the node being served
          stale     \* history: nodes with an event in batch or served that were freed since

vars == <<peer, backlog, fds, reg, ready, node, poll, batch, at, stale>>
kernel == <<fds, reg>>
program == <<node, poll, batch, at, stale>>

(* said: the last frame that a websocket got the head of is one with text.    *)
Unused == [handle |-> 0, mode |-> FALSE, ws |-> FALSE, said |-> FALSE]

Away == [here |-> FALSE, unread |-> FALSE, more |-> FALSE, asked |-> FALSE, eof |-> FALSE]

Init == /\ peer = [p \in Peers |-> Away]
        /\ backlog = <<>> /\ ready = {} /\ poll = {} /\ batch = <<>> /\ at = None
        /\ stale = {}
        /\ fds = [h \in Handles |-> None] /\ reg = [h \in Handles |-> None]
        /\ node = [n \in Nodes |-> Unused]
-----------------------------------------------------------------------------
(* Clients and the kernel                                                     *)

(* What arrives at a descriptor is an edge.                                   *)
Edge(p) == ready' = ready \cup {h \in Handles : fds[h] = p}

Connect(p) == /\ ~peer[p].here
              /\ peer' = [peer EXCEPT ![p].here = TRUE]
              /\ backlog' = Append(backlog, p) /\ ready' = ready \cup {0}
              /\ UNCHANGED <<kernel, program>>

(* A request, the whole of it or its beginning                                *)
Ask(p) == /\ p \notin Quiet /\ peer[p].here /\ ~peer[p].asked /\ ~peer[p].eof
          /\ \E m \in BOOLEAN : peer' = [peer EXCEPT ![p].asked = TRUE, ![p].unread = TRUE,
                                                     ![p].more = m]
          /\ Edge(p) /\ UNCHANGED <<backlog, kernel, program>>
AskRest(p) == /\ peer[p].here /\ peer[p].more /\ ~peer[p].eof
              /\ peer' = [peer EXCEPT ![p].unread = TRUE, ![p].more = FALSE]
              /\ Edge(p) /\ UNCHANGED <<backlog, kernel, program>>
HangUp(p) == /\ p \notin Quiet /\ peer[p].here /\ ~peer[p].eof
             /\ peer' = [peer EXCEPT ![p].eof = TRUE]
             /\ Edge(p) /\ UNCHANGED <<backlog, kernel, program>>

Readable(h) == IF h = 0 THEN backlog # <<>>
               ELSE peer[fds[h]].unread \/ peer[fds[h]].eof

Free == {h \in Handles : fds[h] = None}
Lowest(S) == CHOOSE h \in S : \A k \in S : h <= k
-----------------------------------------------------------------------------
(* Sockets and the poll.  w: what a piece of the handler changes.             *)

World == [peer |-> peer, fds |-> fds, reg |-> reg, ready |-> ready, node |-> node,
          poll |-> poll]
Becomes(w) == \E v \in {w} : /\ peer' = v.peer /\ fds' = v.fds /\ reg' = v.reg
                             /\ ready' = v.ready /\ node' = v.node /\ poll' = v.poll

(* EPOLL_CTL_DEL of descriptors, which may be nobody's or another's           *)
Deregister(w, H) == [w EXCEPT !.reg = [h \in Handles |-> IF h \in H THEN None ELSE @[h]],
                              !.ready = @ \ H]

Reset(n) == [n EXCEPT !.mode = FALSE]       \* handle stays
(* jwl_socket_close of the sockets in S: the kernel forgets the descriptors,  *)
(* and their registrations.                                                   *)
Closes(w, S) ==
  LET open == {n \in S : w.node[n].mode}
      gone == {w.node[n].handle : n \in open}
      left == {w.fds[h] : h \in gone}
  IN  Deregister([w EXCEPT
        !.fds = [h \in Handles |-> IF h \in gone THEN None ELSE @[h]],
        !.peer = [p \in Peers |-> IF p \in left THEN Away ELSE @[p]],
        !.node = [n \in Nodes |-> IF n \in open THEN Reset(@[n]) ELSE @[n]]], gone)
Close(w, n) == Closes(w, {n})

(* jwl_socket_poll_remove_closed: by the descriptor the socket had            *)
RemoveClosed(w) ==
  LET closed == {n \in w.poll : ~w.node[n].mode}
      gone == {w.node[n].handle : n \in closed}
  IN  Deregister([w EXCEPT
        !.poll = @ \ closed,
        !.node = [n \in Nodes |-> IF n \in closed THEN Unused ELSE @[n]]], gone)

(* jwl_socket_poll_add: what is readable when it is registered is an edge.    *)
Add(w, n, h) ==
  [w EXCEPT !.poll = @ \cup {n}, !.reg[h] = n,
            !.node[n] = [handle |-> h, mode |-> TRUE, ws |-> FALSE, said |-> FALSE],
            !.ready = IF w.peer[w.fds[h]].unread \/ w.peer[w.fds[h]].eof
                      THEN @ \cup {h} ELSE @]

(* Memory for a new node; that of removed ones is given out again.            *)
FreeNode(w) == Lowest(Nodes \ w.poll)

(* The order of the two; the variant has it the other way round.              *)
AddThenRemove(w, h) == RemoveClosed(Add(w, FreeNode(w), h))
RemoveThenAdd(w, h) == LET v == RemoveClosed(w) IN Add(v, FreeNode(v), h)
-----------------------------------------------------------------------------
(* The program                                                                *)

(* jwl_socket_poll_wait: the kernel reports, in any order, what had an edge   *)
(* and is still readable.                                                     *)
NodeOf(h) == IF h = 0 THEN HostNode ELSE reg[h]
Wait == /\ batch = <<>> /\ at = None
        /\ LET news == {h \in ready : Readable(h)}
           IN  /\ news # {}
               /\ batch' \in SetToSeqs({NodeOf(h) : h \in news})
        /\ ready' = {}
        /\ UNCHANGED <<peer, backlog, kernel, node, poll, at, stale>>

(* jwl_socket_poll_get of an event of the listening socket: accept.  Without  *)
(* a free descriptor it fails, and the call of jwl_socket_poll_add ends the   *)
(* process: there is no step then.                                            *)
TakenOnly(b) == <<>>       \* a variant of the next: one event, then the next wait
Taken(b) == Front(b)
Accept ==
  /\ at = None /\ batch # <<>> /\ Last(batch) = HostNode
  /\ Free # {}
  /\ batch' = Taken(batch)
  /\ LET h == Lowest(Free)
         w == [World EXCEPT !.fds[h] = Head(backlog)]
     IN  Becomes(RemoveThenAdd(w, h))
  /\ stale' = (stale \cup {n \in poll : ~node[n].mode}) \cap ToSet(batch')
  /\ backlog' = Tail(backlog) /\ UNCHANGED at

(* jwl_socket_poll_get of another event; its test for handle -1 is never      *)
(* true.  Of a stale one it reads memory that is free, or another client's by *)
(* now: the model ends there.                                                 *)
Get == /\ at = None /\ batch # <<>> /\ Last(batch) # HostNode
       /\ at' = Last(batch) /\ batch' = Taken(batch)
       /\ UNCHANGED <<peer, backlog, kernel, ready, node, poll, stale>>

Client(n) == fds[node[n].handle]
Reads(w, n) == [w EXCEPT !.peer[w.fds[w.node[n].handle]].unread = FALSE]
Answer(w, n) == [w EXCEPT !.peer[w.fds[w.node[n].handle]].asked = FALSE]
Taking == at # None /\ at \notin stale
Serving == Taking /\ node[at].mode
Done == at' = None /\ UNCHANGED <<backlog, batch, stale>>

(* The message goes to every open websocket; any send may fail, and closes    *)
(* its socket, events of it pending or not.                                   *)
SocketsAll(w) == {n \in w.poll : w.node[n].mode}      \* a variant of the next
Sockets(w) == {n \in w.poll : w.node[n].mode /\ w.node[n].ws}
SendsAll(w) == \E bad \in SUBSET Sockets(w) :
  Becomes(Closes(IF at \in Sockets(w) \ bad THEN Answer(w, at) ELSE w, bad))
(* A websocket that is closed goes on as if its last message had come again.  *)
Ends(w) == IF node[at].ws /\ node[at].said THEN SendsAll(w) ELSE Becomes(w)

(* recv gives a part only; the handler stays in its loop.                     *)
ReceivePart ==
  /\ Serving /\ peer[Client(at)].unread /\ peer[Client(at)].more
  /\ \E head \in {FALSE, node[at].ws} :
       Becomes([Reads(World, at) EXCEPT !.node[at].said = @ \/ head])
  /\ UNCHANGED <<backlog, batch, at, stale>>

Whole == Serving /\ peer[Client(at)].unread /\ ~peer[Client(at)].more

(* recv gives 0 or fails.                                                     *)
ReceiveFails ==
  /\ Serving /\ ~peer[Client(at)].unread /\ peer[Client(at)].eof
  /\ Ends(Close(World, at)) /\ Done

(* An event of a socket closed meanwhile                                      *)
Skip == /\ Taking /\ ~node[at].mode
        /\ Ends(World) /\ Done

(* handle_webserve: the request asks to close; or is answered, or the send    *)
(* fails; or asks for a websocket.                                            *)
CloseAsked == /\ Whole /\ ~node[at].ws
              /\ Becomes(Close(Reads(World, at), at)) /\ Done
Respond == /\ Whole
           /\ ~node[at].ws
           /\ LET w == Reads(World, at)
              IN  \/ Becomes(Answer(w, at))
                  \/ Becomes(Close(w, at))
           /\ Done
Upgrade == /\ Whole /\ ~node[at].ws
           /\ LET w == [Reads(World, at) EXCEPT !.node[at].ws = TRUE]
              IN  \/ Becomes(Answer(w, at))
                  \/ Becomes(Close(w, at))
           /\ Done

(* handle_websocket: a message                                                *)
Broadcast == /\ Whole /\ node[at].ws
             /\ SendsAll([Reads(World, at) EXCEPT !.node[at].said = TRUE]) /\ Done
(* A frame that closes                                                        *)
CloseFrame == /\ Whole /\ node[at].ws
              /\ Becomes(Close(Reads(World, at), at)) /\ Done

Serve == \/ Wait \/ Accept \/ Get \/ ReceivePart \/ ReceiveFails \/ Skip
         \/ CloseAsked \/ Respond \/ Upgrade \/ Broadcast \/ CloseFrame

Next == (\E p \in Peers : Connect(p) \/ Ask(p) \/ AskRest(p) \/ HangUp(p)) \/ Serve

(* The thread runs on, and a client ends what it began or leaves: without     *)
(* this the blocking handler waits for it, and everyone with it.              *)
Spec == /\ Init /\ [][Next]_vars /\ WF_vars(Serve)
        /\ \A p \in Peers \ Quiet : WF_vars(AskRest(p))
-----------------------------------------------------------------------------
(* A descriptor in use belongs to one open socket of the poll and is          *)
(* registered under the node of that socket: no client loses its events, or   *)
(* gets those or the bytes of another, when the kernel gives out descriptors  *)
(* and the allocator nodes again.                                             *)
OwnHandle ==
  /\ \A h \in Handles : fds[h] # None <=>
       \E n \in poll : node[n].mode /\ node[n].handle = h /\ reg[h] = n
  /\ \A n, m \in poll :
       node[n].mode /\ node[m].mode /\ node[n].handle = node[m].handle => n = m
  /\ \A n \in poll : node[n].mode => fds[node[n].handle] # None

(* What is in the batch, or served, is a node of the poll, whose event it is: *)
(* removing closed sockets between two events of a batch frees no node with   *)
(* an event pending, except of websockets that a failed broadcast has closed. *)
PendingLive ==
  [][\A n \in (ToSet(batch') \cup {at'}) \ {None, HostNode} :
       \/ n \in poll' \ stale'
       \/ n \in stale
       \/ n \in poll /\ node[n].ws /\ ~node[n].mode]_vars

(* jwl_socket_poll_get removes a node whose socket is closed, and answers the *)
(* others (jwl_socket_poll.c:223): what it answers is in the poll since its   *)
(* event.  Not if a broadcast closed it and an accept removed it.             *)
ServedLive == at \notin stale

(* Who was accepted and asks is answered, or its connection ends, or the loop *)
(* takes a stale event: no edge is lost between registration, waiting and     *)
(* serving.                                                                   *)
Accepted(p) == \E h \in Handles : fds[h] = p
Answered == \A p \in Peers \ Quiet :
  Accepted(p) /\ peer[p].asked ~> ~peer[p].asked \/ at \in stale
=============================================================================
