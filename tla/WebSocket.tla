----------------------------- MODULE WebSocket -----------------------------
(***************************************************************************)
(* One direction of a websocket connection, as the streams of both sides   *)
(* carry it: the program pushes messages into an encoding stream           *)
(* (__jwl_websocket_encode_operator), which fills the socket stream's      *)
(* buffer (__jwl_socket_stream_operater), which sends.  On the other side  *)
(* the socket stream receives what the network has, into the decoding      *)
(* stream's buffer (__jwl_websocket_decode_operator), which fills a string *)
(* stream (__jbl_string_stream_operater).  A stream is its buffer, of      *)
(* fixed size; its operator runs when it is full or told to, and runs the  *)
(* operator of the next one when that one is full.                         *)
(***************************************************************************)
EXTENDS Integers, SequencesExt

CONSTANTS Lengths,      \* lengths of the messages of the program, at least Keep: fewer
                        \* bytes than those kept back would make the count wrap
          MaxMessages,  \* bound: messages
          BufLength,    \* JWL_WEBSOCKET_STREAM_BUF_LENGTH, of both websocket streams
          SendLength,   \* JWL_SOCKET_STREAM_BUF_LENGTH
          Room,         \* 128, the room a string stream makes
          Keep,         \* 16, the bytes an encoding stream keeps back unless forced
          ShortMax,     \* 125, the longest length in the second byte of a frame
          WordMax       \* 65536, the first length that needs eight bytes

ASSUME WebSocketAssumption ==
  /\ \A n \in Lengths : n \in Nat \ {0} /\ n >= Keep
  /\ MaxMessages \in Nat
  /\ BufLength \in Nat /\ SendLength \in Nat /\ BufLength > 14 /\ BufLength > Keep
  /\ Room \in Nat \ {0} /\ Keep \in Nat /\ ShortMax \in Nat /\ WordMax \in Nat

VARIABLES tx,     \* sender: encoding stream and socket stream
          rx,     \* receiver: decoding stream and string stream
          wire,   \* bytes under way
          link,   \* the network carries them
          sent, got, \* messages pushed, messages taken
          todo    \* what is left to push of the last message sent

vars == <<tx, rx, wire, link, sent, got, todo>>

Text(n, l) == [i \in 1 .. l |-> (64 * n + i) % 256]
Message == {Text(n, l) : n \in 0 .. MaxMessages, l \in Lengths}

Key == <<255, 0, 0, 0>>                       \* the four bytes of the mask
Xor(b, m) == IF m = 255 THEN 255 - b ELSE b   \* a byte with a byte of Key
Masked(s, at) == [i \in DOMAIN s |-> Xor(s[i], Key[((at + i - 1) % 4) + 1])]

Init == /\ tx \in [mask : BOOLEAN, enc : {<<>>}, op : {2}, ended : {TRUE},
                   out : {<<>>}, stop : {FALSE}, up : {TRUE}]
        /\ rx = [buf |-> <<>>, inside |-> FALSE, fin |-> FALSE, mask |-> FALSE, len |-> 0,
                 at |-> 0, stop |-> FALSE, pend |-> <<>>, text |-> <<>>, up |-> TRUE]
        /\ wire = <<>> /\ link = TRUE
        /\ sent = <<>> /\ got = <<>> /\ todo = <<>>
-----------------------------------------------------------------------------
(* Sender.  t.net is what an operation sends.                                 *)

(* __jwl_socket_stream_operater with bytes in its buffer: they are sent when  *)
(* told to, or when more than half the buffer is used.  A send that fails for *)
(* good closes the socket and stops the stream; a closed one drops the bytes. *)
SendOut(t, force) ==
  IF t.out = <<>> \/ (~force /\ Len(t.out) <= SendLength \div 2) THEN t
  ELSE [t EXCEPT !.out = <<>>, !.net = IF t.up /\ link THEN @ \o t.out ELSE @,
                 !.stop = @ \/ (t.up /\ ~link), !.up = @ /\ link]

WhenFull(t) == IF Len(t.out) >= SendLength THEN SendOut(t, FALSE) ELSE t
Put(t, b) == IF t.stop THEN t ELSE [t EXCEPT !.out = Append(@, b)]
(* jbl_stream_push_char: full after a byte; and a loop that looks before one. *)
PushChar(t, b) == WhenFull(Put(t, b))
PushUnseen(t, b) == Put(t, b)          \* a variant of the next, without a look
PushMasked(t, b) == Put(WhenFull(t), b)
(* jbl_stream_push_string_start_end: what fits, then the operator.            *)
PushString(t, s) == SendOut(FoldLeft(PushChar, WhenFull(t), s), FALSE)

BigEndian(n, bytes) == [i \in 1 .. bytes |-> (n \div 256 ^ (bytes - i)) % 256]

(* jwl_websocket_get_head, for lengths below 2^31                             *)
FrameHead(n, last, mask, op) ==
  LET m == IF mask THEN 128 ELSE 0
      form == CASE n <= ShortMax -> <<m + n>>
                [] n > ShortMax /\ n < WordMax -> <<m + 126>> \o BigEndian(n, 2)
                [] OTHER -> <<m + 127, 0, 0, 0, 0, 0>> \o BigEndian(n, 3)
  IN  <<(IF last THEN 128 ELSE 0) + op>> \o form

(* The frame of the first n bytes of the encoding stream.                     *)
Frame(t, n, force) ==
  LET s == SubSeq(t.enc, 1, n)
      h == PushString(t, FrameHead(n, force, t.mask, t.op))
      f == IF t.mask THEN FoldLeft(PushMasked, FoldLeft(PushChar, h, Key), Masked(s, 0))
                     ELSE PushString(h, s)
  IN  [f EXCEPT !.enc = SubSeq(t.enc, n + 1, Len(t.enc)), !.op = 0]

(* A variant of the next: no bytes are kept back.                             *)
EncodeAll(t, force) == IF t.enc = <<>> \/ t.stop THEN t ELSE Frame(t, Len(t.enc), force)

(* __jwl_websocket_encode_operator: a frame of all bytes but those kept back  *)
(* for a last one.  Callers that do not force have pushed enough.             *)
Encode(t, force) ==
  LET n == Len(t.enc) - (IF force THEN 0 ELSE Keep)
      e == IF t.enc = <<>> \/ t.stop \/ n = 0 THEN t ELSE Frame(t, n, force)
  IN  IF force THEN SendOut(e, FALSE) ELSE e

Does(t) == tx' = [f \in DOMAIN tx |-> t[f]] /\ wire' = wire \o t.net
Started == tx @@ [net |-> <<>>]

(* The program begins a message, on a socket that looks open.                 *)
Begin(l) == /\ tx.ended /\ tx.up /\ Len(sent) < MaxMessages
            /\ todo' = Text(Len(sent), l) /\ sent' = Append(sent, todo')
            /\ tx' = [tx EXCEPT !.ended = FALSE, !.op = 2]
            /\ UNCHANGED <<rx, wire, link, got>>

(* A turn of the loop of jbl_stream_push_string into the encoding stream      *)
Push == /\ todo # <<>>
        /\ LET n == Min({Len(todo), BufLength - Len(tx.enc)})
           IN  /\ Does(Encode([Started EXCEPT !.enc = @ \o SubSeq(todo, 1, n)], FALSE))
               /\ todo' = SubSeq(todo, n + 1, Len(todo))
        /\ UNCHANGED <<rx, link, sent, got>>

(* jbl_stream_do of the encoding stream, forced: the last frame of a message  *)
End == /\ todo = <<>> /\ ~tx.ended
       /\ Does([Encode(Started, TRUE) EXCEPT !.ended = TRUE])
       /\ UNCHANGED <<rx, link, sent, got, todo>>

(* jbl_stream_do of the socket stream, forced                                 *)
Flush == /\ tx.ended /\ tx.out # <<>>
         /\ Does(SendOut(Started, TRUE))
         /\ UNCHANGED <<rx, link, sent, got, todo>>
-----------------------------------------------------------------------------
(* Receiver                                                                   *)

(* __jbl_string_stream_operater: what was put behind the text becomes text.   *)
Count(r) == [r EXCEPT !.text = @ \o r.pend, !.pend = <<>>]

(* Bytes into the string stream: masked ones singly, others in pieces, which  *)
(* are counted unless the frame ends with them.                               *)
Store(r, s) ==
  LET one(q, b) == [(IF Len(q.pend) >= Room THEN Count(q) ELSE q) EXCEPT !.pend = Append(@, b)]
      all == FoldLeft(one, r, s)
  IN  IF r.mask \/ r.at + Len(s) = r.len THEN all ELSE Count(all)

(* __jwl_websocket_get_data_start, __jwl_websocket_get_length                 *)
DataStart(s) == (IF s[2] >= 128 THEN 6 ELSE 2)
                + (CASE s[2] % 128 = 126 -> 2 [] s[2] % 128 = 127 -> 8 [] OTHER -> 0)
LengthOf(s) == LET n == IF s[2] % 128 = 126 THEN 2 ELSE 8
               IN  IF s[2] % 128 < 126 THEN s[2] % 128
                   ELSE FoldLeft(LAMBDA v, b : 256 * v + b, 0, SubSeq(s, 3, 2 + n))

NoHead(r) == ~r.inside /\ (Len(r.buf) < 2 \/ DataStart(r.buf) > Len(r.buf))
(* A frame's head leaves the buffer.                                          *)
Entered(r) ==
  IF r.inside THEN r
  ELSE [r EXCEPT !.inside = TRUE, !.fin = r.buf[1] >= 128, !.mask = r.buf[2] >= 128,
                 !.at = 0, !.len = LengthOf(r.buf),
                 !.buf = SubSeq(@, DataStart(r.buf) + 1, Len(@))]
Key0(q) == 0        \* a variant of the next: each reception starts the mask anew
KeyAt(q) == q.at

(* __jwl_websocket_decode_operator, for data frames: all frames in the buffer,*)
(* up to the end of a message, which stops it.                                *)
RECURSIVE Decode(_)
Decode(r) ==
  IF r.stop \/ r.buf = <<>> \/ NoHead(r) THEN r
  ELSE LET q == Entered(r)
           n == Min({Len(q.buf), q.len - q.at})
           s == SubSeq(q.buf, 1, n)
           p == [Store(q, IF q.mask THEN Masked(s, KeyAt(q)) ELSE s)
                   EXCEPT !.buf = SubSeq(q.buf, n + 1, Len(q.buf)), !.at = @ + n]
       IN  CASE p.at < p.len -> p
             [] p.at = p.len /\ p.fin -> Count([p EXCEPT !.inside = FALSE, !.stop = TRUE])
             [] OTHER -> Decode([p EXCEPT !.inside = FALSE])

(* A turn of the loop of __jwl_socket_stream_operater without bytes to send:  *)
(* the decoding stream runs; unless a message is complete, the network gives  *)
(* some of what it has, at most what the decoding stream has room for.        *)
Receive ==
  /\ rx.up /\ ~rx.stop
  /\ LET r == Decode(rx)
     IN  IF r.stop THEN rx' = r /\ UNCHANGED wire
         ELSE \E n \in 1 .. Min({Len(wire), BufLength - Len(r.buf)}) :
                /\ rx' = [r EXCEPT !.buf = @ \o SubSeq(wire, 1, n)]
                /\ wire' = SubSeq(wire, n + 1, Len(wire))
  /\ UNCHANGED <<tx, link, sent, got, todo>>

(* recv fails: the socket is closed.                                          *)
ReceiveFails ==
  /\ rx.up /\ ~rx.stop /\ ~link /\ wire = <<>> /\ ~Decode(rx).stop
  /\ rx' = [Decode(rx) EXCEPT !.up = FALSE]
  /\ UNCHANGED <<tx, wire, link, sent, got, todo>>

(* The program takes the text of a complete message and empties the string.   *)
Take == /\ rx.stop
        /\ got' = Append(got, rx.text)
        /\ rx' = [rx EXCEPT !.stop = FALSE, !.text = <<>>]
        /\ UNCHANGED <<tx, wire, link, sent, todo>>

(* The connection breaks; what is under way may arrive or not.                *)
Break == /\ link /\ link' = FALSE
         /\ wire' \in {wire, <<>>}
         /\ UNCHANGED <<tx, rx, sent, got, todo>>

Next == \/ \E l \in Lengths : Begin(l)
        \/ Push \/ End \/ Flush \/ Receive \/ ReceiveFails \/ Take \/ Break

Spec == Init /\ [][Next]_vars
-----------------------------------------------------------------------------
(* No operator fills a buffer beyond its size, its own or the next one's.     *)
BuffersHold == /\ Len(tx.enc) <= BufLength /\ Len(tx.out) <= SendLength
               /\ Len(rx.buf) <= BufLength /\ Len(rx.pend) <= Room

(* However the network cuts the bytes, and wherever frames and buffers end,   *)
(* the receiver takes the messages sent, whole and in order, or none.         *)
Promised == INSTANCE Messages
ImplementsMessages == Promised!Spec

(* Nothing is stuck in a buffer whose stream waits for more: when the sender  *)
(* has flushed, the network is empty and the receiver can only wait, every    *)
(* message begun was taken, unless the connection broke.                      *)
Quiet == todo = <<>> /\ tx.ended /\ tx.out = <<>> /\ wire = <<>> /\ ~Decode(rx).stop
Delivered == Quiet /\ link => got = sent
=============================================================================
