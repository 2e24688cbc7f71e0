--------------------------------- MODULE Aes --------------------------------
(***************************************************************************)
(* jbl_aes.c: AES in the modes ECB and CBC, of strings and as an encoding  *)
(* stream connected to a decoding one and this one to a sink.  The coders  *)
(* of one block are constants (16 bytes in the code, where a processor's   *)
(* instructions or jbl_aes_soft.c compute them).                           *)
(***************************************************************************)
EXTENDS Integers, SequencesExt, Bitwise

CONSTANTS Block,              \* bytes of a block
          Encode16(_), Decode16(_),
          PlainLength, CipherLength, SinkLength,  \* sizes of the three buffers
          Vector              \* what the first block of CBC is mixed with

Mixed(a, b) == [i \in 1 .. Block |-> a[i] ^^ b[i]]
Blocks(s) == [k \in 1 .. Len(s) \div Block |-> SubSeq(s, Block * (k - 1) + 1, Block * k)]
Rest(s) == SubSeq(s, Block * (Len(s) \div Block) + 1, Len(s))
(* The last block: what is left, filled up with the number of bytes filled.   *)
Filled(s) == s \o [i \in 1 .. Block - Len(s) |-> Block - Len(s)]
Stripped(s) == SubSeq(s, 1, Len(s) - s[Len(s)])

(* Strings                                                                    *)
EcbEncode(s) == FlattenSeq([k \in DOMAIN Blocks(s) |-> Encode16(Blocks(s)[k])]) \o Encode16(Filled(Rest(s)))
EcbDecode(t) == Stripped(FlattenSeq([k \in DOMAIN Blocks(t) |-> Decode16(Blocks(t)[k])]))
CbcEncode(s) ==
  LET next(r, b) == LET c == Encode16(Mixed(b, r.vi)) IN [vi |-> c, text |-> r.text \o c]
  IN  FoldLeft(next, [vi |-> Vector, text |-> <<>>], Append(Blocks(s), Filled(Rest(s)))).text
CbcDecode(t) ==
  LET next(r, c) == [vi |-> c, text |-> r.text \o Mixed(Decode16(c), r.vi)]
  IN  Stripped(FoldLeft(next, [vi |-> Vector, text |-> <<>>], Blocks(t)).text)
-----------------------------------------------------------------------------
(* The streams: bytes that wait in the three buffers, what the sink has taken,*)
(* and what the next block is mixed with.  The encoder keeps the place of its *)
(* last block in the next stream's buffer (vii) until it flushes that.        *)
Empty == [plain |-> <<>>, cipher |-> <<>>, held |-> <<>>, out |-> <<>>,
          vi |-> Vector, place |-> 0, back |-> Vector, stop |-> FALSE]
Take(p) == [p EXCEPT !.out = @ \o p.held, !.held = <<>>]

(* __jbl_aes_128_ecb_sdo                                                      *)
EcbGet(p, c) ==
  LET r == IF Len(p.held) + Block > SinkLength THEN Take(p) ELSE p
  IN  [r EXCEPT !.held = @ \o Decode16(c)]
(* __jbl_aes_128_cbc_sdo.  A call that finds no whole block takes the bytes   *)
(* before the buffer for the last block: no value here.                       *)
CbcGet(p, c) ==
  LET r == IF Len(p.held) + Block >= SinkLength THEN Take(p) ELSE p
  IN  [r EXCEPT !.held = @ \o Mixed(Decode16(c), r.back), !.back = c]
Lost == <<>>
(* The last block stays in the sink's buffer until the end is known.          *)
DoDecode(p, mode, force) ==
  LET get(q, c) == IF mode = "cbc" THEN CbcGet(q, c) ELSE EcbGet(q, c)
      all == Blocks(p.cipher)
      end == [FoldLeft(get, p, all) EXCEPT !.cipher = Rest(@), !.back = IF all = <<>> THEN Lost ELSE @]
  IN  IF force THEN Take([end EXCEPT !.held = Stripped(@)]) ELSE end

LastBlock(p) == IF p.place = 0 THEN p.vi ELSE SubSeq(p.cipher, p.place - Block + 1, p.place)
(* The backup before the next stream's buffer is flushed                      *)
BackedUp(p) == [p EXCEPT !.vi = LastBlock(p), !.place = 0]

(* __jbl_aes_128_ecb_seo                                                      *)
EcbPut(p, b) ==
  LET r == IF Len(p.cipher) + Block >= CipherLength THEN DoDecode(p, "ecb", FALSE) ELSE p
  IN  [r EXCEPT !.cipher = @ \o Encode16(b)]
(* __jbl_aes_128_cbc_seo                                                      *)
CbcPut(p, b) ==
  LET q == [p EXCEPT !.cipher = @ \o Encode16(Mixed(b, LastBlock(p))), !.place = Len(p.cipher) + Block]
  IN  IF Len(q.cipher) + Block >= CipherLength THEN DoDecode(BackedUp(q), "cbc", FALSE) ELSE q
CbcPutLast(p, b) ==
  LET r == IF Len(p.cipher) + Block > CipherLength THEN DoDecode(BackedUp(p), "cbc", FALSE) ELSE p
  IN  [r EXCEPT !.cipher = @ \o Encode16(Mixed(b, LastBlock(r)))]

DoEncode(p, mode, force) ==
  LET put(q, b) == IF mode = "cbc" THEN CbcPut(q, b) ELSE EcbPut(q, b)
      last(q, b) == IF mode = "cbc" THEN CbcPutLast(q, b) ELSE EcbPut(q, b)
      q == [FoldLeft(put, p, Blocks(p.plain)) EXCEPT !.plain = Rest(@)]
  IN  CASE p.stop -> p
        [] ~p.stop /\ force ->
             DoDecode([last(q, Filled(q.plain)) EXCEPT !.plain = <<>>, !.stop = TRUE], mode, TRUE)
        [] OTHER -> q

PushPlain(p, mode, s) ==
  LET push(q, c) == LET r == [q EXCEPT !.plain = Append(@, c)]
                    IN  IF Len(r.plain) >= PlainLength THEN DoEncode(r, mode, FALSE) ELSE r
  IN  FoldLeft(push, p, s)
=============================================================================
