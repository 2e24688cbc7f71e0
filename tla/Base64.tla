------------------------------- MODULE Base64 -------------------------------
(***************************************************************************)
(* jbl_base64.c: the coders of strings, and the encoding stream connected  *)
(* to the decoding one.  A byte is a number below 256, a character of the  *)
(* text the number below 64 that it stands for, or Padding.                *)
(***************************************************************************)
EXTENDS Integers, SequencesExt

CONSTANTS EncodeLength, DecodeLength    \* sizes of the buffers of the two streams
ASSUME Base64Assumption == /\ EncodeLength \in Nat /\ EncodeLength >= 3
                           /\ DecodeLength \in Nat /\ DecodeLength > 4
Padding == 64

Four(a, b, c) ==
  <<a \div 4, (a % 4) * 16 + b \div 16, (b % 16) * 4 + c \div 64, c % 64>>
(* The last one or two bytes                                                  *)
Ending(s) ==
  CASE Len(s) = 0 -> <<>>
    [] Len(s) = 1 -> <<s[1] \div 4, (s[1] % 4) * 16, Padding, Padding>>
    [] Len(s) = 2 -> <<s[1] \div 4, (s[1] % 4) * 16 + s[2] \div 16, (s[2] % 16) * 4, Padding>>
Groups(s) == [g \in 1 .. Len(s) \div 3 |-> Four(s[3 * g - 2], s[3 * g - 1], s[3 * g])]
Behind(s) == SubSeq(s, 3 * (Len(s) \div 3) + 1, Len(s))

(* jbl_base64_encode                                                          *)
Encode(s) == FlattenSeq(Groups(s)) \o Ending(Behind(s))

(* What the i-th character of a text (from 0 on) completes                    *)
ByteAt(t, i) ==
  CASE i % 4 = 1 -> t[i] * 4 + t[i + 1] \div 16
    [] i % 4 = 2 -> (t[i] % 16) * 16 + t[i + 1] \div 4
    [] i % 4 = 3 -> (t[i] % 4) * 64 + t[i + 1]
BytesOf(t, where) ==
  LET at == SelectSeq([i \in DOMAIN t |-> i - 1], LAMBDA i : i \in where /\ i % 4 # 0)
  IN  [k \in DOMAIN at |-> ByteAt(t, at[k])]

(* jbl_base64_decode: the index stays at the first padding.                   *)
Decode(t) ==
  LET at == SelectInSeq(t, LAMBDA c : c = Padding)
      n == IF at = 0 THEN Len(t) ELSE at - 1
  IN  IF n < Len(t) /\ n % 4 = 1 /\ (n + 2 > Len(t) \/ t[n + 2] # Padding) THEN <<>>
      ELSE BytesOf(t, 0 .. n - 1)
-----------------------------------------------------------------------------
(* The streams: bytes not yet encoded, characters not yet decoded, bytes      *)
(* handed on.  A stream counts characters from the start of its buffer, and   *)
(* keeps none of them.                                                        *)
Empty == [bytes |-> <<>>, text |-> <<>>, out |-> <<>>, stop |-> FALSE]

(* __jbl_base64_sdo                                                           *)
DoDecode(p) ==
  [p EXCEPT !.out = @ \o BytesOf(p.text, {i \in 0 .. Len(p.text) - 1 : p.text[i + 1] # Padding}),
            !.text = <<>>]
(* Room for a group; a group exactly as long as the room left does not fit.   *)
Roomy(p, needed) == IF Len(p.text) + needed >= DecodeLength THEN DoDecode(p) ELSE p
(* __jbl_base64_seo; a variant forgets the bytes of a group that has begun.   *)
NothingBehind(s) == <<>>
Kept(s) == Behind(s)
DoEncode(p, force) ==
  LET put(q, g) == LET r == Roomy(q, 4) IN [r EXCEPT !.text = @ \o g]
      q == [FoldLeft(put, p, Groups(p.bytes)) EXCEPT !.bytes = Kept(@)]
      last == IF q.bytes = <<>> THEN q
              ELSE [Roomy(q, 3) EXCEPT !.text = @ \o Ending(q.bytes), !.bytes = <<>>]
  IN  IF p.stop THEN p
      ELSE IF force THEN [DoDecode(last) EXCEPT !.stop = TRUE] ELSE q

(* jbl_stream_push_char, again and again                                      *)
PushBytes(p, s) ==
  LET push(q, c) == LET r == [q EXCEPT !.bytes = Append(@, c)]
                    IN  IF Len(r.bytes) >= EncodeLength THEN DoEncode(r, FALSE) ELSE r
  IN  FoldLeft(push, p, s)
=============================================================================
