------------------------------- MODULE Charset ------------------------------
(***************************************************************************)
(* jbl_string_cc.c: UTF-8 and GB 2312, as functions of strings and as two  *)
(* streams, the one that writes GB 2312 connected to the one that reads it *)
(* and this one to a sink.  Bytes and codes are those of the code; of the  *)
(* two sorted tables a few rows, and the row of zeros that ends them.      *)
(***************************************************************************)
EXTENDS Integers, SequencesExt, FiniteSetsExt

CONSTANTS TextLength, CodeLength, SinkLength   \* sizes of the three buffers

UtgTable == <<<<\h00A4, \hA1E8>>, <<\h00B7, \hA1A4>>, <<\h2116, \hA1ED>>, <<\h4E2D, \hD6D0>>,
              <<\h56FD, \hB9FA>>, <<\hFFE5, \hA3A4>>, <<0, 0>>>>
GtuTable == <<<<\hA1A4, \h00B7>>, <<\hA1E8, \h00A4>>, <<\hA1ED, \h2116>>, <<\hA3A4, \hFFE5>>,
              <<\hB9FA, \h56FD>>, <<\hD6D0, \h4E2D>>, <<0, 0>>>>

(* The binary search of both directions: 17 halvings, 0 for what is not there *)
Search(table, c) ==
  LET step(r, n) ==
        LET i == r.li + (r.hi - r.li) \div 2
            row == table[i + 1]
        IN  CASE r.found # <<>> -> r
              [] c = row[1] -> [r EXCEPT !.found = <<row[2]>>]
              [] c > row[1] -> [r EXCEPT !.li = i]
              [] OTHER -> [r EXCEPT !.hi = i]
      end == FoldLeft(step, [li |-> 0, hi |-> Len(table) - 1, found |-> <<>>], [n \in 1 .. 17 |-> n])
  IN  IF end.found = <<>> THEN 0 ELSE end.found[1]
(* A code has 16 bits.                                                        *)
Utg(unicode) == LET c == unicode % 65536 IN IF c < 128 THEN c ELSE Search(UtgTable, c)
Gtu(gb) == IF gb < 128 THEN gb ELSE Search(GtuTable, gb)

(* The length of the UTF-8 of a code (0: none), and the bits above those of   *)
(* the code in a first byte                                                   *)
Utf8Length(u) ==
  CASE u <= \h7F -> 1 [] u \in \h80 .. \h7FF -> 2 [] u \in \h800 .. \hFFFF -> 3
    [] u \in \h10000 .. \h10FFFF -> 4 [] u \in \h200000 .. \h3FFFFFF -> 5
    [] u >= \h4000000 -> 6 [] OTHER -> 0
Lead == <<0, \hC0, \hE0, \hF0, \hF8, \hFC>>
Utu8(u) ==
  LET n == Utf8Length(u)
  IN  [i \in 1 .. n |-> IF i = 1 THEN Lead[n] + u \div 64^(n - 1)
                        ELSE 128 + ((u \div 64^(n - i)) % 64)]
(* The first character of s, of which len bytes may be looked at              *)
U8tu(s, len) ==
  LET n == Max({1} \cup {k \in 2 .. 6 : k <= len /\ s[1] >= Lead[k]})
      top == s[1] % (IF n = 1 THEN 128 ELSE 2^(7 - n))
  IN  [j |-> n, uni |-> FoldLeft(LAMBDA x, b : 64 * x + (b % 64), top, SubSeq(s, 2, n))]

(* A code is written in two bytes, or in one when the high one is 0.          *)
CodeBytes(gb) == IF gb \div 256 # 0 THEN <<gb \div 256, gb % 256>> ELSE <<gb>>

(* The strings.  The length of the whole string is what may be looked at at   *)
(* every place; the text must not end within a character.                     *)
ToGb(s) ==
  LET f[i \in 0 .. Len(s)] ==
        IF i >= Len(s) THEN <<>>
        ELSE LET r == U8tu(SubSeq(s, i + 1, Len(s)), Min({6, Len(s)}))
             IN  CodeBytes(Utg(r.uni)) \o f[i + r.j]
  IN  f[0]
ToUtf8(t) ==
  LET f[i \in 0 .. Len(t)] ==
        IF i >= Len(t) THEN <<>>
        ELSE IF t[i + 1] < 128 \/ i + 1 >= Len(t) THEN <<t[i + 1]>> \o f[i + 1]
        ELSE Utu8(Gtu(256 * t[i + 1] + t[i + 2])) \o f[i + 2]
  IN  f[0]
-----------------------------------------------------------------------------
(* The streams: text and codes that wait in their buffers, what is held in    *)
(* the sink's buffer, and what it has taken; over is history: a byte was      *)
(* written behind the sink's buffer.                                          *)
Empty == [text |-> <<>>, codes |-> <<>>, held |-> <<>>, out |-> <<>>, over |-> FALSE]

Take(p) == [p EXCEPT !.out = @ \o p.held, !.held = <<>>]
(* __jbl_string_gtu8so: ASCII goes on without a look at the room left, and    *)
(* one byte of two stays.                                                     *)
DoRead(p, force) ==
  LET step(q, n) ==
        IF q.codes = <<>> THEN q
        ELSE IF q.codes[1] < 128
             THEN [q EXCEPT !.held = Append(@, q.codes[1]), !.codes = Tail(@),
                            !.over = @ \/ Len(q.held) >= SinkLength]
        ELSE IF Len(q.codes) = 1 THEN q
        ELSE LET r == IF Len(q.held) + 6 >= SinkLength THEN Take(q) ELSE q
             IN  [r EXCEPT !.held = @ \o Utu8(Gtu(256 * q.codes[1] + q.codes[2])),
                           !.codes = SubSeq(@, 3, Len(@))]
      end == FoldLeft(step, p, p.codes)
  IN  IF force THEN Take(end) ELSE end
(* __jbl_string_u8tgso: six bytes wait for more; when forced they go on as    *)
(* they are.                                                                  *)
DoWrite(p, force) ==
  LET room(q, n) == IF Len(q.codes) + n > CodeLength THEN DoRead(q, FALSE) ELSE q
      step(q, n) ==
        IF Len(q.text) <= 6 THEN q
        ELSE LET u == U8tu(q.text, 6)
                 r == room(q, 2)
             IN  [r EXCEPT !.codes = @ \o CodeBytes(Utg(u.uni)), !.text = SubSeq(@, u.j + 1, Len(@))]
      converted == FoldLeft(step, p, p.text)
      plain(q, b) == LET r == room(q, 1) IN [r EXCEPT !.codes = Append(@, b)]
  IN  IF force THEN DoRead([FoldLeft(plain, converted, converted.text) EXCEPT !.text = <<>>], TRUE)
      ELSE converted

PushText(p, s) ==
  LET push(q, c) == LET r == [q EXCEPT !.text = Append(@, c)]
                    IN  IF Len(r.text) >= TextLength THEN DoWrite(r, FALSE) ELSE r
  IN  FoldLeft(push, p, s)
=============================================================================
