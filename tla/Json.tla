-------------------------------- MODULE Json --------------------------------
(***************************************************************************)
(* JSON: the encoders of strings, numbers, lists and tables without white  *)
(* space (format 0), and the decoding stream of jbl_json.l, whose scanner  *)
(* (generated by re2c) is resumed where the text broke off.  The stream's  *)
(* buffer ends with a byte 0; the scanner asks for more when fewer bytes   *)
(* than it may look at are left of the buffer, not of the text in it.      *)
(*                                                                         *)
(* A value is <<"is", w>> for null, true and false, <<"num", n>>,          *)
(* <<"real", double>>, <<"str", characters>>, <<"list", values>> or        *)
(* <<"table", pairs>>.                                                     *)
(***************************************************************************)
EXTENDS Numbers

CONSTANT BufLength        \* JBL_JSON_DECODE_STREAM_BUF_LENGTH
ASSUME JsonAssumption == BufLength \in Nat /\ BufLength > 5

None == <<"none">>
Zero == "end"             \* the byte 0
-----------------------------------------------------------------------------
(* Encoders                                                                   *)

Digits == ToSet(Digit)
HexDigits == ToSet(HexDigit)
Decimal(n) == AddInt(n, 0, "0")

Word == [null |-> <<"n", "u", "l", "l">>, true |-> <<"t", "r", "u", "e">>,
         false |-> <<"f", "a", "l", "s", "e">>]
(* The characters with an escape of their own; \1 stands for all others below *)
(* 32, which are written with four digits.                                    *)
Escape == [c \in {"\\", "\"", "\n", "\t"} |->
             CASE c = "\n" -> "n" [] c = "\t" -> "t" [] OTHER -> c]
Quoted(s) ==
  LET one(c) == CASE c \in DOMAIN Escape -> <<"\\", Escape[c]>>
                  [] c = "\\1" -> <<"\\", "u", "0", "0", "0", "1">>
                  [] OTHER -> <<c>>
  IN  <<"\"">> \o FlattenSeq([i \in DOMAIN s |-> one(s[i])]) \o <<"\"">>

Listed(parts) == FlattenSeq([i \in DOMAIN parts |->
                   parts[i] \o IF i < Len(parts) THEN <<",">> ELSE <<>>])
RECURSIVE Text(_)
Text(v) ==
  CASE v[1] = "is" -> Word[v[2]]
    [] v[1] = "num" -> Decimal(v[2])
    [] v[1] = "real" -> AddDouble(v[2], FractionDigits)
    [] v[1] = "str" -> Quoted(v[2])
    [] v[1] = "list" -> <<"[">> \o Listed([i \in DOMAIN v[2] |-> Text(v[2][i])]) \o <<"]">>
    [] v[1] = "table" ->
         <<"{">> \o Listed([i \in DOMAIN v[2] |->
                     Quoted(v[2][i][1]) \o <<":">> \o Text(v[2][i][2])]) \o <<"}">>
-----------------------------------------------------------------------------
(* The decoding stream: yy, the records from the innermost (data) out to the  *)
(* root (extra[0].p); buf; the cursor and what is done with (start).          *)

(* The kind of a root is never set; its value when it is looked at is open.   *)
(* Nor is num, which only a number that begins with its point looks at before *)
(* it is set: the texts that are tried begin with none.  num and double share *)
(* one place (tmp), digits and the exponent another (dl).                     *)
Yy(kind) == [kind |-> kind, state |-> "begin", v |-> None, key |-> None,
             num |-> 0, double |-> <<0, 0>>, neg |-> FALSE, dl |-> 0]
(* torn and stuck are history: a cut has lost a part of the text; a call of   *)
(* jbl_stream_push_chars turns for ever.                                      *)
Fresh == [yy |-> <<Yy("root")>>, buf |-> <<>>, at |-> 0, from |-> 0, cond |-> 0, stop |-> FALSE,
          torn |-> FALSE, stuck |-> FALSE]

Look(d, n) == IF d.at + n < Len(d.buf) THEN d.buf[d.at + n + 1] ELSE Zero
Eat(d, n) == [d EXCEPT !.at = @ + n, !.from = d.at + n]         \* upd
Hold(d, v) == [d EXCEPT !.yy[1].v = v]
Fails(d) == [d EXCEPT !.cond = -2]
Ends(d) == [d EXCEPT !.cond = -1]

TableAdd(t, k, v) ==
  LET i == SelectInSeq(t, LAMBDA p : p[1] = k)
  IN  IF i = 0 THEN Append(t, <<k, v>>) ELSE [t EXCEPT ![i] = <<k, v>>]
(* What is held goes to the list or table it is in.                           *)
HandUp(d) ==
  LET y == d.yy[1]
  IN  CASE y.v = None -> d
        [] y.kind = "list" -> [d EXCEPT !.yy[2].v[2] = Append(@, y.v)]
        [] OTHER -> [d EXCEPT !.yy[2].v[2] = TableAdd(@, y.key, y.v)]
Open(d, v, kind) == LET e == Eat(Hold(d, v), 1)
                    IN  [e EXCEPT !.yy = <<Yy(kind)>> \o @]
Shut(d) == LET e == Eat(HandUp(d), 1) IN [e EXCEPT !.yy = Tail(@)]

Needed(s) == IF s = "start" THEN 5 ELSE 1

(* Goto: on to a state, unless the buffer is too short; Resume: at the state  *)
(* kept.                                                                      *)
RECURSIVE Resume(_)
Goto(d, s) == LET e == [d EXCEPT !.yy[1].state = s]
              IN  IF BufLength - d.at < Needed(s) THEN [e EXCEPT !.from = d.at] ELSE Resume(e)

(* yyc_start.  What is no token stays, and the scanner waits for more of it.  *)
Start(d) ==
  LET y == d.yy[1]
      c == Look(d, 0)
      word == {w \in DOMAIN Word : \A i \in DOMAIN Word[w] : Look(d, i - 1) = Word[w][i]}
  IN  CASE c = Zero -> Ends(d)
        [] c = " " -> Goto(Eat(d, 1), "start")
        [] c = "\"" -> Goto(Eat(Hold(d, <<"str", <<>>>>), 1), "string")
        [] c = "0" /\ Look(d, 1) \in {"x", "X"} ->
             Goto([Eat(Hold(d, None), 2) EXCEPT !.yy[1].num = 0], "hex")
        [] c \in Digits /\ ~(c = "0" /\ Look(d, 1) \in {"x", "X"}) ->
             Goto([Eat(Hold(d, None), 1) EXCEPT !.yy[1].num = ValueOf(c), !.yy[1].neg = FALSE], "num")
        [] c \in {"-", "+"} ->
             Goto([Eat(Hold(d, None), 1) EXCEPT !.yy[1].num = 0, !.yy[1].neg = (c = "-")], "num")
        [] c = "." -> Goto([Eat(Hold(d, None), 1) EXCEPT !.yy[1].neg = FALSE, !.yy[1].dl = 0], "flo")
        [] word # {} ->
             LET w == CHOOSE x \in word : TRUE
             IN  Goto(Eat(Hold(d, <<"is", w>>), Len(Word[w])), "start")
        [] c = "[" -> Resume(Open(d, <<"list", <<>>>>, "list"))
        [] c = "]" -> IF y.kind = "list" THEN Resume(Shut(d)) ELSE Fails(d)
        [] c = "{" -> Resume(Open(d, <<"table", <<>>>>, "key"))
        [] c = "}" -> IF y.kind = "key" \/ (y.kind = "value" /\ y.v # None)
                      THEN Resume(Shut(d)) ELSE Fails(d)
        [] c = ":" -> IF y.kind = "key" /\ y.v[1] = "str"
                      THEN Resume([Eat(Hold(d, None), 1) EXCEPT !.yy[1].key = y.v[2],
                                                                !.yy[1].kind = "value"])
                      ELSE Fails(d)
        [] c = "," -> IF y.kind \in {"list", "value"} /\ y.v # None
                      THEN Goto([Eat(HandUp(d), 1) EXCEPT
                                   !.yy[1].v = None, !.yy[1].key = None,
                                   !.yy[1].kind = IF @ = "value" THEN "key" ELSE @], "start")
                      ELSE Fails(d)
        [] OTHER -> d

Added(d, c) == [d EXCEPT !.yy[1].v[2] = Append(@, c)]
(* yyc_string, yyc_string_turn, yyc_string_u                                  *)
String(d) ==
  LET c == Look(d, 0)
  IN  CASE c = Zero -> Ends(d)
        [] c = "\"" -> Goto(Eat(d, 1), "start")
        [] c = "\\" -> Goto(Eat(d, 1), "turn")
        [] OTHER -> Goto(Eat(Added(d, c), 1), "string")
Turn(d) ==
  LET c == Look(d, 0)
      of == {e \in DOMAIN Escape : Escape[e] = c}
  IN  CASE c = Zero -> Ends(d)
        [] c = "u" -> Goto([Eat(d, 1) EXCEPT !.yy[1].num = 0], "unicode")
        [] of # {} -> Goto(Eat(Added(d, CHOOSE e \in of : TRUE), 1), "string")
        [] OTHER -> Goto(Eat(d, 0), "string")
Hexed(d, c) == [Eat(d, 1) EXCEPT !.yy[1].num = Wrap(16 * @ + ValueOf(c))]
Unicode(d) ==
  LET c == Look(d, 0)
  IN  CASE c = Zero -> d
        [] c \in HexDigits -> Goto(Hexed(d, c), "unicode")
        [] OTHER -> Goto(Eat(Added(d, IF d.yy[1].num = 1 THEN "\\1" ELSE "?"), 0), "string")

(* yyc_hex, yyc_num, yyc_flo and yyc_e.  The "e" behind an integer forgets    *)
(* its sign.                                                                  *)
Hex(d) ==
  LET c == Look(d, 0)
      e == Hold(d, <<"num", d.yy[1].num>>)
  IN  CASE c \in HexDigits -> Goto(Hexed(d, c), "hex")
        [] c = Zero -> Ends(e)
        [] OTHER -> Goto(Eat(e, 0), "start")
Tenfold(d, c) == [Eat(d, 1) EXCEPT !.yy[1].num = Wrap(10 * @ + ValueOf(c))]
Power(d, double) ==
  [Eat(d, 1) EXCEPT !.yy[1].double = double, !.yy[1].neg = FALSE, !.yy[1].dl = 0]
Num(d) ==
  LET c == Look(d, 0)
      e == Hold(d, <<"num", IF d.yy[1].neg THEN Signed(Wrap(-d.yy[1].num)) ELSE d.yy[1].num>>)
  IN  CASE c \in Digits -> Goto(Tenfold(d, c), "num")
        [] c = "." -> Goto([Eat(Hold(d, None), 1) EXCEPT !.yy[1].dl = 0], "flo")
        [] c \in {"e", "E"} -> Goto(Power(Hold(d, None), Double(d.yy[1].num, 0)), "e")
        [] c = Zero -> Ends(e)
        [] OTHER -> Goto(Eat(e, 0), "start")
Flo(d) ==
  LET c == Look(d, 0)
      y == d.yy[1]
      read == Double(IF y.neg THEN -y.num ELSE y.num, -y.dl)
      e == Hold(d, <<"real", read>>)
  IN  CASE c \in Digits -> Goto([Tenfold(d, c) EXCEPT !.yy[1].dl = (@ + 1) % 256], "flo")
        [] c \in {"e", "E"} -> Goto(Power(d, read), "e")
        [] c = Zero -> Ends(e)
        [] OTHER -> Goto(Eat(e, 0), "start")
Exponent(d) ==
  LET c == Look(d, 0)
      y == d.yy[1]
      e == Hold(d, <<"real", Double(y.double[1], y.double[2] + IF y.neg THEN -y.dl ELSE y.dl)>>)
  IN  CASE c \in {"-", "+"} -> Goto([Eat(d, 1) EXCEPT !.yy[1].neg = (c = "-")], "e")
        [] c \in Digits -> Goto([Eat(d, 1) EXCEPT !.yy[1].dl = (10 * @ + ValueOf(c)) % 256], "e")
        [] c = Zero -> Ends(e)
        [] OTHER -> Goto(Eat(e, 0), "start")

Resume(d) == LET s == d.yy[1].state
             IN  CASE s \in {"begin", "start"} -> Start(d)
                   [] s = "string" -> String(d) [] s = "turn" -> Turn(d)
                   [] s = "unicode" -> Unicode(d)
                   [] s = "hex" -> Hex(d) [] s = "num" -> Num(d)
                   [] s = "flo" -> Flo(d) [] s = "e" -> Exponent(d)

(* The scanner begins at the start of the buffer again, with all that its     *)
(* record holds.  A variant keeps the number read so far in a local variable. *)
ScanAnew(d) == Resume([d EXCEPT !.at = 0, !.from = 0, !.cond = 0, !.yy[1].num = 0])
Scan(d) == Resume([d EXCEPT !.at = 0, !.from = 0, !.cond = 0])
(* __jbl_json_decode_stream_operater: an error drops the records (of which    *)
(* only the root is freed), the end of the text stops the stream when no list *)
(* or table is open.                                                          *)
Operate(d) ==
  IF d.stop \/ d.buf = <<>> THEN d
  ELSE LET e == Scan(d)
           rest == [e EXCEPT !.buf = SubSeq(@, e.from + 1, Len(@)), !.at = 0, !.from = 0]
       IN  CASE e.cond = -2 -> [Fresh EXCEPT !.stop = TRUE, !.torn = d.torn]
             [] e.cond = -1 /\ Len(e.yy) = 1 -> [e EXCEPT !.stop = TRUE]
             [] OTHER -> rest

(* What s is the rest of was cut where the scanner loses its place: at the    *)
(* root, where the end of what came counts as the end of the text; or between *)
(* the two characters of 0x.                                                  *)
RootCut(d, s) == d.stop /\ d.cond = -1 /\ \E i \in DOMAIN s : s[i] # " "
HexCut(d, s) == d.yy[1].state = "num" /\ d.yy[1].num = 0 /\ s[1] \in {"x", "X"}
(* jbl_stream_push_chars: without an end when the buffer is full and the      *)
(* scanner neither takes a character nor stops.                               *)
RECURSIVE PushChars(_, _)
PushChars(d, s) ==
  IF s = <<>> \/ d.stop \/ d.stuck THEN [d EXCEPT !.torn = @ \/ RootCut(d, s)]
  ELSE LET n == Min({Len(s), BufLength - Len(d.buf)})
           e == Operate([d EXCEPT !.buf = @ \o SubSeq(s, 1, n), !.torn = @ \/ HexCut(d, s)])
       IN  IF n = 0 /\ e = d THEN [d EXCEPT !.stuck = TRUE] ELSE PushChars(e, SubSeq(s, n + 1, Len(s)))
=============================================================================
