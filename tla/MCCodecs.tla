------------------------------ MODULE MCCodecs ------------------------------
(* Inputs for TLC: nested values with every kind of scalar and of escape;    *)
(* texts of other programs with white space at up to two places; every text  *)
(* of up to four of nine characters; bytes of every length up to seven; the  *)
(* days of 1970 to 1974 and those around the ends of February 2000, 2100,    *)
(* 2400.                                                                     *)
EXTENDS Codecs
Str(s) == <<"str", s>>
Num_(n) == <<"num", n>>
Real(m, e) == <<"real", <<m, e>>>>
List(s) == <<"list", s>>
Pair(k, v) == <<k, v>>
Scalars == {Num_(0), Num_(-2048), Num_(4095), Str(<<>>), Str(<<"\"", "\n", "}">>),
            Str(<<"\\1", "\\", "\t">>), <<"is", "null">>, <<"is", "false">>,
            Real(0, 0), Real(305, -2), Real(-15, -1)}
Nested == {List(<<>>), List(<<List(<<>>), Num_(12)>>),
           <<"table", <<Pair(<<"x">>, Str(<<"y", "]">>)), Pair(<<"\"">>, <<"is", "true">>)>>>>}
MCValues == {List(<<>>), <<"table", <<>>>>}
            \cup {List(<<a, b>>) : a, b \in Scalars \cup Nested}
            \cup {<<"table", <<Pair(<<>>, a), Pair(<<"x">>, b)>>>> : a \in Nested, b \in Scalars \cup Nested}
(* Tokens with white space before some of them, or behind the last            *)
Spaced(tokens, at) ==
  FlattenSeq([i \in 1 .. Len(tokens) + 1 |-> (IF i \in at THEN <<" ">> ELSE <<>>)
                                              \o (IF i > Len(tokens) THEN <<>> ELSE tokens[i])])
Spacings(tokens, value, places) ==
  {[text |-> Spaced(tokens, {i, j}), value |-> value] : i, j \in places}
Inside(tokens) == 2 .. Len(tokens) + 1
Exponents == <<<<"[">>, <<"-", "1", ".", "5", "e", "1">>, <<",">>, <<"2", "5", "E", "-", "1", "2">>, <<"]">>>>
Keys == <<<<"{">>, <<"\"", "\\", "u", "0", "0", "0", "1", "\\", "/", "\"">>, <<":">>, <<"3", "1">>, <<"}">>>>
Signs == <<<<"[">>, <<"0", ".", "0", "2", "e", "+", "3">>, <<",">>, <<"+", "7">>, <<",">>, <<"7", "E", "0">>, <<"]">>>>
Words == <<<<"[">>, <<"[">>, <<"]">>, <<",">>, Word.null, <<",">>, <<"1", ".">>, <<"]">>>>
MCPlain ==
  Spacings(Exponents, List(<<Real(-15, 0), Real(25, -12)>>), Inside(Exponents))
  \cup Spacings(Keys, <<"table", <<Pair(<<"\\1", "/">>, Num_(31))>>>>, Inside(Keys))
  \cup Spacings(Signs, List(<<Real(2, 1), Num_(7), Real(7, 0)>>), Inside(Signs))
  \cup Spacings(Words, List(<<List(<<>>), <<"is", "null">>, Real(1, 0)>>), Inside(Words))
(* White space in front, more of it than the buffer holds; hexadecimal numbers *)
MCSpaced ==
  Spacings(Exponents, List(<<Real(-15, 0), Real(25, -12)>>), {1, 2})
  \cup {[text |-> Spaced([i \in 1 .. 9 |-> <<" ">>] \o <<<<"[">>, <<"]">>>>, {}), value |-> List(<<>>)]}
MCHex == {[text |-> <<"[", "0", "x", "1", "F", ",", "0", "X", "A", "]">>, value |-> List(<<Num_(31), Num_(10)>>)]}
MCForeign == MCPlain \cup MCSpaced \cup MCHex
MCBadTexts ==
  {<<"[", ",", "]">>, <<"{", "1", ":", "1", "}">>, <<"[", "}">>, <<"{", "]">>, <<"[", "1", ",", ",", "]">>,
   <<"[", "\"", "\"", ":", "1", "]">>, <<"{", "\"", "x", "\"", ":", "}">>,
   <<"{", "\"", "x", "\"", ",", "}">>}
(* Some longer ones keep a call for ever, at the buffer's end                 *)
Signs9 == {"[", "]", "{", "}", ",", ":", "0", "\"", "x"}
MCAnyTexts ==
  (UNION {[1 .. n -> Signs9] : n \in 1 .. 4}) \cup {<<" ">> \o t : t \in UNION {[1 .. n -> Signs9] : n \in 1 .. 2}}
  \cup {<<"[", c>> \o [i \in 1 .. 9 |-> "0"] \o <<"]">> : c \in {"x", "0", "\"", "["}}
MCBytes == {<<>>, <<255>>, <<0, 129>>, <<97, 98, 99>>, <<250, 0, 3, 64>>,
            <<1, 2, 3, 4, 255>>, <<128, 127, 0, 0, 9, 200>>, <<5, 60, 7, 131, 9, 16, 77>>}
(* A permutation of blocks of three hexadecimal digits; bytes around the      *)
(* ends of blocks, with and without what looks like a filling.                *)
Byte == 0 .. 15
MCEncode16(b) == <<(3 * b[2] + 1) % 16, (5 * b[3] + b[2]) % 16, (b[1] + 7) % 16>>
MCDecode16(c) ==
  LET second == CHOOSE x \in Byte : (3 * x + 1) % 16 = c[1]
  IN  <<(c[3] + 9) % 16, second, CHOOSE x \in Byte : (5 * x + second) % 16 = c[2]>>
MCVector == <<15, 6, 9>>
MCSecrets == {<<>>, <<1>>, <<2, 2>>, <<3, 3, 3>>, <<0, 15, 4, 1, 8>>,
              [i \in 1 .. 12 |-> i % 4], [i \in 1 .. 13 |-> 15 - i], [i \in 1 .. 23 |-> (7 * i) % 16]}
(* Characters of one to three bytes, some cut by every length of piece, texts *)
(* that end in ASCII and in a character, and ASCII that fills the sink and    *)
(* more                                                                       *)
Char == [u \in {\h00A4, \h00B7, \h2116, \h4E2D, \h56FD, \hFFE5} |-> C!Utu8(u)]
Ascii(n) == [i \in 1 .. n |-> 96 + i]
MCTexts == {<<>>, Ascii(3), Char[\h4E2D] \o Ascii(6),
            Char[\h00A4] \o Ascii(1) \o Char[\hFFE5] \o Char[\h2116] \o Ascii(7),
            Char[\h56FD] \o Char[\h00B7] \o Char[\h56FD] \o Char[\h4E2D] \o Ascii(2)
              \o Char[\hFFE5] \o Char[\h00A4] \o Ascii(6),
            Char[\h00B7], Ascii(5) \o Char[\h4E2D], Char[\h56FD] \o Char[\h4E2D] \o Char[\h00A4],
            Ascii(4) \o Char[\h2116] \o Ascii(1), Ascii(16), Ascii(17), Ascii(25),
            Char[\h4E2D] \o Char[\h4E2D] \o Ascii(12) \o Char[\h00A4] \o Ascii(6)}
MCDays == 0 .. 1470 \cup 10950 .. 11040 \cup 47470 .. 47560 \cup 157050 .. 157150
(* Requests and responses with every kind of line, bodies of up to 21 bytes   *)
(* with a length or in chunks, one of them of 16 bytes and more; a browser's  *)
(* request with lines the encoder never writes, and a server's answer in      *)
(* chunks whose sizes have three digits.                                      *)
Body(n) == [i \in 1 .. n |-> IF i % 2 = 1 THEN "A" ELSE "\r"]
Asks == [H!Blank EXCEPT !.kind = "request", !.method = "GET", !.protocol = TRUE, !.url = <<"/", "u">>]
Answers == [H!Blank EXCEPT !.kind = "response", !.status = 200]
Message(h, n) == [head |-> [h EXCEPT !.len = n], data |-> Body(n)]
MCOurs ==
  {Message([Asks EXCEPT !.parameter = {<<<<"a">>, <<"1">>>>, <<<<"b">>, <<>>>>}, !.host = <<"h">>,
                        !.ua = <<"u", "/">>, !.etag = <<"e">>, !.start = 12, !.end = 120,
                        !.conn = {"keep-alive", "Upgrade"}, !.tren = {"gzip", "deflate"}], 0),
   Message([Asks EXCEPT !.method = "POST", !.v = {<<<<"X">>, <<"y">>>>}], 11),
   Message([Answers EXCEPT !.tren = {"chunked"}, !.ct = <<"html">>, !.cs = {"UTF-8"}, !.etag = <<"e">>], 0),
   Message([Answers EXCEPT !.tren = {"chunked"}], 3), Message([Answers EXCEPT !.tren = {"chunked"}], 21),
   Message([Answers EXCEPT !.status = 206, !.start = 4, !.end = 9, !.total = 40, !.ct = <<"css">>], 5),
   Message([Answers EXCEPT !.status = 101, !.conn = {"Upgrade"}, !.upgrade = {"websocket"},
                           !.v = {<<<<"Key">>, <<"=", "x">>>>}], 0)}
Browser ==
  H!Lexeme("GET") \o <<" ", "/", "?", "q", "&", "a", "=", "b", " ">> \o H!Lexeme("HTTP/1.1") \o H!EOL
  \o H!LineIf(TRUE, "Accept:", <<"*">>) \o H!LineIf(TRUE, "Referer:", <<"r">>)
  \o H!LineIf(TRUE, "Cookie:", <<"k", "=", "v">> \o H!Lexeme("; ") \o <<"k", "=">>)
  \o <<"X">> \o H!EOL \o H!EOL
Server ==
  H!Lexeme("HTTP/1.1") \o <<" ", "2", "0", "0", " ">> \o H!EOL
  \o H!LineIf(TRUE, "Transfer-Encoding:", H!Lexeme("chunked")) \o H!EOL
  \o <<"0", "0", "2">> \o H!EOL \o Body(2) \o H!EOL \o <<"0", "0", "0">> \o H!EOL \o H!EOL
MCOthers == {[text |-> Browser, data |-> <<>>,
              head |-> [Asks EXCEPT !.url = <<"/">>, !.parameter = {<<<<"a">>, <<"b">>>>},
                                    !.referer = <<"r">>, !.cookie = {<<<<"k">>, <<>>>>}]],
             [text |-> Server, data |-> Body(2),
              head |-> [Answers EXCEPT !.protocol = TRUE, !.tren = {"chunked"}, !.len = 2]]}
=============================================================================
