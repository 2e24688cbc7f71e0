------------------------------- MODULE Codecs -------------------------------
(***************************************************************************)
(* What is written is read back: values through the JSON encoders and the  *)
(* decoding stream, bytes through the streams of base64, of AES and of the *)
(* character sets, all in pieces of any length, HTTP messages through an   *)
(* encoding and a decoding stream with a connection between them; numbers  *)
(* through the printers and readers; and dates.  Where a cut or a text is  *)
(* one that the code gets wrong, the streams note it (torn, stuck, over),  *)
(* and the properties say what holds otherwise.                            *)
(***************************************************************************)
EXTENDS Json, Base64, Dates

CONSTANTS Values,      \* JSON values, lists or tables at the top
          Foreign,     \* JSON texts of other programs, with the value meant
          BadTexts,    \* JSON texts with a bracket, a comma or a colon out of place
          AnyTexts,    \* any texts
          Bytes,       \* sequences of bytes
          Secrets,     \* sequences of bytes to encrypt, below Radix
          Radix, Block, Encode16(_), Decode16(_), PlainLength, CipherLength, Vector,
          Texts,       \* UTF-8 of characters in the tables
          TextLength, CodeLength,
          SinkLength,
          Days,        \* days since 1970
          HttpLength, SocketLength,
          Kepts,       \* how much of a head may still wait in the socket's buffer
          TornMost,    \* a reader that lost its place is followed up to this many times (bound)
          Ours,        \* HTTP messages the encoder writes: a head and the bytes of a body
          Others,      \* ... that another program wrote: the text, too
          Pieces       \* lengths of the pieces that callers push and the network delivers
ASSUME CodecsAssumption ==
  /\ HttpLength \in Nat /\ HttpLength > 6 /\ TornMost \in Nat
  /\ Kepts \subseteq 0 .. SocketLength \div 2 /\ SocketLength >= 34  \* or Room is not positive
  /\ Block \in Nat \ {0} /\ Block < Radix /\ Vector \in [1 .. Block -> 0 .. Radix - 1]
  /\ CipherLength % Block = 0 /\ CipherLength >= 2 * Block /\ SinkLength > 2 * Block /\ PlainLength > 0
  /\ \A b \in [1 .. Block -> 0 .. Radix - 1] :
       Encode16(b) \in [1 .. Block -> 0 .. Radix - 1] /\ Decode16(Encode16(b)) = b
  /\ TextLength > 6 /\ CodeLength > 2 /\ SinkLength > 6
H == INSTANCE Http
A == INSTANCE Aes
C == INSTANCE Charset

VARIABLES job,     \* what is to be done, chosen at the start
          left,    \* of the text or the bytes, not yet pushed
          json,    \* the JSON stream
          coder,   \* the two streams of base64, AES or the character sets
          sender,  \* the stream that encodes HTTP, with what is on its way
          reader,  \* the stream that decodes it
          ended    \* the last call has been made
http == <<sender, reader>>
vars == <<job, left, json, coder, http, ended>>

Jobs == [kind : {"value"}, of : Values] \cup [kind : {"bad"}, of : BadTexts]
        \cup [kind : {"any"}, of : AnyTexts]
        \cup [kind : {"foreign"}, of : Foreign] \cup [kind : {"bytes"}, of : Bytes] \cup [kind : {"ecb", "cbc"}, of : Secrets]
        \cup [kind : {"text"}, of : Texts] \cup [kind : {"day"}, of : Days]
        \cup [kind : {"number"}, of : Numbers]
        \cup [kind : {"ours"}, of : Ours] \cup [kind : {"others"}, of : Others]
Jsons == {"value", "foreign", "bad", "any"}
Coders == {"bytes", "ecb", "cbc", "text"}
Init ==
  /\ job \in Jobs
  /\ left = CASE job.kind = "value" -> Text(job.of)
              [] job.kind = "foreign" -> job.of.text
              [] job.kind \in {"bad", "any"} \cup Coders -> job.of
              [] job.kind = "ours" -> job.of.data
              [] OTHER -> <<>>
  /\ json = Fresh /\ reader = H!NoneRead
  /\ coder = CASE job.kind \in {"ecb", "cbc"} -> A!Empty
               [] job.kind = "text" -> C!Empty
               [] OTHER -> Empty
  /\ sender = IF job.kind = "others" THEN [H!NoneSent EXCEPT !.wire = job.of.text] ELSE H!NoneSent
  /\ ended = (job.kind \in {"day", "number", "others"})

Piece(n) == Min({n, Len(left)})
PushJson(n) ==
  /\ job.kind \in Jsons /\ left # <<>> /\ ~json.stuck
  /\ json' = PushChars(json, SubSeq(left, 1, n))
  /\ left' = SubSeq(left, n + 1, Len(left))
  /\ UNCHANGED <<job, coder, http, ended>>
(* The caller asks the stream to do what it can before it takes the value.    *)
EndJson ==
  /\ job.kind \in Jsons /\ left = <<>> /\ ~ended /\ ~json.stuck
  /\ json' = Operate(json) /\ ended' = TRUE
  /\ UNCHANGED <<job, left, coder, http>>

Pushed(p, s) ==
  CASE job.kind = "bytes" -> PushBytes(p, s)
    [] job.kind = "text" -> C!PushText(p, s)
    [] OTHER -> A!PushPlain(p, job.kind, s)
Done(p, force) ==
  CASE job.kind = "bytes" -> DoEncode(p, force)
    [] job.kind = "text" -> C!DoWrite(p, force)
    [] OTHER -> A!DoEncode(p, job.kind, force)
(* Behind the buffer lies what the memory holds: no call is looked at then.   *)
Overran == job.kind = "text" /\ coder.over
PushCoder(n) ==
  /\ job.kind \in Coders /\ left # <<>> /\ ~Overran
  /\ \/ coder' = Pushed(coder, SubSeq(left, 1, n))
     \/ coder' = Done(Pushed(coder, SubSeq(left, 1, n)), FALSE)
  /\ left' = SubSeq(left, n + 1, Len(left))
  /\ UNCHANGED <<job, json, http, ended>>
EndCoder ==
  /\ job.kind \in Coders /\ left = <<>> /\ ~ended /\ ~Overran
  /\ coder' = Done(coder, TRUE) /\ ended' = TRUE
  /\ UNCHANGED <<job, left, json, http>>

PushHttp(n) ==
  /\ job.kind = "ours" /\ left # <<>>
  /\ \E kept \in Kepts : sender' = H!PushBody(sender, job.of.head, SubSeq(left, 1, n), kept)
  /\ left' = SubSeq(left, n + 1, Len(left))
  /\ UNCHANGED <<job, json, coder, reader, ended>>
(* The caller forces the encoding stream, then the socket stream.             *)
EndHttp ==
  /\ job.kind = "ours" /\ left = <<>> /\ ~ended /\ ended' = TRUE
  /\ \E kept \in Kepts : sender' = H!Flush(H!Send(sender, job.of.head, TRUE, kept))
  /\ UNCHANGED <<job, left, json, coder, reader>>
(* The connection breaks the text off anywhere.                               *)
Arrived(n) == Min({n, Len(sender.wire), HttpLength - Len(reader.buf)})
Deliver(n) ==
  /\ job.kind \in {"ours", "others"} /\ ~reader.stop /\ ~reader.error
  /\ n > 0 /\ reader.torn <= TornMost
  /\ reader' = H!Arrives(reader, SubSeq(sender.wire, 1, n))
  /\ sender' = [sender EXCEPT !.wire = SubSeq(@, n + 1, Len(@))]
  /\ UNCHANGED <<job, left, json, coder, ended>>

Next == EndJson \/ EndCoder \/ EndHttp
        \/ \E n \in Pieces : PushJson(Piece(n)) \/ PushCoder(Piece(n)) \/ PushHttp(Piece(n))
                             \/ Deliver(Arrived(n))
Spec == Init /\ [][Next]_vars
-----------------------------------------------------------------------------
(* jbl_json_decode_stream_var: a text that encodes a list or a table gives    *)
(* that value however it is cut into pieces.  So does a text of another       *)
(* program, with white space, exponents and escapes, unless it begins with    *)
(* white space or has a 0x in it and is cut there (torn).  One with a         *)
(* bracket, a comma or a colon out of place stops the stream and gives        *)
(* nothing.  Any text at all, wrong or unfinished, gives what it gives in one *)
(* piece, unless it is torn; only one that is wrong can keep a call for ever. *)
Outcome(d) == [value |-> Last(d.yy).v, refused |-> d.stop /\ d.cond # -1, stuck |-> d.stuck]
InOnePiece(text) == Operate(PushChars(Fresh, text))
HasHex(text) == \E i \in 2 .. Len(text) : text[i] \in {"x", "X"}
JsonRight ==
  /\ job.kind = "value" => ~json.torn /\ (ended => Outcome(json).value = job.of)
  /\ job.kind = "foreign" =>
       /\ ended /\ ~json.torn => Outcome(json).value = job.of.value
       /\ json.torn => job.of.text[1] = " " \/ HasHex(job.of.text)
  /\ ended /\ job.kind = "bad" => Outcome(json) = [value |-> None, refused |-> TRUE, stuck |-> FALSE]
  /\ job.kind = "any" /\ (ended \/ json.stuck) /\ ~json.torn => Outcome(json) = Outcome(InOnePiece(job.of))
  /\ json.stuck => job.kind = "any"
(* What a text of another program means is what it gives, wherever it begins  *)
(* and is cut: jbl_json.l:70-72 tell the end (-1) from more input (-3).  Not   *)
(* if a cut falls behind white space before the value.                        *)
ForeignRead == ended /\ job.kind = "foreign" => Outcome(json).value = job.of.value
(* A call that pushes characters into the JSON stream returns: jbl_json.l:71  *)
(* has an answer, -2, for a text that cannot go on.  Not if no rule knows the *)
(* next character.                                                            *)
PushReturns == ~json.stuck

(* jbl_base64.c, jbl_aes.c and jbl_string_cc.c: what a string is encoded to   *)
(* is decoded to the string, and bytes that go through both streams come out  *)
(* in order, all of them at the end; nothing is written behind a buffer.  A   *)
(* text that goes through the streams of the character sets must have no      *)
(* character of several bytes begin in its last six; and the sink's buffer is *)
(* overrun only by five ASCII characters and more in a row.                   *)
EndsPlain(s) == \A i \in DOMAIN s : i > Len(s) - 6 => s[i] < 192
LongRun(s) == \E i \in 0 .. Len(s) - 5 : \A k \in 1 .. 5 : s[i + k] < 128
ThereAndBack(s) ==
  CASE job.kind = "bytes" -> Decode(Encode(s))
    [] job.kind = "ecb" -> A!EcbDecode(A!EcbEncode(s))
    [] job.kind = "cbc" -> A!CbcDecode(A!CbcEncode(s))
    [] job.kind = "text" -> C!ToUtf8(C!ToGb(s))
BytesRight ==
  job.kind \in Coders =>
    /\ ThereAndBack(job.of) = job.of
    /\ ~Overran /\ (ended /\ job.kind = "text" => EndsPlain(job.of)) =>
         IsPrefix(coder.out, job.of) /\ (ended => coder.out = job.of)
    /\ job.kind \in {"ecb", "cbc"} => Len(coder.held) <= SinkLength /\ Len(coder.cipher) <= CipherLength
    /\ job.kind = "text" => Len(coder.text) <= TextLength /\ Len(coder.codes) <= CodeLength
    /\ Overran => LongRun(job.of)
(* The two streams of jbl_string_cc.h:35-36, one behind the other, give a     *)
(* text back, whatever character it ends with.  Not if that one is longer     *)
(* than a byte.                                                               *)
TextBack == ended /\ job.kind = "text" => coder.out = job.of
(* The stream to UTF-8 (jbl_string_cc.h:36) writes nothing behind the buffer  *)
(* of the stream it is connected to.  Not with five ASCII characters in a row.*)
SinkHolds == ~Overran

(* Unless a cut fell inside a word of the head or the head of a chunk (torn): *)
(* A head that was encoded is decoded to what was written of it; a body,      *)
(* whatever pieces the room in the socket's buffer made of it, comes out in   *)
(* order, and whole when the reader stops; a body that is there ends with one *)
(* forced call of the next stream; the reader always has room for more, and   *)
(* stops when all that was sent has arrived.  The scanner knows "Etag" and    *)
(* not the "ETag" that the encoder writes.                                    *)
Written(head, data) ==
  LET ask == head.kind = "request"
      read == [head EXCEPT !.cache = {"no-cache"}, !.protocol = IF ask THEN @ ELSE TRUE,
                           !.len = IF H!Chunked(head) THEN Len(data) ELSE @]
  IN  IF ask THEN read
      ELSE [read EXCEPT !.etag = <<>>,
              !.v = @ \cup {<<<<"Accept-Ranges">>, <<"bytes">>>>}
                     \cup IF head.etag = <<>> THEN {} ELSE {<<<<"ETag">>, head.etag>>}]
Https == {"ours", "others"}
Meant == IF job.kind = "others" THEN job.of.head ELSE Written(job.of.head, job.of.data)
HttpRight ==
  job.kind \in Https /\ reader.torn = 0 =>
    /\ ~reader.error /\ IsPrefix(reader.out, job.of.data)
    /\ ~reader.stop => Len(reader.buf) < HttpLength
    /\ reader.stop => /\ reader.out = job.of.data /\ reader.h = Meant
                      /\ reader.forced = IF job.of.data # <<>> \/ H!Chunked(job.of.head) THEN 1 ELSE 0
    /\ ended /\ sender.wire = <<>> => reader.stop

(* The head that is read is the head that was sent, wherever it was cut:      *)
(* jwl_http.c:3525 goes on with the head while it is not finished.  Not if it *)
(* is cut inside a word.                                                      *)
HeadsRead == job.kind \in Https /\ reader.stop => reader.h = Meant
(* The reader takes no byte of a message that is right for an error, wherever *)
(* it was cut (jwl_http.c:3544, "read the head of a chunk").  Not if too      *)
(* little of that head has come.                                              *)
ChunksRead == job.kind \in Https => ~reader.error

(* jbl_string_get_int_start and the others read what the printers wrote, and  *)
(* stop behind it; a stream is given the same characters as a string.  This   *)
(* holds for doubles, too, but for the negative ones above -1, whose sign a   *)
(* string does not get, and for exponents that are not negative.              *)
Surrounded(s) == <<"x">> \o s \o <<":">>
NumbersRight ==
  job.kind = "number" =>
    LET n == job.of
        i == Signed(n)
        after(s) == Len(s) + 1
        u == AddUint(n, 4, "0")
        d == AddInt(i, 3, "0")
        h == AddHexByte(n % 256) \o AddHexByte(n \div 16)
        v == Double(IF i <= -10^FractionDigits THEN i ELSE n, -FractionDigits)
        r == AddDouble(v, FractionDigits)
    IN  /\ GetUint(Surrounded(u), 0, ":") = [x |-> n, next |-> after(u)]
        /\ GetUint(<<":">> \o u, 0, ":") = [x |-> 0, next |-> 0]
        /\ GetInt(Surrounded(d), 0) = [x |-> i, next |-> after(d)]
        /\ GetInt(<<"-">> \o Surrounded(u), 0).x = i
        /\ PushInt(i) = AddInt(i, 0, "0")
        /\ PushDouble(v) = r /\ GetDouble(Surrounded(r), 0) = [x |-> v, next |-> after(r)]
        /\ GetNumber(Surrounded(r), 0) = [x |-> <<"real", v>>, next |-> after(r)]
        /\ GetNumber(Surrounded(d), 0) = [x |-> <<"num", i>>, next |-> after(d)]
        /\ GetNumber(r \o <<"e", "3">>, 0).x = <<"real", Double(v[1], v[2] + 3)>>
        /\ n \in HexNumbers => GetHex(Surrounded(AddHex(n)), 0).x = n
        /\ GetHexLen(h, 0, 2).x = n % 256 /\ GetHexLen(h, 2, 2).x = (n \div 16) % 256

(* jbl_time_decode gives the date of the proleptic Gregorian calendar: the    *)
(* days before it, by a closed formula, are those asked for, the day is one   *)
(* of its month's, and the weekday counts on from Thursday, 1970-01-01.       *)
(* Nothing is said of dom in December and of isleap on the 1st of January.    *)
(* The numbers read back from a time printed by a format are the fields of    *)
(* its date, from the string and from the stream, which does not fill zeros   *)
(* up; what JSON prints of a time decodes to the string printed.              *)
DaysBefore(y, m, d) ==
  LET yy == IF m <= 2 THEN y - 1 ELSE y
      mm == (m + 9) % 12
  IN  365 * yy + yy \div 4 - yy \div 100 + yy \div 400 + ((153 * mm + 2) \div 5) + d - 1 - 719468
Length(y, m) == DaysBefore(IF m = 12 THEN y + 1 ELSE y, (m % 12) + 1, 1) - DaysBefore(y, m, 1)
NumbersIn(text, k) ==
  LET read(r, i) == LET g == GetUintAny(text, r.next) IN [xs |-> Append(r.xs, g.x), next |-> g.next]
  IN  FoldLeft(read, [xs |-> <<>>, next |-> 0], [i \in 1 .. k |-> i]).xs
Numeric == <<"y", "/", "n", "/", "j", " ", "g", "A", " ", "h", " ", "l", "N", " ", "w", " ", "L", " ", "t",
             "S", " ", "u", "%", "Y", "z", "%">>
PrintsBack(days, seconds, ms) ==
  LET t == DecodeTime(days, seconds, ms)
      back(print(_, _, _, _), format, k) == NumbersIn(print(days, seconds, ms, format), k)
      usual == <<t.year, t.month, t.day, t.hour, t.minute, t.second>>
      numeric == <<t.year % 100, t.month, t.day, t.hour % 12, t.hour, t.week, t.week - 1, t.isleap, t.dom, ms>>
  IN  /\ back(TimeString, Usual, 6) = usual /\ back(TimeStream, Usual, 6) = usual
      /\ back(TimeString, Numeric, 10) = numeric /\ back(TimeStream, Numeric, 10) = numeric
      /\ days < 20000 => back(TimeStream, <<"U">>, 1) = <<Wrap(days * 86400 + seconds)>>
      /\ PushChars(Fresh, <<"[">> \o TimeText(days, seconds, ms) \o <<"]">>).yy[1].v =
           <<"list", <<<<"str", TimeString(days, seconds, ms, Usual)>>>>>>
CalendarRight ==
  job.kind = "day" => PrintsBack(job.of, 86399 * (job.of % 2), 7) /\
    \A seconds \in {0, 1, 57599, 57600, 86399} :
      LET t == DecodeTime(job.of, seconds, 7)
          all == seconds + Shift
          day == job.of + all \div 86400
      IN  /\ t.month \in 1 .. 12 /\ DaysBefore(t.year, t.month, t.day) = day
          /\ t.day \in 1 .. Length(t.year, t.month)
          /\ t.week = ((day + 3) % 7) + 1
          /\ 3600 * t.hour + 60 * t.minute + t.second = all % 86400
          /\ t.hour < 24 /\ t.minute < 60 /\ t.second < 60 /\ t.ms = 7
          /\ t.month < 12 => t.dom = Length(t.year, t.month)
          /\ ~(t.month = 1 /\ t.day = 1) =>
               t.isleap = (DaysBefore(t.year + 1, 1, 1) - DaysBefore(t.year, 1, 1)) - 365
=============================================================================
