-------------------------------- MODULE Http --------------------------------
(***************************************************************************)
(* HTTP messages: the encoder of heads and the encoding stream, which cuts *)
(* the body into chunks when there is no length; the decoding stream with  *)
(* the scanner of heads (jwl_http.l, generated by re2c, resumed where the  *)
(* text broke off).  A word that the scanner knows is two units of text,   *)
(* so that a text can break off inside it; a break there, or inside the    *)
(* head of a chunk, is read wrongly by the code: the reader counts them    *)
(* (torn).                                                                 *)
(***************************************************************************)
EXTENDS Numbers, TLC

CONSTANTS HttpLength,     \* JWL_HTTP_STREAM_BUF_LENGTH, of both streams
          SocketLength    \* JWL_SOCKET_STREAM_BUF_LENGTH, of the stream behind the encoder

EndOfText == "end"        \* the byte 0
Lexeme(w) == <<"<" \o w, w \o ">">>
EOL == Lexeme("\r\n")

Blank == [kind |-> "none", method |-> "", status |-> 0, protocol |-> FALSE,
          url |-> <<>>, parameter |-> {}, conn |-> {}, tren |-> {}, upgrade |-> {}, cache |-> {},
          start |-> 0, end |-> 0, total |-> 0, etag |-> <<>>, host |-> <<>>, ua |-> <<>>,
          referer |-> <<>>, ct |-> <<>>, cs |-> {}, len |-> 0, cookie |-> {}, v |-> {},
          k |-> <<>>, w |-> <<>>]
Chunked(h) == "chunked" \in h.tren
-----------------------------------------------------------------------------
(* jwl_http_head_encode; CONNECT, max-age and file names are left out.        *)

Number(n) == AddUint(n, 0, "0")
Joined(parts, sep) == FlattenSeq([i \in DOMAIN parts |-> (IF i > 1 THEN sep ELSE <<>>) \o parts[i]])
LineIf(c, w, s) == IF c THEN Lexeme(w) \o s \o EOL ELSE <<>>
Names(set) == Joined([i \in 1 .. Cardinality(set) |-> Lexeme(SetToSeq(set)[i])], Lexeme(", "))
Pairs(pairs, between, sep) ==
  LET s == SetToSeq(pairs)
  IN  Joined([i \in DOMAIN s |-> s[i][1] \o between \o s[i][2]], sep)
Span(h) == Number(h.start) \o <<"-">> \o Number(IF h.end = 0 THEN 0 ELSE h.end - 1)

StatusLine(h) == Lexeme("HTTP/1.1") \o <<" ">> \o Number(h.status) \o <<" ", "reason">>
RequestLine(h) ==
  (IF h.method = "" THEN <<>> ELSE Lexeme(h.method) \o <<" ">>)
  \o (IF h.url = <<>> THEN <<"/">> ELSE h.url)
  \o (IF h.parameter = {} THEN <<>> ELSE <<"?">> \o Pairs(h.parameter, <<"=">>, <<"&">>))
  \o (IF h.protocol THEN <<" ">> \o Lexeme("HTTP/1.1") ELSE <<>>)
HeadText(h) ==
  LET ask == h.kind = "request"
  IN  (IF ask THEN RequestLine(h) ELSE StatusLine(h)) \o EOL
      \o LineIf(TRUE, "Pragma:", Lexeme("no-cache")) \o LineIf(TRUE, "Cache-Control:", Lexeme("no-cache"))
      \o LineIf(h.conn # {}, "Connection:", Names(h.conn))
      \o LineIf(h.conn = {"Upgrade"} /\ h.upgrade # {}, "Upgrade:", Names(h.upgrade))
      \o (IF h.etag # <<>> /\ ~ask THEN <<"ETag">> \o LineIf(TRUE, ": ", h.etag) ELSE <<>>)
      \o LineIf(h.etag # <<>> /\ ask, "If-None-Match:", h.etag)
      \o LineIf(h.ct # <<>>, "Content-Type:",
                h.ct \o IF h.cs = {} THEN <<>> ELSE Lexeme(";charset=") \o Names(h.cs))
      \o LineIf(~Chunked(h), "Content-Length:", Number(h.len))
      \o LineIf(~Chunked(h) /\ h.status = 206 /\ ~ask, "Content-Range:bytes",
                <<" ">> \o Span(h) \o <<"/">> \o Number(h.total))
      \o LineIf(ask /\ h.start + h.end > 0, "Range:bytes=", Span(h))
      \o LineIf(h.tren # {}, IF ask THEN "Accept-Encoding:" ELSE "Transfer-Encoding:", Names(h.tren))
      \o LineIf(h.host # <<>> /\ ask, "Host:", h.host)
      \o LineIf(h.ua # <<>> /\ ask, "User-Agent:", h.ua)
      \o LineIf(~ask, "Server:", <<"server">>)
      \o (IF ask THEN <<>> ELSE <<"Accept-Ranges">> \o LineIf(TRUE, ": ", <<"bytes">>))
      \o Pairs(h.v, Lexeme(": "), EOL) \o (IF h.v = {} THEN <<>> ELSE EOL) \o EOL
-----------------------------------------------------------------------------
(* __jwl_http_head_decode: one operator per condition of the scanner gives    *)
(* the head and the next condition; t is a word or a character.               *)

To(h, c) == [h |-> h, c |-> c]
Forgets(h) == [h EXCEPT !.k = <<>>, !.w = <<>>]
Inserts(h, f) == Forgets([h EXCEPT ![f] = {p \in @ : p[1] # h.k} \cup {<<h.k, h.w>>}])
Key(h, t, c) == To([h EXCEPT !.k = Append(@, t)], c)
Val(h, t, c) == To([h EXCEPT !.w = Append(@, t)], c)

Start(h, t) ==
  CASE t = "HTTP/1.1" -> To([h EXCEPT !.protocol = TRUE, !.kind = "response"], "starts")
    [] t \in {"GET", "POST"} -> To([h EXCEPT !.method = t, !.kind = "request"], "start")
    [] t = " " -> To([h EXCEPT !.url = <<>>], "url")
    [] OTHER -> To(h, "starts")
Starts(h, t) == To([h EXCEPT !.status = 0], "status")
Url(h, t) ==
  CASE t = " " -> To(h, "protocol")
    [] t = "?" -> To([h EXCEPT !.k = <<>>], "parameter")
    [] OTHER -> To([h EXCEPT !.url = Append(@, t)], "url")
Parameter(h, t) ==
  CASE t = " " -> To(Forgets(h), "protocol")
    [] t = "&" -> To(Forgets(h), "parameter")
    [] t = "=" -> To([h EXCEPT !.w = <<>>], "parameterv")
    [] OTHER -> Key(h, t, "parameter")
ParameterV(h, t) ==
  CASE t = " " -> To(Inserts(h, "parameter"), "protocol")
    [] t = "&" -> To(Inserts(h, "parameter"), "parameter")
    [] OTHER -> Val(h, t, "parameterv")
Protocol(h, t) ==
  IF t = "\r\n" THEN To(h, "body") ELSE To([h EXCEPT !.protocol = TRUE], "protocol")

(* The condition of a line; for texts and numbers, the field is set back.     *)
LineOf ==
  "Host:" :> "host" @@ "User-Agent:" :> "ua" @@ "Referer:" :> "referer" @@ "Etag:" :> "etag"
  @@ "If-None-Match:" :> "etag" @@ "Connection:" :> "conn" @@ "Accept-Encoding:" :> "tren"
  @@ "Transfer-Encoding:" :> "tren" @@ "Upgrade:" :> "upgrade" @@ "Range:bytes=" :> "range_s"
  @@ "Content-Range:bytes" :> "range_s" @@ "Cache-Control:" :> "cache" @@ "Pragma:" :> "cache"
  @@ "Content-Type:" :> "ct" @@ "Content-Length:" :> "cl" @@ "Cookie:" :> "cookie"
  @@ "Server:" :> "ignored" @@ "Accept:" :> "ignored" @@ "Accept-Language:" :> "ignored"
Body(h, t) ==
  CASE t = "\r\n" -> To(h, "done")
    [] t \in DOMAIN LineOf ->
         LET c == LineOf[t]
         IN  To(CASE c \in {"host", "ua", "referer", "etag"} -> [h EXCEPT ![c] = <<>>]
                  [] c = "range_s" -> [h EXCEPT !.start = 0]
                  [] c = "cl" -> [h EXCEPT !.len = 0]
                  [] c \in {"ct", "cookie"} -> [h EXCEPT !.k = <<>>]
                  [] OTHER -> h, c)
    [] OTHER -> To([h EXCEPT !.k = <<t>>], "special_key")
TextLine(h, f, t) ==
  IF t = "\r\n" THEN To(h, "body") ELSE To([h EXCEPT ![f] = Append(@, t)], f)
(* A line that only known words count in                                      *)
Choice(h, f, words, t) ==
  CASE t = "\r\n" -> To(h, "body")
    [] t \in words -> To([h EXCEPT ![f] = @ \cup {t}], f)
    [] OTHER -> To(h, f)
Connections == {"keep-alive", "close", "Upgrade"}
Conn(h, t) == Choice(h, "conn", Connections, t)
Codings == {"chunked", "compress", "deflate", "gzip", "identity"}
Tren(h, t) == Choice(h, "tren", Codings, t)
Upgrade(h, t) == Choice(h, "upgrade", {"websocket"}, t)
Cache(h, t) == Choice(h, "cache", {"no-cache"}, t)
Cs(h, t) == Choice(h, "cs", {"UTF-8"}, t)
Counted(h, f, t, c) ==
  To(IF t \in ToSet(Digit) THEN [h EXCEPT ![f] = Wrap(10 * @ + ValueOf(t))] ELSE h, c)
NumberLine(h, f, t, c) == IF t = "\r\n" THEN To(h, "body") ELSE Counted(h, f, t, c)
Status(h, t) == NumberLine(h, "status", t, "status")
Cl(h, t) == NumberLine(h, "len", t, "cl")
RangeS(h, t) ==
  IF t = "-" THEN To([h EXCEPT !.end = 0], "range_e") ELSE NumberLine(h, "start", t, "range_s")
Closes(h) == [h EXCEPT !.end = IF @ = 0 THEN 0 ELSE @ + 1]
RangeE(h, t) ==
  CASE t = "\r\n" -> To(Closes(h), "body")
    [] t = "/" -> To([h EXCEPT !.total = 0], "range_t")
    [] OTHER -> Counted(h, "end", t, "range_e")
RangeT(h, t) == IF t = "\r\n" THEN To(Closes(h), "body") ELSE Counted(h, "total", t, "range_t")
Ct(h, t) ==
  IF t \in {"\r\n", ";charset="}
  THEN To([h EXCEPT !.ct = h.k, !.k = <<>>], IF t = "\r\n" THEN "body" ELSE "cs")
  ELSE Key(h, t, "ct")
Cookie(h, t) ==
  CASE t = "\r\n" -> To([h EXCEPT !.k = <<>>], "body")
    [] t = "=" -> To([h EXCEPT !.w = <<>>], "cookiev")
    [] OTHER -> Key(h, t, "cookie")
CookieV(h, t) ==
  CASE t = "\r\n" -> To(Inserts(h, "cookie"), "body")
    [] t = "; " -> To(Inserts(h, "cookie"), "cookie")
    [] OTHER -> Val(h, t, "cookiev")
SpecialKey(h, t) ==
  CASE t = "\r\n" -> To(Forgets(h), "body")
    [] t = ": " -> To([h EXCEPT !.w = <<>>], "special_var")
    [] OTHER -> Key(h, t, "special_key")
SpecialVar(h, t) ==
  IF t = "\r\n" THEN To(Inserts(h, "v"), "body") ELSE Val(h, t, "special_var")
Ign(h, t) == To(h, IF t = "\r\n" THEN "body" ELSE "ignored")

Rule(c, h, t) ==
  CASE c = "start" -> Start(h, t) [] c = "starts" -> Starts(h, t) [] c = "status" -> Status(h, t)
    [] c = "url" -> Url(h, t) [] c = "parameter" -> Parameter(h, t) [] c = "parameterv" -> ParameterV(h, t)
    [] c = "protocol" -> Protocol(h, t) [] c = "body" -> Body(h, t) [] c = "conn" -> Conn(h, t)
    [] c = "tren" -> Tren(h, t) [] c = "upgrade" -> Upgrade(h, t) [] c = "cache" -> Cache(h, t)
    [] c = "cs" -> Cs(h, t) [] c = "cl" -> Cl(h, t) [] c = "range_s" -> RangeS(h, t)
    [] c = "range_e" -> RangeE(h, t) [] c = "range_t" -> RangeT(h, t) [] c = "ct" -> Ct(h, t)
    [] c = "cookie" -> Cookie(h, t) [] c = "cookiev" -> CookieV(h, t) [] c = "special_key" -> SpecialKey(h, t)
    [] c = "special_var" -> SpecialVar(h, t) [] c = "ignored" -> Ign(h, t) [] OTHER -> TextLine(h, c, t)
Words(c) ==
  CASE c = "start" -> {"POST", "GET", "HTTP/1.1"}
    [] c \in {"starts", "url", "parameter", "parameterv", "done"} -> {}
    [] c = "protocol" -> {"HTTP/1.1", "\r\n"}
    [] OTHER -> {"\r\n"} \cup
         CASE c = "body" -> DOMAIN LineOf [] c = "conn" -> Connections \cup {", "}
           [] c = "tren" -> Codings \cup {", "} [] c = "upgrade" -> {"websocket"}
           [] c = "cache" -> {"no-cache"} [] c = "cs" -> {"UTF-8"} [] c = "ct" -> {";charset="}
           [] c = "special_key" -> {": "} [] c = "cookiev" -> {"; "} [] OTHER -> {}
(* No rule is there for any other character.                                  *)
NoRule(c, t) == c = "done" \/ (c = "starts" /\ t # " ") \/ (c = "protocol" /\ t \notin Words(c))

(* The scanner asks for more when fewer units than it may look at are left of *)
(* the buffer (not of the text in it), and returns at the byte 0 behind that. *)
RECURSIVE ScanHead(_, _, _)
ScanHead(r, s, at) ==
  LET c == r.c
      words == {w \in Words(c) : at + 2 <= Len(s) /\ SubSeq(s, at + 1, at + 2) = Lexeme(w)}
      t == IF at = Len(s) THEN EndOfText
           ELSE IF words = {} THEN s[at + 1] ELSE CHOOSE w \in words : TRUE
  IN  IF \/ HttpLength - at < (IF Words(c) = {} THEN 1 ELSE 2)
         \/ t = EndOfText \/ NoRule(c, t)
      THEN [r |-> r, at |-> at]
      ELSE ScanHead(Rule(c, r.h, t), s, at + IF words = {} THEN 1 ELSE 2)
-----------------------------------------------------------------------------
(* __jwl_http_encode_stream_operater: held is what waits in the socket        *)
(* stream's buffer, wire what that stream sent.                               *)

NoneSent == [buf |-> <<>>, begun |-> FALSE, count |-> 0, stop |-> FALSE, held |-> <<>>, wire |-> <<>>]
Flush(t) == [t EXCEPT !.wire = @ \o t.held, !.held = <<>>]
(* jbl_stream_do of the socket stream, not forced                             *)
Passes(t) == IF Len(t.held) > SocketLength \div 2 THEN Flush(t) ELSE t
(* The head is pushed in many pieces; how many units of it wait when the last *)
(* of them has been passed on, up to half a buffer, is left open (kept).  The *)
(* two ends of line behind that are pushed as single characters.              *)
PushHead(t, h, kept) ==
  LET text == HeadText(h)
      n == Min({Len(text), kept + Len(EOL \o EOL)})
  IN  [t EXCEPT !.begun = TRUE, !.wire = @ \o SubSeq(text, 1, Len(text) - n),
                !.held = SubSeq(text, Len(text) - n + 1, Len(text))]
(* A piece is as long as the socket's buffer has room, less what the frame of *)
(* a chunk takes: the size with up to eight digits and two ends of line.      *)
Frame == 8 + Len(EOL \o EOL)
Room(t, h) == SocketLength - Len(t.held) - (IF Chunked(h) THEN Frame ELSE 0)
RECURSIVE PushParts(_, _)
PushParts(t, h) ==
  LET n == Min({Len(t.buf), Room(t, h)})
      data == SubSeq(t.buf, 1, n)
      part == IF Chunked(h) THEN AddHex(n) \o EOL \o data \o EOL ELSE data
  IN  IF t.buf = <<>> \/ (~Chunked(h) /\ t.count = h.len) THEN t
      ELSE PushParts(Passes([t EXCEPT !.buf = SubSeq(@, n + 1, Len(@)), !.held = @ \o part,
                                      !.count = @ + n]), h)
Send(t, h, force, kept) ==
  LET p == PushParts(IF t.begun THEN t ELSE PushHead(t, h, kept), h)
      last == IF Chunked(h) THEN <<"0">> \o EOL \o EOL ELSE <<>>
  IN  CASE t.stop \/ ~(force \/ Len(t.buf) > HttpLength \div 2) -> t
        [] ~t.stop /\ (IF Chunked(h) THEN force ELSE p.count = h.len) ->
             Passes([p EXCEPT !.held = @ \o last, !.stop = TRUE, !.begun = FALSE, !.count = 0])
        [] OTHER -> p
RECURSIVE PushBody(_, _, _, _)
PushBody(t, h, s, kept) ==
  IF s = <<>> \/ t.stop THEN t
  ELSE LET n == Min({Len(s), HttpLength - Len(t.buf)})
       IN  PushBody(Send([t EXCEPT !.buf = @ \o SubSeq(s, 1, n)], h, FALSE, kept), h,
                    SubSeq(s, n + 1, Len(s)), kept)
-----------------------------------------------------------------------------
(* __jwl_http_decode_stream_operater: inBody is extra[0].c8[0]; more, that an *)
(* end of line comes before the next chunk's head, c8[1]; rest, extra[1].u.   *)
(* torn, which is history, counts the cuts at which the code lost its place.  *)

NoneRead == [h |-> Blank, c |-> "start", buf |-> <<>>, inBody |-> FALSE, more |-> FALSE, rest |-> 0,
             stop |-> FALSE, error |-> FALSE, out |-> <<>>, forced |-> 0, torn |-> 0]
Drop(d, n) == [d EXCEPT !.buf = SubSeq(@, n + 1, Len(@))]
Tears(d, cut) == IF cut THEN [d EXCEPT !.torn = @ + 1] ELSE d
(* When the end of line is not there the code looks at what an earlier text   *)
(* left behind the buffer's end: an error here, though it may pass for one.   *)
SkipEOL(d) ==
  IF Len(d.buf) >= 2 /\ SubSeq(d.buf, 1, 2) = EOL THEN Drop(d, 2)
  ELSE [Tears(d, Len(d.buf) < 2) EXCEPT !.error = TRUE]
Ends(d) == [d EXCEPT !.stop = TRUE, !.inBody = FALSE, !.forced = @ + 1]

RECURSIVE Copies(_)
(* What of the buffer belongs to the body; a variant takes everything.        *)
TakenAll(d) == Len(d.buf)
Taken(d) == IF Chunked(d.h) THEN Min({Len(d.buf), d.rest}) ELSE Len(d.buf)
(* The head of a chunk: the end of line before it, the size, what comes then. *)
ChunkBegins(d) ==
  CASE d.error -> d [] ~d.error /\ d.rest = 0 -> Ends(d) [] OTHER -> Copies(d)
ChunkSize(d, size) ==
  [SkipEOL(Drop(d, size.next)) EXCEPT !.rest = size.x, !.h.len = Wrap(@ + size.x)]
(* With three units and fewer it waits for more; an end of line taken before  *)
(* will be asked for again.                                                   *)
ChunkLine(d) ==
  IF d.error \/ Len(d.buf) <= 3 THEN Tears(d, ~d.error /\ d.more)
  ELSE ChunkBegins(ChunkSize(d, GetHex(d.buf, 0)))
ChunkHead(d) ==
  IF Len(d.buf) <= 2 THEN d ELSE ChunkLine(IF d.more THEN SkipEOL(d) ELSE d)
Copied(d) ==
  CASE d.rest > 0 -> d
    [] d.rest = 0 /\ Chunked(d.h) -> ChunkHead([d EXCEPT !.more = TRUE])
    [] OTHER -> Ends(d)
Copies(d) ==
  LET n == Taken(d)
  IN  IF d.buf = <<>> THEN d
      ELSE Copied([Drop(d, n) EXCEPT !.out = @ \o SubSeq(d.buf, 1, n), !.rest = Wrap(@ - n)])
ReadBody(d) ==
  LET atChunk == Chunked(d.h) /\ d.rest = 0
  IN  CASE ~d.inBody \/ d.buf = <<>> -> d
        [] d.inBody /\ d.buf # <<>> /\ atChunk -> ChunkHead(d)
        [] OTHER -> Copies([d EXCEPT !.rest = IF @ = 0 THEN d.h.len ELSE @])
(* A text that broke off behind the first half of a word: the scanner met the *)
(* byte 0 inside it and took the half for other characters.                   *)
Halves == {Lexeme(w)[1] : w \in UNION {Words(c) : c \in {"start", "body", "conn", "tren", "upgrade",
                                                          "cache", "cs", "ct", "special_key", "cookiev"}}}
Halved(d, s) == d.buf # <<>> /\ s.at = Len(d.buf) /\ Last(d.buf) \in Halves
ReadHead(d, s) == Drop([Tears(d, Halved(d, s)) EXCEPT !.h = s.r.h, !.c = s.r.c], s.at)
HeadEnds(d) ==
  CASE d.c # "done" -> d
    [] d.c = "done" /\ Chunked(d.h) -> [d EXCEPT !.inBody = TRUE, !.more = FALSE, !.h.len = 0]
    [] d.c = "done" /\ ~Chunked(d.h) /\ d.h.len = 0 -> [d EXCEPT !.stop = TRUE, !.buf = <<>>]
    [] OTHER -> [d EXCEPT !.inBody = TRUE, !.more = FALSE]
Read(d) ==
  IF d.stop \/ d.error THEN d
  ELSE ReadBody(IF d.inBody THEN d ELSE HeadEnds(ReadHead(d, ScanHead(To(d.h, d.c), d.buf, 0))))
(* One call of the socket stream puts the next n units into the buffer.       *)
Arrives(d, s) == Read([d EXCEPT !.buf = @ \o s])
=============================================================================
