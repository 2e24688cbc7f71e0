-------------------------------- MODULE Dates -------------------------------
(***************************************************************************)
(* Printing a time by a format: jbl_time_to_string_format adds to a string,*)
(* jbl_stream_push_time pushes into a stream.  Each character of the format*)
(* is a key, a "%" that lets the next one stand for itself, or itself.  A  *)
(* word of the tables of names is one character here.  A time is given as  *)
(* days since 1970, seconds of the day and milliseconds.                   *)
(***************************************************************************)
EXTENDS Time, Numbers

(* The scanner's keys, and those of them that the printers pass over          *)
UpperKeys ==
  "A" :> "A" @@ "B" :> "SWATCH" @@ "D" :> "DOW3" @@ "F" :> "M" @@ "G" :> "H12WZ" @@ "H" :> "H24WZ"
  @@ "I" :> "IDST" @@ "L" :> "YILY" @@ "M" :> "M3" @@ "N" :> "DOWN" @@ "O" :> "HTG" @@ "P" :> "DWG"
  @@ "S" :> "DOMS" @@ "T" :> "TZ" @@ "U" :> "S" @@ "W" :> "WOY" @@ "Y" :> "Y" @@ "Z" :> "STG"
LowerKeys ==
  "a" :> "SA" @@ "d" :> "DOMWZ" @@ "e" :> "TZT" @@ "g" :> "H12" @@ "h" :> "H24" @@ "i" :> "MWZ"
  @@ "j" :> "DOM" @@ "l" :> "DOWA" @@ "m" :> "MNWZ" @@ "n" :> "MN" @@ "o" :> "YISO" @@ "s" :> "SWZ"
  @@ "t" :> "TDOM" @@ "u" :> "MSWZ" @@ "w" :> "DOWNF0" @@ "y" :> "Y2" @@ "z" :> "DOY"
Unprinted == {"DOY", "WOY", "YISO", "SWATCH", "IDST", "HTG", "DWG", "TZ", "STG"}
KeyOf(c) ==
  CASE c = "%" -> "ESCAPE"
    [] c \in DOMAIN UpperKeys -> UpperKeys[c]
    [] c \in DOMAIN LowerKeys -> LowerKeys[c]
    [] OTHER -> "UNDEFINED"

Suffix == <<"th", "st", "nd", "rd", "th", "th", "th", "th", "th", "th">>
WeekdayName == <<"Monday", "Tuesday", "Wednesday", "Thursday", "Friday", "Saturday", "Sunday">>
ShortWeekday == <<"Mon", "Tue", "Wed", "Thu", "Fri", "Sat", "Sun">>
MonthName == <<"January", "February", "March", "April", "May", "June", "July", "August",
               "September", "October", "November", "December">>
ShortMonth == <<"Jan", "Feb", "Mar", "Apr", "May", "Jun", "Jul", "Aug", "Sep", "Oct", "Nov", "Dec">>
AmPm == <<<<"am", "AM">>, <<"pm", "PM">>>>

Named(key, t) ==
  CASE key = "DOMS" -> Suffix[(t.day % 10) + 1]
    [] key = "DOW3" -> ShortWeekday[t.week]
    [] key = "DOWA" -> WeekdayName[t.week]
    [] key = "M" -> MonthName[t.month]
    [] key = "M3" -> ShortMonth[t.month]
    [] key = "SA" -> AmPm[(t.hour \div 12) + 1][1]
    [] key = "A" -> AmPm[(t.hour \div 12) + 1][2]
    [] key = "TZT" -> "GMT"
(* A number, and the length it is filled up to (0: it is not)                 *)
Amount(key, t, seconds) ==
  CASE key = "DOM" -> <<t.day, 0>>
    [] key = "DOMWZ" -> <<t.day, 2>>
    [] key = "DOWN" -> <<t.week, 0>>
    [] key = "DOWNF0" -> <<t.week - 1, 0>>
    [] key = "MN" -> <<t.month, 0>>
    [] key = "MNWZ" -> <<t.month, 2>>
    [] key = "TDOM" -> <<t.dom, 0>>
    [] key = "YILY" -> <<t.isleap, 0>>
    [] key = "Y" -> <<t.year, 4>>
    [] key = "Y2" -> <<t.year % 100, 2>>
    [] key = "H12" -> <<t.hour % 12, 0>>
    [] key = "H12WZ" -> <<t.hour % 12, 2>>
    [] key = "H24" -> <<t.hour, 0>>
    [] key = "H24WZ" -> <<t.hour, 2>>
    [] key = "MWZ" -> <<t.minute, 2>>
    [] key = "SWZ" -> <<t.second, 2>>
    [] key = "MSWZ" -> <<t.ms, 2>>
    [] key = "S" -> <<seconds, 0>>
NamedKeys == {"DOMS", "DOW3", "DOWA", "M", "M3", "SA", "A", "TZT"}

(* What is written for a format, to a stream or to a string, which differ in  *)
(* how they write a number.  A "%" at the end writes nothing.                 *)
Printed(t, seconds, format, stream) ==
  LET next(p, c) ==
        IF p.escaped THEN [text |-> Append(p.text, c), escaped |-> FALSE]
        ELSE LET key == KeyOf(c)
             IN  CASE key = "ESCAPE" -> [p EXCEPT !.escaped = TRUE]
                   [] key = "UNDEFINED" -> [p EXCEPT !.text = Append(@, c)]
                   [] key \in Unprinted -> p
                   [] key \in NamedKeys -> [p EXCEPT !.text = Append(@, Named(key, t))]
                   [] OTHER -> LET a == Amount(key, t, seconds)
                               IN  [p EXCEPT !.text = @ \o IF stream THEN PushUint(a[1], a[2], "0")
                                                       ELSE AddUint(a[1], a[2], "0")]
  IN  FoldLeft(next, [text |-> <<>>, escaped |-> FALSE], format).text

TimeString(days, seconds, ms, format) ==
  Printed(DecodeTime(days, seconds, ms), days * 86400 + seconds, format, FALSE)
TimeStream(days, seconds, ms, format) ==
  Printed(DecodeTime(days, seconds, ms), days * 86400 + seconds, format, TRUE)

(* The format of jbl_time_to_string and of JSON                               *)
Usual == <<"Y", "-", "m", "-", "d", " ", "H", ":", "i", ":", "s", " ", "D">>
TimeText(days, seconds, ms) == <<"\"">> \o TimeString(days, seconds, ms, Usual) \o <<"\"">>
=============================================================================
