-------------------------------- MODULE Time --------------------------------
(***************************************************************************)
(* jbl_time_decode: a time in milliseconds since 1970 as a date, for times *)
(* after 1970 began.  The number is given as days, seconds of the day and  *)
(* milliseconds, which the code takes it apart to.                         *)
(***************************************************************************)
EXTENDS Integers, Sequences

CONSTANT Shift        \* seconds that the time zone is ahead: 8 * 3600 or 0
ASSUME TimeAssumption == Shift \in 0 .. 86399

LeapYear(y) == IF y % 400 = 0 THEN 1 ELSE IF y % 100 = 0 THEN 0 ELSE IF y % 4 = 0 THEN 1 ELSE 0
DayOfMonth(m, y) ==
  IF m = 2 THEN 28 + LeapYear(y)
  ELSE <<31, 28, 31, 30, 31, 30, 31, 31, 30, 31, 30, 31>>[m]
Weekday(d, m, y) ==
  LET mm == IF m <= 2 THEN m + 12 ELSE m
      yy == IF m <= 2 THEN y - 1 ELSE y
  IN  ((d + 2 * mm + ((3 * (mm + 1)) \div 5) + yy + yy \div 4 - yy \div 100 + yy \div 400) % 7) + 1

(* The two tests "days >= dayTmp"; a variant stays a day too long.            *)
TooLong(days, len) == days > len
Beyond(days, len) == days >= len
(* Years and months go by while the days last; dom is the last length looked  *)
(* at, isleap the last year's.                                                *)
Years[y \in Nat, days \in Nat, leap \in Nat] ==
  IF days > 0 /\ Beyond(days, 365 + LeapYear(y)) THEN Years[y + 1, days - 365 - LeapYear(y), LeapYear(y)]
  ELSE [year |-> y, days |-> days, isleap |-> IF days > 0 THEN LeapYear(y) ELSE leap]
Months[m \in Nat, y \in Nat, days \in Nat, dom \in Nat] ==
  IF m < 12 /\ Beyond(days, DayOfMonth(m, y))
  THEN Months[m + 1, y, days - DayOfMonth(m, y), DayOfMonth(m, y)]
  ELSE [month |-> m, days |-> days, dom |-> IF m < 12 THEN DayOfMonth(m, y) ELSE dom]

DecodeTime(days, seconds, ms) ==
  LET s == seconds + Shift
      secs == s % 86400
      y == Years[1970, days + s \div 86400, 0]
      m == Months[1, y.year, y.days, 0]
  IN  [ms |-> ms, year |-> y.year, month |-> m.month, day |-> m.days + 1,
       hour |-> secs \div 3600, minute |-> (secs % 3600) \div 60, second |-> secs % 60,
       week |-> Weekday(m.days + 1, m.month, y.year), dom |-> m.dom, isleap |-> y.isleap]
=============================================================================
