------------------------------ MODULE Numbers ------------------------------
(***************************************************************************)
(* Numbers as text: jbl_string_add_int_length, _add_uint_length, _add_hex  *)
(* and _add_hex_8bits, their counterparts that push into a stream, and the *)
(* readers jbl_string_get_int_start, _get_uint_start_end, _get_hex_start   *)
(* and _get_hex_start_len.  A number has Width bits (64 in the code).      *)
(* jbl_string_add_double and jbl_stream_push_double, and the readers       *)
(* jbl_string_get_double_start and _get_number_start, work on doubles,     *)
(* which are decimal fractions here: what a double rounds is left out.     *)
(* The readers are defined for texts that hold a digit at or after the     *)
(* place where they start: the code reads behind the others.               *)
(***************************************************************************)
EXTENDS Integers, SequencesExt, FiniteSetsExt

CONSTANTS Width,
          FractionDigits   \* 5: the digits that are printed of a fraction
ASSUME NumbersAssumption == /\ Width \in Nat /\ Width > 4 /\ Width % 4 = 0
                            /\ FractionDigits \in Nat \ {0}

Numbers == 0 .. 2^Width - 1
SignedNumbers == -(2^(Width - 1)) .. 2^(Width - 1) - 1
Wrap(x) == x % 2^Width
Signed(x) == IF x < 2^(Width - 1) THEN x ELSE x - 2^Width

HexDigit == <<"0", "1", "2", "3", "4", "5", "6", "7", "8", "9", "A", "B", "C", "D", "E", "F">>
Digit == SubSeq(HexDigit, 1, 10)
ValueOf(c) == SelectInSeq(HexDigit, LAMBDA d : d = c) - 1
-----------------------------------------------------------------------------
(* Writing                                                                    *)

DigitsOf[n \in Nat] ==
  IF n = 0 THEN <<>> ELSE Append(DigitsOf[n \div 10], Digit[(n % 10) + 1])
Fill(len, c) == [i \in 1 .. Max({0, len}) |-> c]
Pad(s, len, c) == Fill(len - Len(s), c) \o s
AddUint(n, len, c) == Pad(IF n = 0 THEN <<"0">> ELSE DigitsOf[n], len, c)
(* The least number of all is its own opposite, and right as an unsigned one. *)
AddInt(n, len, c) ==
  IF n < 0 THEN <<"-">> \o AddUint(Wrap(-n), len, c) ELSE AddUint(n, len, c)
(* A stream gets a zero without the filling.                                  *)
PushUint(n, len, c) == IF n = 0 THEN <<"0">> ELSE Pad(DigitsOf[n], len, c)
PushInt(n) == IF n < 0 THEN <<"-">> \o PushUint(Wrap(-n), 0, "0") ELSE PushUint(n, 0, "0")

(* Defined below 2^(Width - 4): for more, the code shifts by Width bits.      *)
HexNumbers == 0 .. 2^(Width - 4) - 1
AddHex(n) ==
  LET least == Min({k \in 1 .. Width \div 4 : n \div 16^k = 0})
  IN  [i \in 1 .. least |-> HexDigit[((n \div 16^(least - i)) % 16) + 1]]
AddHexByte(n) == <<HexDigit[((n \div 16) % 16) + 1], HexDigit[(n % 16) + 1]>>
(* The double m * 10^e, as <<m, e>> with the least m.                         *)
Double(m, e) ==
  LET len == Len(DigitsOf[Max({m, -m})])
      zeros == Max({k \in 0 .. Max({0, len - 1}) : m % 10^k = 0})
  IN  IF m = 0 THEN <<0, 0>> ELSE <<m \div 10^zeros, e + zeros>>
(* Its absolute value in units of 10^-k, cut off                              *)
Units(v, k) == LET m == Max({v[1], -v[1]})
               IN  IF v[2] + k >= 0 THEN m * 10^(v[2] + k) ELSE m \div 10^(-(v[2] + k))
(* A string gets the sign of the integral part, a stream that of the number;  *)
(* one works with a digit more than it writes, the other does not.            *)
AddDouble(v, len) ==
  LET units == Units(v, len + 1)
      whole == units \div 10^(len + 1)
      t == units % 10^(len + 1)
  IN  AddInt(IF v[1] < 0 THEN -whole ELSE whole, 0, "0") \o <<".">>
      \o IF t = 0 THEN <<"0">> ELSE SubSeq(Pad(DigitsOf[t], len + 1, "0"), 1, len)
PushDouble(v) ==
  LET units == Units(v, FractionDigits)
      t == units % 10^FractionDigits
  IN  (IF v[1] < 0 THEN <<"-">> ELSE <<>>) \o PushUint(units \div 10^FractionDigits, 0, "0")
      \o <<".">> \o IF t = 0 THEN <<"0">> ELSE Pad(DigitsOf[t], FractionDigits, "0")
-----------------------------------------------------------------------------
(* Reading, from the place start on: the number, and the place behind it.     *)

FirstOf(s, set, start) == Min({i \in (start + 1) .. Len(s) : s[i] \in set})
LastOf(s, set, first) ==
  Max({i \in first .. Len(s) : \A j \in first .. i : s[j] \in set})
Value(s, base) == FoldLeft(LAMBDA x, c : Wrap(base * x + ValueOf(c)), 0, s)
(* At most len digits                                                         *)
Get(s, start, set, base, len) ==
  LET first == FirstOf(s, set, start)
      last == Min({LastOf(s, set, first), first + len - 1})
  IN  [x |-> Value(SubSeq(s, first, last), base), next |-> last, first |-> first]
GetUintAny(s, start) == Get(s, start, ToSet(Digit), 10, Len(s))
(* Reading stops with nothing where "end" comes first.                        *)
GetUint(s, start, end) ==
  IF end \in ToSet(SubSeq(s, start + 1, FirstOf(s, ToSet(Digit), start)))
  THEN [x |-> 0, next |-> start] ELSE [x |-> GetUintAny(s, start).x, next |-> GetUintAny(s, start).next]
(* A variant takes any sign before the number.                                *)
SignAnywhere(s, start, first) == "-" \in ToSet(SubSeq(s, start + 1, first - 1))
SignOf(s, start, first) == first > start + 1 /\ s[first - 1] = "-"
GetInt(s, start) ==
  LET r == GetUintAny(s, start)
  IN  [x |-> Signed(IF SignOf(s, start, r.first) THEN Wrap(-r.x) ELSE r.x), next |-> r.next]
(* The digits behind a point, as they continue the number before them         *)
Follows(s, at, c) == at < Len(s) /\ s[at + 1] = c
WithFraction(s, r) ==
  LET y == GetUintAny(s, r.next + 1)
      k == y.next - (r.next + 1)
  IN  IF Follows(s, r.next, ".") THEN [m |-> r.x * 10^k + y.x, e |-> -k, next |-> y.next]
                                 ELSE [m |-> r.x, e |-> 0, next |-> r.next]
GetDouble(s, start) ==
  LET r == GetUintAny(s, start)
      q == WithFraction(s, r)
  IN  [x |-> Double(IF SignOf(s, start, r.first) THEN -q.m ELSE q.m, q.e), next |-> q.next]
(* <<"num", integer>> or <<"real", double>>; a sign of the exponent is        *)
(* skipped.                                                                   *)
GetNumber(s, start) ==
  LET r == GetUintAny(s, start)
      q == WithFraction(s, r)
      m == IF SignOf(s, start, r.first) THEN -q.m ELSE q.m
      power == GetUintAny(s, q.next)
  IN  IF Follows(s, q.next, "e")
      THEN [x |-> <<"real", Double(m, q.e + power.x)>>, next |-> power.next]
      ELSE IF Follows(s, r.next, ".") THEN [x |-> <<"real", Double(m, q.e)>>, next |-> q.next]
      ELSE [x |-> <<"num", GetInt(s, start).x>>, next |-> r.next]
GetHex(s, start) == Get(s, start, ToSet(HexDigit), 16, Len(s))
GetHexLen(s, start, len) == Get(s, start, ToSet(HexDigit), 16, len)
=============================================================================
