----------------------------- MODULE BoostText ------------------------------
(***************************************************************************)
(* What the page reads out of a boost's amount and time: parseNumerology   *)
(* of webroot/script/helipad.js, prettyDate and dateFormat of utils.js.     *)
(***************************************************************************)
EXTENDS Integers, SequencesExt

CONSTANTS
  Today,   \* the day the page is looked at, from 1 January 1970
  Now      \* the time of that day

(* The page is looked at between 1980 and 2099. *)
ASSUME ClockAssumption ==
  /\ Today \in Nat /\ 3653 <= Today /\ Today <= 47481
  /\ Now \in Nat /\ Now < 2 * 86400

(* An amount as text; a digit that was matched becomes X. *)
X == 10

Digits(n) ==
  LET left[k \in 0 .. n + 1] == IF k = 0 THEN n ELSE left[k - 1] \div 10
      size == CHOOSE k \in 1 .. n + 1 : left[k] = 0 /\ \A j \in 1 .. k - 1 : left[j] # 0
  IN [i \in 1 .. size |-> left[size - i] % 10]

At(text, pattern, i) ==
  i + Len(pattern) - 1 <= Len(text) /\ SubSeq(text, i, i + Len(pattern) - 1) = pattern

(* matchAll: the places of a pattern from the left, none overlapping. *)
Matches(text, pattern) ==
  LET found[i \in 0 .. Len(text)] ==
        IF i = 0 THEN <<>>
        ELSE LET before == found[i - 1]
             IN IF At(text, pattern, i) /\ \A j \in DOMAIN before : before[j] + Len(pattern) <= i
                THEN Append(before, i) ELSE before
  IN found[Len(text)]

(* Mutant of Crossed: what is matched stays as it was. *)
NotCrossed(text, pattern, index) == text

(* textValue.replace(match[0], ...): the first occurrence there is, though *)
(* meant for the match.                                                    *)
Crossed(text, pattern, index) ==
  LET first == CHOOSE i \in 1 .. index : At(text, pattern, i) /\ \A j \in 1 .. i - 1 : ~At(text, pattern, j)
  IN [i \in DOMAIN text |-> IF i \in first .. first + Len(pattern) - 1 THEN X ELSE text[i]]

AllCrossed(text, pattern, found) ==
  LET after[j \in 0 .. Len(found)] ==
        IF j = 0 THEN text ELSE Crossed(after[j - 1], pattern, found[j])
  IN after[Len(found)]

Gap == 0

(* One row of numerologyList, the k-th: numerology holds rows and gaps,    *)
(* and substitutions what stands where in the value.                       *)
Applied(state, value, k, item) ==
  LET pattern == Digits(item.amount)
      found   == Matches(state.text, pattern)
      named   == [state EXCEPT !.numerology = Append(@, k)]
  IN CASE item.equality = "<"  /\ value < item.amount -> named
       [] item.equality = ">=" /\ value >= item.amount -> named
       [] item.equality = "="  /\ value = item.amount -> [named EXCEPT !.text = <<>>]
       [] item.equality = "=~" ->
            [numerology |-> state.numerology \o [j \in DOMAIN found |-> Gap],
             text |-> AllCrossed(state.text, pattern, found),
             substitutions |-> [i \in DOMAIN state.substitutions |->
                                  IF i \in ToSet(found) THEN k ELSE state.substitutions[i]]]
       [] OTHER -> state

(* The gaps are filled in the order of the value's digits. *)
parseNumerology(value, list) ==
  LET start == [numerology |-> <<>>, text |-> Digits(value),
                substitutions |-> [i \in DOMAIN Digits(value) |-> Gap]]
      after[k \in 0 .. Len(list)] ==
        IF k = 0 THEN start ELSE Applied(after[k - 1], value, k, list[k])
      end == after[Len(list)]
      GapsTo(i) == Cardinality({j \in 1 .. i : end.numerology[j] = Gap})
      subs == {i \in DOMAIN end.substitutions : end.substitutions[i] # Gap}
      Sub(g) == CHOOSE i \in subs : Cardinality({j \in subs : j <= i}) = g
  IN [i \in DOMAIN end.numerology |->
        IF end.numerology[i] # Gap THEN end.numerology[i]
        ELSE IF GapsTo(i) <= Cardinality(subs) THEN end.substitutions[Sub(GapsTo(i))] ELSE Gap]

----------------------------------------------------------------------------
(* Times are in half seconds; an age below 0 is a time to come. *)
Second == 2

formats ==
  <<[below |-> -1, says |-> "Recently", unit |-> 0],
    [below |-> 60, says |-> "secondsAgo", unit |-> 1],
    [below |-> 120, says |-> "oneMinuteAgo", unit |-> 0],
    [below |-> 3600, says |-> "minutesAgo", unit |-> 60],
    [below |-> 7200, says |-> "oneHourAgo", unit |-> 0],
    [below |-> 86400, says |-> "hoursAgo", unit |-> 3600],
    [below |-> 172800, says |-> "Yesterday", unit |-> 0],
    [below |-> 604800, says |-> "daysAgo", unit |-> 86400],
    [below |-> 1209600, says |-> "oneWeekAgo", unit |-> 0],
    [below |-> 2678400, says |-> "weeksAgo", unit |-> 604800]>>

TenYears == 315569260

(* Mutant of Bracket: a boundary belongs to the bracket before. *)
BracketInclusive(age) ==
  SelectInSeq(formats, LAMBDA f : age <= f.below * Second)

Bracket(age) == SelectInSeq(formats, LAMBDA f : age < f.below * Second)

----------------------------------------------------------------------------
(* A date, by the getters of Date in the page's time zone. *)

DaysBefore(year) ==
  365 * (year - 1970) + (year - 1969) \div 4 - (year - 1901) \div 100 + (year - 1601) \div 400

MonthLengths(year) ==
  <<31, 28 + DaysBefore(year + 1) - DaysBefore(year) - 365, 31, 30, 31, 30, 31, 31, 30, 31, 30, 31>>

(* The day of a boost, by its number from 1 January 1970. *)
DayOf(age) == Today + (Now - age) \div (86400 * Second)

DateOf(day) ==
  LET year  == CHOOSE y \in 1970 .. 2099 : DaysBefore(y) <= day /\ day < DaysBefore(y + 1)
      passed[m \in 0 .. 12] ==
        IF m = 0 THEN DaysBefore(year) ELSE passed[m - 1] + MonthLengths(year)[m]
      month == CHOOSE m \in 0 .. 11 : passed[m] <= day /\ day < passed[m + 1]
  IN [getFullYear |-> year, getMonth |-> month, getDate |-> day - passed[month] + 1]

monthNames ==
  <<"Jan", "Feb", "Mar", "Apr", "May", "Jun", "Jul", "Aug", "Sep", "Oct", "Nov", "Dec",
    "January", "February", "March", "April", "May", "June", "July", "August", "September",
    "October", "November", "December">>

masks == [longDate |-> <<"d", "mmmm", "yyyy">>]

(* Mutant of flags: the long names begin where the short ones do. *)
flagsShort(date) ==
  [d |-> date.getDate, mmmm |-> monthNames[date.getMonth + 1], yyyy |-> date.getFullYear]

(* Those of the tokens of longDate; a list is numbered from 1 here. *)
flags(date) ==
  [d |-> date.getDate, mmmm |-> monthNames[date.getMonth + 12 + 1], yyyy |-> date.getFullYear]

dateFormat(date, mask) == [i \in DOMAIN masks[mask] |-> flags(date)[masks[mask][i]]]

(* A count, where the format has one, and the words; or the date. *)
prettyDate(age) ==
  LET i == Bracket(age)
  IN IF i # 0
     THEN <<IF formats[i].unit = 0 THEN 0 ELSE age \div (formats[i].unit * Second), formats[i].says>>
     ELSE IF age > TenYears * Second THEN <<0, "Recently">>
     ELSE dateFormat(DateOf(DayOf(age)), "longDate")
=============================================================================
