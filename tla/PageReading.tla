---------------------------- MODULE PageReading -----------------------------
(***************************************************************************)
(* What the page computes from what it receives by a loop over it, without *)
(* keeping any state: the blocks of an event that are hashed, the meaning  *)
(* of an amount, and the age of a boost, each against a definition of what *)
(* it should come to.  A state holds what is computed, with its arguments. *)
(***************************************************************************)
EXTENDS Sha2, BoostText

CONSTANTS
  Lengths,       \* of messages to hash
  Pieces,        \* lengths of the first part of one that is hashed in two
  Values,        \* amounts of boosts
  NumerologyLists,
  Ages           \* in half seconds

ASSUME ReadingAssumption ==
  /\ Lengths \subseteq Nat /\ Pieces \subseteq Nat /\ Values \subseteq Nat /\ Ages \subseteq Int
  /\ \A list \in NumerologyLists :
       list \in Seq([equality : {"<", ">=", "=", "=~"}, amount : Nat])

VARIABLE task

ReadingInit == task = [is |-> "none"]

HashMessage ==
  /\ task.is = "none"
  /\ \E length \in Lengths : \E first \in {n \in Pieces : n <= length} :
       task' = [is |-> "hash", length |-> length, first |-> first]

ReadAmount ==
  /\ task.is = "none"
  /\ \E value \in Values, list \in NumerologyLists :
       task' = [is |-> "amount", value |-> value, list |-> list]

TellAge ==
  /\ task.is = "none"
  /\ \E age \in Ages : task' = [is |-> "age", age |-> age]

ReadingNext == HashMessage \/ ReadAmount \/ TellAge

ReadingSpec == ReadingInit /\ [][ReadingNext]_task

----------------------------------------------------------------------------
(* A message is hashed as the standard pads it, for every length and in    *)
(* whatever two parts it comes: nothing the buffer held before is left in  *)
(* a block, and there are as few blocks as will do (SHA2.update, digest).  *)
DigestsArePadded ==
  task.is = "hash" =>
    LET message == [i \in 1 .. task.length |-> 1000 + i]
        filler  == (-(task.length + 1 + PadOffset)) % BlockLen
        padded  == message \o <<128>> \o [i \in 1 .. filler |-> 0]
                     \o BigEndian(8 * task.length, PadOffset)
        blocks  == hashC(message, task.first)
    IN /\ Len(blocks) * BlockLen = Len(padded)
       /\ \A k \in DOMAIN blocks :
            blocks[k] = SubSeq(padded, (k - 1) * BlockLen + 1, k * BlockLen)

(* The rows that mean something of an amount: none of its digits counts    *)
(* twice, the rows first in the list have the first choice and the digits  *)
(* from the left, what is found among the digits is told from left to      *)
(* right, and nothing is looked for in an amount that a row names exactly  *)
(* (parseNumerology).                                                      *)
PatternOf(list, k) == Digits(list[k].amount)

Open(value, list, k) == ~\E j \in 1 .. k - 1 : list[j].equality = "=" /\ list[j].amount = value

AllFound(value, list) ==
  {a \in (DOMAIN list) \X (DOMAIN Digits(value)) :
     /\ list[a[1]].equality = "=~" /\ Open(value, list, a[1])
     /\ At(Digits(value), PatternOf(list, a[1]), a[2])}

Earlier(a, b) == a[1] < b[1] \/ (a[1] = b[1] /\ a[2] < b[2])

Overlapping(list, a, b) ==
  a[2] < b[2] + Len(PatternOf(list, b[1])) /\ b[2] < a[2] + Len(PatternOf(list, a[1]))

Found(value, list) ==
  LET all == AllFound(value, list)
  IN CHOOSE chosen \in SUBSET all :
       \A a \in all : a \in chosen <=> ~\E b \in chosen : Earlier(b, a) /\ Overlapping(list, b, a)

Holds(value, row) ==
  \/ row.equality = "<" /\ value < row.amount
  \/ row.equality = ">=" /\ value >= row.amount
  \/ row.equality = "=" /\ value = row.amount

AmountsAreRead ==
  task.is = "amount" =>
    LET told  == parseNumerology(task.value, task.list)
        found == Found(task.value, task.list)
        named == {k \in DOMAIN task.list : Holds(task.value, task.list[k])}
        Place(k) == 1 + Cardinality({j \in named : j < k}) + Cardinality({a \in found : a[1] < k})
        free  == DOMAIN told \ {Place(k) : k \in named}
    IN /\ DOMAIN told = 1 .. Cardinality(named) + Cardinality(found)
       /\ \A k \in named : told[Place(k)] = k
       /\ \A a \in found, i \in free :
            Cardinality({b \in found : b[2] <= a[2]}) = Cardinality({j \in free : j <= i})
              => told[i] = a[1]

(* A boost's age is told by the largest unit that it has lasted, and by    *)
(* how many of it, rounded down: never as older than it is, nor as younger *)
(* by a whole unit; from 31 days on the date is told by which a calendar   *)
(* finds its day (prettyDate, dateFormat; one that is less than a second   *)
(* ahead of the page's clock would be "-1 seconds ago").                   *)
Units == [seconds |-> 1, minutes |-> 60, hours |-> 3600, days |-> 86400, weeks |-> 604800]

Said(phrase) ==
  CASE phrase[2] = "secondsAgo" -> <<phrase[1], "seconds">> [] phrase[2] = "minutesAgo" -> <<phrase[1], "minutes">>
    [] phrase[2] = "hoursAgo" -> <<phrase[1], "hours">>     [] phrase[2] = "daysAgo" -> <<phrase[1], "days">>
    [] phrase[2] = "weeksAgo" -> <<phrase[1], "weeks">>     [] phrase[2] = "oneMinuteAgo" -> <<1, "minutes">>
    [] phrase[2] = "oneHourAgo" -> <<1, "hours">>            [] phrase[2] = "Yesterday" -> <<1, "days">>
    [] phrase[2] = "oneWeekAgo" -> <<1, "weeks">>            [] OTHER -> <<0, phrase[2]>>

Calendar == <<"January", "February", "March", "April", "May", "June", "July", "August",
              "September", "October", "November", "December">>

DayRead(date) ==
  LET month == CHOOSE m \in DOMAIN Calendar : Calendar[m] = date[2]
      leap  == date[3] % 4 = 0 /\ (date[3] % 100 # 0 \/ date[3] % 400 = 0)
      before == <<0, 31, 59, 90, 120, 151, 181, 212, 243, 273, 304, 334>>[month]
  IN DaysBefore(date[3]) + before + (IF leap /\ month > 2 THEN 1 ELSE 0) + date[1] - 1

AgesAreTold ==
  task.is = "age" /\ task.age >= 0 =>
    LET told == prettyDate(task.age)
        said == Said(told)
        seconds == task.age \div Second
        unit == Units[said[2]]
    IN CASE Len(told) = 3 -> /\ seconds >= 31 * Units.days /\ task.age <= TenYears * Second
                             /\ told[2] \in ToSet(Calendar) /\ DayRead(told) = DayOf(task.age)
         [] said[2] = "Recently" -> task.age > TenYears * Second
         [] OTHER -> /\ seconds < 31 * Units.days
                     /\ said[1] * unit <= seconds /\ seconds < (said[1] + 1) * unit
                     /\ \A u \in DOMAIN Units : Units[u] > unit => seconds < Units[u]
=============================================================================
