---------------------------- MODULE OrderedList ----------------------------
(***************************************************************************)
(* What the settings page shows its user: a list that is kept in order,    *)
(* one request at a time, each taking effect at once and exactly as asked. *)
(* TriggerStore is shown to implement it as long as requests do not        *)
(* overlap and none is cut short.                                          *)
(***************************************************************************)
EXTENDS Integers, SequencesExt

CONSTANT Items

VARIABLES
  list,   \* the items in order
  asked   \* the request made and not yet performed, or Nothing

vars == <<list, asked>>

Nothing == [op |-> "none", item |-> 0, place |-> 0]

Wishes ==
  {Nothing} \cup [op : {"add", "move", "keep", "delete"}, item : Items \cup {0}, place : Nat]

Init == /\ IsInjective(list) /\ ToSet(list) \subseteq Items
        /\ asked = Nothing

Ask == /\ asked = Nothing
       /\ asked' \in Wishes \ {Nothing}
       /\ UNCHANGED list

(* Item i taken out, if it is in. *)
Without(s, i) ==
  IF i \in ToSet(s) THEN RemoveAt(s, CHOOSE k \in DOMAIN s : s[k] = i) ELSE s

(* Item i taken out and put back in as the k-th, or last if k is too large. *)
Moved(s, i, k) ==
  LET rest == Without(s, i)
      at   == IF k <= Len(rest) THEN k ELSE Len(rest) + 1
  IN  InsertAt(rest, at, i)

Perform ==
  /\ asked # Nothing
  /\ asked' = Nothing
  /\ \/ asked.op = "add"    /\ \E i \in Items \ ToSet(list) : list' = <<i>> \o list
     \/ asked.op = "move"   /\ list' = Moved(list, asked.item, asked.place)
     \/ asked.op = "keep"   /\ list' = list
     \/ asked.op = "delete" /\ list' = Without(list, asked.item)

(* A request about an item that is not there is turned down. *)
TurnDown ==
  /\ asked.op \in {"move", "keep"}
  /\ asked.item \notin ToSet(list)
  /\ asked' = Nothing
  /\ UNCHANGED list

Next == Ask \/ Perform \/ TurnDown

Spec == Init /\ [][Next]_vars
============================================================================
