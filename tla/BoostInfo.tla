----------------------------- MODULE BoostInfo ------------------------------
(***************************************************************************)
(* The dialog with the TLV of a boost (renderBoostInfo of                  *)
(* webroot/script/helipad.js).  Each opening asks the list of its page     *)
(* (setConfig) for the row it was opened at; the dialog and its download   *)
(* link are one for all rows, and an answer goes there whenever it comes.  *)
(***************************************************************************)
EXTENDS Integers, Sequences

CONSTANTS
  Indexes,       \* of each list, the indexes of its rows
  NotJson,       \* rows, a list and an index each, whose TLV is not JSON
  MaxInfos       \* bound: openings

ListNames == {"boosts", "streams", "sent"}

ASSUME InfoAssumption ==
  /\ Indexes \in [ListNames -> SUBSET (Nat \ {0})]
  /\ NotJson \subseteq ListNames \X Nat
  /\ MaxInfos \in Nat

VARIABLES
  pathname,    \* of the page
  infos,       \* the requests, in the order of the openings
  table,       \* what the dialog shows
  download,    \* the row whose TLV the link has
  overtaken    \* history: an earlier request was the last to be answered

infoVars == <<pathname, infos, table, download, overtaken>>

NoRow == <<"none", 0>>

setConfig(path) ==
  CASE path = "/" -> "boosts" [] path = "/streams" -> "streams" [] path = "/sent" -> "sent"

InfoInit ==
  /\ pathname \in {"/", "/streams", "/sent"}
  /\ infos = <<>> /\ overtaken = FALSE
  /\ table = [says |-> "nothing", row |-> NoRow] /\ download = NoRow

(* A row of the page is one of its list. *)
RowOf(index) == <<setConfig(pathname), index>>

OpenInfo(index) ==
  /\ Len(infos) < MaxInfos
  /\ infos' = Append(infos, [index |-> index, waits |-> TRUE])
  /\ table' = [says |-> "loading", row |-> NoRow]
  /\ overtaken' = FALSE
  /\ UNCHANGED <<pathname, download>>

(* ?index=...&count=1&old=true: the newest of the list that is not newer.  *)
Queried(list, index) ==
  LET found == {i \in Indexes[list] : i <= index}
  IN IF found = {} THEN NoRow ELSE <<list, CHOOSE i \in found : \A j \in found : j <= i>>

(* Mutant of Show: the link is set once the TLV has been parsed. *)
ShowParsed(row) ==
  /\ table' = [says |-> IF row \in NotJson THEN "text" ELSE "keys", row |-> row]
  /\ download' = IF row \in NotJson THEN download ELSE row

Show(row) ==
  /\ table' = [says |-> IF row \in NotJson THEN "text" ELSE "keys", row |-> row]
  /\ download' = row

ReceiveInfo(k) ==
  LET row == Queried(setConfig(pathname), infos[k].index)
  IN
  /\ infos[k].waits
  /\ infos' = [infos EXCEPT ![k].waits = FALSE]
  /\ IF row = NoRow THEN table' = [says |-> "not found", row |-> NoRow] /\ UNCHANGED download
     ELSE Show(row)
  /\ overtaken' = (k # Len(infos))
  /\ UNCHANGED pathname

(* Nobody hears of a request that fails. *)
InfoFails(k) ==
  /\ infos[k].waits
  /\ infos' = [infos EXCEPT ![k].waits = FALSE]
  /\ UNCHANGED <<pathname, table, download, overtaken>>

InfoNext ==
  \/ \E index \in Indexes[setConfig(pathname)] : OpenInfo(index)
  \/ \E k \in DOMAIN infos : ReceiveInfo(k) \/ InfoFails(k)

InfoSpec == InfoInit /\ [][InfoNext]_infoVars

----------------------------------------------------------------------------
(* Once an answer is shown, it is the row that the dialog was opened at    *)
(* last, unless the answer for an earlier one has overtaken it; and the    *)
(* link downloads what the table shows, be it JSON or not.                 *)
InfoIsOfItsRow ==
  table.says \notin {"nothing", "loading"} =>
    /\ table.row = download
    /\ table.row = RowOf(infos[Len(infos)].index) \/ overtaken
    /\ \E k \in DOMAIN infos : table.row = RowOf(infos[k].index)
=============================================================================
