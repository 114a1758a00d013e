---------------------------- MODULE InvoiceFeed ----------------------------
(***************************************************************************)
(* How an incoming boost gets from the Lightning node (LND) into Helipad's *)
(* database: the task lnd_subscribe_invoices of poller.rs, with everything *)
(* it calls (poll_invoices, parse_boost_from_invoice, handle_boost,        *)
(* add_invoice_to_db, process_triggers), run against an LND that adds and  *)
(* settles invoices on its own, a subscription that can break, a database  *)
(* insert and a trigger lookup that can fail, a process that can be killed *)
(* between any two effects and started again, and a task that a panic can  *)
(* end in a process that goes on without it.                               *)
(*                                                                         *)
(* An invoice is known by its add_index, 1 .. added.  What a BoostRecord   *)
(* holds is left out; all the feed looks at is whether the invoice is      *)
(* settled and whether it carries a boost.                                 *)
(***************************************************************************)
EXTENDS Integers, Sequences

CONSTANTS
  MaxInvoices,  \* bound: invoices LND ever creates
  MaxOld,       \* bound: those whose boosts an earlier release has stored
  PageSize,     \* num_max_invoices of list_invoices (1000 in the code)
  MaxFaults     \* bound: broken streams, failed calls, panics and crashes together

ASSUME FeedAssumption ==
  /\ MaxInvoices \in Nat \ {0}
  /\ MaxOld \in 0 .. MaxInvoices
  /\ PageSize \in Nat \ {0}
  /\ MaxFaults \in Nat

VARIABLES
  (* LND *)
  added,          \* the highest add_index given out
  podcasting,     \* invoices that parse to a boost once settled
  settled,        \* invoices in state Settled
  connected,      \* the subscription's stream is open at LND's end
  stream,         \* invoices sent on the subscription and not yet received
  (* the task's memory *)
  phase,          \* which loop the task is in; down with the process, or dead in it
  step,           \* where it is inside handle_boost
  hand,           \* add_index of the invoice it is handling, 0 if none
  page,           \* rest of the list_invoices response being iterated
  current_index,
  (* the database *)
  boosts,         \* idx column of table boosts
  untyped,        \* rows of it whose list_type an interrupted migration left NULL
  (* effects outside *)
  webhooks,       \* times the triggers ran for an invoice
  published,      \* invoices broadcast to the web socket clients
  (* history, read by no guard except the bound on faults *)
  unseen,         \* settled boosts of which the task, or its present life, was not told
  refused,        \* boosts an insert of which failed
  cut,            \* boosts whose effects a crash or a failed lookup cut short
  retreated,      \* current_index has moved backwards
  faults

lndVars   == <<added, podcasting, settled>>
linkVars  == <<connected, stream>>
taskVars  == <<phase, step, hand, page, current_index>>
dbVars    == <<boosts, untyped>>
outVars   == <<webhooks, published>>
histVars  == <<unseen, refused, cut, retreated, faults>>
vars      == <<lndVars, linkVars, taskVars, dbVars, outVars, histVars>>

Index   == 1 .. MaxInvoices
Phases  == {"down", "catchup", "subscribing", "listening", "dead"}
Steps   == {"idle", "insert", "trigger", "publish"}

(* An invoice as LND transmits it: its state at that moment is part of it. *)
Invoice == [add_index : Index, settled : BOOLEAN]

Report(i) == [add_index |-> i, settled |-> i \in settled]

(* The invoices lo .. hi in ascending order, in their present state. *)
Slice(lo, hi) == [k \in 1 .. hi - lo + 1 |-> Report(lo + k - 1)]

Lower(a, b) == IF a < b THEN a ELSE b

(* Mutant of LastBoostIndex: ORDER BY idx ASC. *)
FirstBoostIndex ==
  IF boosts = {} THEN 0 ELSE CHOOSE i \in boosts : \A j \in boosts : i <= j

(* ORDER BY idx DESC LIMIT 1, and 0 for an empty table. *)
LastBoostIndex ==
  IF boosts = {} THEN 0 ELSE CHOOSE i \in boosts : \A j \in boosts : j <= i

(* The boosts that the invoices of s announce as settled. *)
Announced(s) ==
  {i \in podcasting : \E k \in DOMAIN s : s[k] = [add_index |-> i, settled |-> TRUE]}

(* Mutant of ParsesToBoost: the invoice's state is not looked at. *)
ParsesUnpaid(inv) == inv.add_index \in podcasting

(* parse_boost_from_invoice gives a record only for a settled boost. *)
ParsesToBoost(inv) == inv.settled /\ inv.add_index \in podcasting

----------------------------------------------------------------------------
(* An earlier release may have stored and announced boosts; a migration    *)
(* that was interrupted left rows of theirs without a list_type.           *)
Init ==
  /\ added \in 0 .. MaxOld
  /\ podcasting = 1 .. added /\ settled = 1 .. added
  /\ connected = FALSE /\ stream = <<>>
  /\ phase = "down" /\ step = "idle" /\ hand = 0 /\ page = <<>>
  /\ current_index = 0
  /\ boosts = 1 .. added /\ untyped \in SUBSET (1 .. added)
  /\ webhooks = [i \in Index |-> IF i <= added THEN 1 ELSE 0] /\ published = 1 .. added
  /\ unseen = {} /\ refused = {} /\ cut = {} /\ retreated = FALSE /\ faults = 0

Fault == faults < MaxFaults /\ faults' = faults + 1

----------------------------------------------------------------------------
(* LND (external).  An invoice is created open; a boost or not is decided  *)
(* by what its payer puts in it.  A cancelled invoice behaves like one     *)
(* that stays open.  An open stream carries both events.                   *)

AddInvoice(isBoost) ==
  /\ added < MaxInvoices
  /\ added' = added + 1
  /\ podcasting' = IF isBoost THEN podcasting \cup {added + 1} ELSE podcasting
  /\ stream' = IF connected
                 THEN Append(stream, [add_index |-> added + 1, settled |-> FALSE])
                 ELSE stream
  /\ UNCHANGED <<settled, connected, taskVars, dbVars, outVars, histVars>>

SettleInvoice(i) ==
  /\ i \in 1 .. added
  /\ i \notin settled
  /\ settled' = settled \cup {i}
  /\ IF connected
       THEN /\ stream' = Append(stream, [add_index |-> i, settled |-> TRUE])
            /\ UNCHANGED unseen
       ELSE /\ unseen' = unseen \cup ({i} \cap podcasting)
            /\ UNCHANGED stream
  /\ UNCHANGED <<added, podcasting, connected, taskVars, dbVars, outVars,
                 refused, cut, retreated, faults>>

(* The connection breaks: the last messages sent may never arrive. *)
BreakStream(n) ==
  /\ Fault
  /\ connected
  /\ n \in 0 .. Len(stream)
  /\ connected' = FALSE
  /\ stream' = SubSeq(stream, 1, n)
  /\ unseen' = unseen \cup (Announced(stream) \ Announced(SubSeq(stream, 1, n)))
  /\ UNCHANGED <<lndVars, taskVars, dbVars, outVars, refused, cut, retreated>>

----------------------------------------------------------------------------
(* Start of the task: connect, and resume at the last stored boost.  The   *)
(* query reads the whole row: see StartPanics.                             *)
Start ==
  /\ phase = "down" /\ LastBoostIndex \notin untyped
  /\ phase' = "catchup"
  /\ current_index' = LastBoostIndex
  /\ UNCHANGED <<lndVars, linkVars, step, hand, page, dbVars, outVars, histVars>>

(* One list_invoices call of poll_invoices; an empty page ends the loop. *)
ListInvoices ==
  LET response == Slice(current_index + 1, Lower(added, current_index + PageSize))
  IN
  /\ phase = "catchup" /\ step = "idle" /\ page = <<>>
  /\ page' = response
  /\ phase' = IF response = <<>> THEN "subscribing" ELSE "catchup"
  /\ unseen' = unseen \ Announced(response)
  /\ UNCHANGED <<lndVars, linkVars, step, hand, current_index, dbVars, outVars,
                 refused, cut, retreated, faults>>

(* list_invoices fails: poll_invoices returns, the subscription starts. *)
ListInvoicesFails ==
  /\ Fault
  /\ phase = "catchup" /\ step = "idle" /\ page = <<>>
  /\ phase' = "subscribing"
  /\ UNCHANGED <<lndVars, linkVars, step, hand, page, current_index, dbVars,
                 outVars, unseen, refused, cut, retreated>>

(* Mutants of Take: invoices at or below the cursor are taken for repeats; *)
(* and the cursor is only moved by boosts.                                 *)
TakeOnlyNew(inv) ==
  IF ParsesToBoost(inv) /\ inv.add_index > current_index
    THEN hand' = inv.add_index /\ step' = "insert" /\ UNCHANGED <<current_index, retreated>>
    ELSE current_index' = inv.add_index /\ UNCHANGED <<hand, step, retreated>>

TakeBoostsOnly(inv) ==
  IF ParsesToBoost(inv)
    THEN hand' = inv.add_index /\ step' = "insert" /\ UNCHANGED <<current_index, retreated>>
    ELSE UNCHANGED <<hand, step, current_index, retreated>>

(* The body of both loops up to handle_boost.  An invoice that is not a    *)
(* settled boost only moves the cursor.                                    *)
Take(inv) ==
  IF ParsesToBoost(inv)
    THEN /\ hand' = inv.add_index
         /\ step' = "insert"
         /\ UNCHANGED <<current_index, retreated>>
    ELSE /\ current_index' = inv.add_index
         /\ retreated' = (retreated \/ inv.add_index < current_index)
         /\ UNCHANGED <<hand, step>>

NextOfPage ==
  /\ phase = "catchup" /\ step = "idle" /\ page # <<>>
  /\ page' = Tail(page)
  /\ Take(Head(page))
  /\ UNCHANGED <<lndVars, linkVars, phase, dbVars, outVars,
                 unseen, refused, cut, faults>>

(* subscribe_invoices(current_index, 0): LND first sends the invoices      *)
(* above a non-zero add_index, in their present state, then live events;   *)
(* with settle_index 0 it never resends a settle event.  A failed call     *)
(* changes nothing and is tried again a minute later.                      *)
Subscribe ==
  LET backlog == IF current_index = 0 THEN <<>> ELSE Slice(current_index + 1, added)
  IN
  /\ phase = "subscribing"
  /\ phase' = "listening"
  /\ connected' = TRUE
  /\ stream' = backlog
  /\ unseen' = unseen \ Announced(backlog)
  /\ UNCHANGED <<lndVars, step, hand, page, current_index, dbVars, outVars,
                 refused, cut, retreated, faults>>

Receive ==
  /\ phase = "listening" /\ step = "idle" /\ stream # <<>>
  /\ stream' = Tail(stream)
  /\ Take(Head(stream))
  /\ UNCHANGED <<lndVars, connected, phase, page, dbVars, outVars,
                 unseen, refused, cut, faults>>

(* invoices.next() gives no further Ok: five seconds later, subscribe. *)
StreamEnds ==
  /\ phase = "listening" /\ step = "idle" /\ stream = <<>> /\ ~connected
  /\ phase' = "subscribing"
  /\ UNCHANGED <<lndVars, linkVars, step, hand, page, current_index, dbVars,
                 outVars, histVars>>

----------------------------------------------------------------------------
(* handle_boost.  Each step commits one effect the world can see; an error *)
(* of the insert is printed and the next step is taken all the same.       *)

(* A plain INSERT: an idx already there makes it fail. *)
Insert ==
  /\ step = "insert"
  /\ step' = "trigger"
  /\ \/ /\ boosts' = boosts \cup {hand}
        /\ UNCHANGED <<refused, faults>>
     \/ /\ Fault
        /\ hand \notin boosts
        /\ refused' = refused \cup {hand}
        /\ UNCHANGED boosts
  /\ UNCHANGED <<lndVars, linkVars, phase, hand, page, current_index, untyped, outVars,
                 unseen, cut, retreated>>

(* Mutant of RunTriggers: the startup scan is silent, as it is for payments. *)
RunTriggersWhenLive ==
  /\ step = "trigger"
  /\ step' = "publish"
  /\ webhooks' = IF phase = "listening" THEN [webhooks EXCEPT ![hand] = @ + 1] ELSE webhooks
  /\ UNCHANGED <<lndVars, linkVars, phase, hand, page, current_index, dbVars,
                 published, histVars>>

(* process_triggers, awaited.  When the triggers cannot be loaded the      *)
(* boost goes on without effects.                                          *)
RunTriggers ==
  /\ step = "trigger"
  /\ step' = "publish"
  /\ \/ /\ webhooks' = [webhooks EXCEPT ![hand] = @ + 1]
        /\ UNCHANGED <<cut, faults>>
     \/ /\ Fault
        /\ cut' = cut \cup {hand}
        /\ UNCHANGED webhooks
  /\ UNCHANGED <<lndVars, linkVars, phase, hand, page, current_index, dbVars,
                 published, unseen, refused, retreated>>

(* ws_tx.send, return to the loop, and the loop's assignment of the cursor. *)
Publish ==
  /\ step = "publish"
  /\ step' = "idle"
  /\ hand' = 0
  /\ published' = published \cup {hand}
  /\ current_index' = hand
  /\ retreated' = (retreated \/ hand < current_index)
  /\ UNCHANGED <<lndVars, linkVars, phase, page, dbVars, webhooks,
                 unseen, refused, cut, faults>>

(* The task is gone, and its memory and its connection with it. *)
Gone ==
  /\ step' = "idle" /\ hand' = 0 /\ page' = <<>>
  /\ current_index' = 0
  /\ connected' = FALSE /\ stream' = <<>>
  /\ unseen' = unseen \cup Announced(page) \cup Announced(stream)
                      \cup (IF step = "insert" THEN {hand} ELSE {})
  /\ cut' = IF step \in {"trigger", "publish"} THEN cut \cup {hand} ELSE cut
  /\ UNCHANGED <<lndVars, dbVars, outVars, refused, retreated>>

(* The process is killed, and started again. *)
Crash == Fault /\ phase # "down" /\ phase' = "down" /\ Gone

(* The last boost has no list_type, so row.get fails and row.unwrap panics *)
(* in get_last_boost_index_from_db.  Nobody awaits the spawned task: it is *)
(* over, and the process serves the page without it.                       *)
StartPanics ==
  /\ phase = "down" /\ LastBoostIndex \in untyped
  /\ phase' = "dead" /\ Gone /\ UNCHANGED faults

(* Metadata is fetched for a boost of the subscription, not at the start,  *)
(* and a header of it that does not decode to text is unwrapped.           *)
AtMetadata == step = "idle" /\ stream # <<>> /\ ParsesToBoost(Head(stream))

(* Other panics: the query for the last boost fails; metadata; and a row   *)
(* of the triggers that does not fit its record, as one with a negative    *)
(* position.                                                               *)
Panic ==
  /\ Fault
  /\ phase = "down" \/ AtMetadata \/ step = "trigger"
  /\ phase' = "dead" /\ Gone

----------------------------------------------------------------------------
Lnd == \/ \E isBoost \in BOOLEAN : AddInvoice(isBoost)
       \/ \E i \in Index : SettleInvoice(i)
       \/ \E n \in 0 .. Len(stream) : BreakStream(n)

Task == \/ Start \/ StartPanics \/ ListInvoices \/ NextOfPage \/ Subscribe \/ Receive
        \/ StreamEnds \/ Insert \/ RunTriggers \/ Publish

Next == Lnd \/ Task \/ ListInvoicesFails \/ Panic \/ Crash

Spec == Init /\ [][Next]_vars

(* The task is a tokio task that never waits for anything but LND, SQLite  *)
(* and the webhooks' answers, and a process that exits is started again    *)
(* (umbrel/docker-compose.yml), so its next step is eventually taken.  LND *)
(* owes Helipad nothing.                                                   *)
FairSpec == Spec /\ WF_vars(Task)

----------------------------------------------------------------------------
TypeOK ==
  /\ added \in 0 .. MaxInvoices
  /\ podcasting \subseteq 1 .. added
  /\ settled \subseteq 1 .. added
  /\ connected \in BOOLEAN
  /\ stream \in Seq(Invoice)
  /\ phase \in Phases
  /\ step \in Steps
  /\ hand \in 0 .. added
  /\ page \in Seq(Invoice)
  /\ current_index \in 0 .. added
  /\ boosts \subseteq 1 .. added
  /\ untyped \subseteq boosts
  /\ webhooks \in [Index -> Nat]
  /\ published \subseteq Index
  /\ unseen \subseteq Index
  /\ refused \subseteq Index
  /\ cut \subseteq Index
  /\ retreated \in BOOLEAN
  /\ faults \in 0 .. MaxFaults

(* Every row of the boosts table is a boost that was really paid, whatever *)
(* stale copy of the invoice the task was iterating over.                  *)
StoredWerePaid == boosts \subseteq settled \cap podcasting

(* A settlement LND has transmitted is never mislaid: the boost is stored, *)
(* or its insert failed, or the task still has it before it.  Nothing else *)
(* the loops do - moving the cursor past it, retreating, ending a page,    *)
(* breaking off a stream - may drop it.                                    *)
NothingMislaid ==
  \A i \in settled \cap podcasting :
    \/ i \in boosts \cup refused \cup unseen
    \/ i \in Announced(page) \cup Announced(stream)
    \/ step = "insert" /\ hand = i

(* A stored boost had its triggers run and was broadcast, or is on the way *)
(* there, unless an error or a crash came in between.                      *)
StoredIsAnnounced ==
  \A i \in boosts \ cut :
    \/ webhooks[i] > 0 /\ i \in published
    \/ hand = i /\ step \in {"trigger", "publish"}

(* Triggers run twice for a boost only after the cursor has moved          *)
(* backwards (a settle event of an older invoice, then a reconnect) or     *)
(* after its own insert had failed.                                        *)
RepeatsNeedRetreat ==
  \A i \in Index : webhooks[i] > 1 => retreated \/ i \in refused

(* Once the faults stop, whatever happened before, the task gets back to a *)
(* live subscription with nothing left to read and stays there, unless a   *)
(* panic has ended it: the process then goes on without it.                *)
CaughtUp == phase = "listening" /\ connected /\ step = "idle" /\ stream = <<>>
EventuallyCaughtUp == <>[]CaughtUp \/ <>[](phase = "dead")

(* README.md:7-8: invoices are checked every 9 seconds, parsed and stored. *)
(* Read as a promise: a paid boost is eventually stored, unless its insert *)
(* failed or the task has died.                                            *)
PaidIsStored ==
  \A i \in Index : (i \in settled \cap podcasting) ~> (i \in boosts \cup refused \/ phase = "dead")
============================================================================
