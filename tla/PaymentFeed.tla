---------------------------- MODULE PaymentFeed ----------------------------
(***************************************************************************)
(* How sent boosts get into Helipad's sent_boosts table.  Two writers work *)
(* on it at once: the task lnd_poller of poller.rs, which lists the        *)
(* completed payments of LND above its cursor every nine seconds, and the  *)
(* handler api_v1_reply of handler.rs, which pays a reply to a received    *)
(* boost, waits for LND, stores the payment with a link to that boost and  *)
(* marks the boost as replied.  The handlers api_v1_mark_replied and       *)
(* api_v1_fetch_metadata write the same row of the boosts table.           *)
(*                                                                         *)
(* A payment is known by its payment_index, given out when it starts; 0    *)
(* stands for SQL's NULL and for "none".                                   *)
(***************************************************************************)
EXTENDS Integers, FiniteSetsExt

CONSTANTS
  Boosts,       \* received boosts that can be replied to (rows of boosts)
  Requests,     \* reply requests that can be in progress at once
  MaxPayments,  \* bound: payments LND ever starts
  PageSize,     \* max_payments of list_payments (500 in the code)
  MaxFaults     \* bound: failed calls and statements, lost clients, panics, crashes

ASSUME PaymentAssumption ==
  /\ 0 \notin Boosts
  /\ MaxPayments \in Nat \ {0} /\ PageSize \in Nat \ {0} /\ MaxFaults \in Nat

VARIABLES
  (* LND *)
  started,        \* the highest payment_index given out
  podcasting,     \* payments whose last hop carries a boost TLV
  succeeded, lost,\* payments that completed, and that failed
  repliesTo,      \* the boost a payment was started to answer, or 0
  (* lnd_poller *)
  up,             \* the process is running
  ended,          \* and has lost its lnd_poller to a panic
  step, hand,     \* inside handle_boost, as in InvoiceFeed
  page,           \* payments of the response still to be iterated
  current_payment, catchup,
  (* api_v1_reply, one per request *)
  request,
  (* api_v1_fetch_metadata *)
  snapshot,       \* boosts it has read and not written back, with reply_sent
  (* the database *)
  rows,           \* idx column of sent_boosts
  reply_to_idx,   \* its reply_to_idx column
  reply_sent,     \* boosts whose reply_sent is 1
  (* effects outside *)
  webhooks,       \* times the triggers ran for a payment
  (* history *)
  overtaken,      \* payments still under way when the cursor passed them
  ahead,          \* rows a reply handler put in above the cursor
  refused,        \* payments whose upsert by the poller failed
  before,         \* payments completed when the process last started
  disturbed,      \* a list_payments call failed since then
  marked,         \* boosts the user marked as replied by hand
  faults

lndVars     == <<started, podcasting, succeeded, lost, repliesTo>>
pollVars    == <<up, ended, step, hand, page, current_payment, catchup>>
dbVars      == <<rows, reply_to_idx, reply_sent>>
histVars    == <<overtaken, ahead, refused, before, disturbed, marked, faults>>
vars == <<lndVars, pollVars, request, snapshot, dbVars, webhooks, histVars>>

Payment   == 1 .. MaxPayments
OrNone(S) == S \cup {0}

Idle  == [at |-> "idle", boost |-> 0, payment |-> 0]
Reply == [at : {"sending", "storing", "marking"}, boost : Boosts, payment : Payment]

(* SELECT MAX(idx), and 0 for an empty table. *)
LastPaymentIndex == IF rows = {} THEN 0 ELSE Max(rows)

(* Mutant of Listed: offset inclusive. *)
ListedAgain(offset) ==
  {p \in succeeded : /\ p >= offset
                     /\ Cardinality({q \in succeeded : offset <= q /\ q <= p}) <= PageSize}

(* list_payments: the oldest PageSize completed payments above offset. *)
Listed(offset) ==
  {p \in succeeded : /\ p > offset
                     /\ Cardinality({q \in succeeded : offset < q /\ q <= p}) <= PageSize}

Fault == faults < MaxFaults /\ faults' = faults + 1

Init ==
  /\ started = 0 /\ podcasting = {} /\ succeeded = {} /\ lost = {}
  /\ repliesTo = [p \in Payment |-> 0]
  /\ up = FALSE /\ ended = FALSE /\ step = "idle" /\ hand = 0 /\ page = {}
  /\ current_payment = 0 /\ catchup = TRUE
  /\ request = [r \in Requests |-> Idle]
  /\ snapshot = {}
  /\ rows = {} /\ reply_to_idx = [p \in Payment |-> 0] /\ reply_sent = {}
  /\ webhooks = [p \in Payment |-> 0]
  /\ overtaken = {} /\ ahead = {} /\ refused = {} /\ before = {}
  /\ disturbed = FALSE /\ marked = {} /\ faults = 0

----------------------------------------------------------------------------
(* LND (external).  A payment gets its index when it starts, so payments   *)
(* may complete out of order.                                              *)

Pay(isBoost, b) ==
  /\ started < MaxPayments
  /\ started' = started + 1
  /\ podcasting' = IF isBoost THEN podcasting \cup {started + 1} ELSE podcasting
  /\ repliesTo' = [repliesTo EXCEPT ![started + 1] = b]
  /\ UNCHANGED <<succeeded, lost>>

(* Some other wallet on the node pays something. *)
StartPayment(isBoost) ==
  /\ Pay(isBoost, 0)
  /\ UNCHANGED <<pollVars, request, snapshot, dbVars, webhooks, histVars>>

UnderWay == (1 .. started) \ (succeeded \cup lost)

EndPayment(p) ==
  /\ p \in UnderWay
  /\ \/ succeeded' = succeeded \cup {p} /\ UNCHANGED lost
     \/ lost' = lost \cup {p} /\ UNCHANGED succeeded
  /\ UNCHANGED <<started, podcasting, repliesTo, pollVars, request, snapshot,
                 dbVars, webhooks, histVars>>

----------------------------------------------------------------------------
(* lnd_poller.  A poll_balance that fails only delays the next listing, so *)
(* it is the absence of a step here.                                       *)

Start ==
  /\ ~up
  /\ up' = TRUE
  /\ current_payment' = LastPaymentIndex
  /\ catchup' = TRUE
  /\ before' = succeeded
  /\ disturbed' = FALSE
  /\ UNCHANGED <<lndVars, ended, step, hand, page, request, snapshot, dbVars, webhooks,
                 overtaken, ahead, refused, marked, faults>>

(* The query for the last payment fails, and its error is unwrapped.       *)
(* Nobody awaits the spawned task: the process serves replies without it.  *)
StartPanics ==
  /\ Fault
  /\ ~up
  /\ up' = TRUE /\ ended' = TRUE
  /\ before' = succeeded
  /\ disturbed' = FALSE
  /\ UNCHANGED <<lndVars, step, hand, page, current_payment, catchup, request, snapshot,
                 dbVars, webhooks, overtaken, ahead, refused, marked>>

Waiting == up /\ ~ended /\ step = "idle" /\ page = {}

(* Mutant of PollPayments: the catching up ends with the first page. *)
PollPaymentsOnce ==
  LET response == Listed(current_payment)
  IN
  /\ Waiting
  /\ page' = response
  /\ catchup' = FALSE
  /\ overtaken' = overtaken \cup {q \in UnderWay : \E p \in response : q < p}
  /\ UNCHANGED <<lndVars, up, ended, step, hand, current_payment, request, snapshot, dbVars,
                 webhooks, ahead, refused, before, disturbed, marked, faults>>

(* poll_payments asks LND.  An empty answer ends the catching up. *)
PollPayments ==
  LET response == Listed(current_payment)
  IN
  /\ Waiting
  /\ page' = response
  /\ catchup' = (catchup /\ response # {})
  /\ overtaken' = overtaken \cup {q \in UnderWay : \E p \in response : q < p}
  /\ UNCHANGED <<lndVars, up, ended, step, hand, current_payment, request, snapshot, dbVars,
                 webhooks, ahead, refused, before, disturbed, marked, faults>>

(* A failed call is not told from an empty answer: poll_payments gives     *)
(* false either way.                                                       *)
PollPaymentsFails ==
  /\ Fault
  /\ Waiting
  /\ catchup' = FALSE
  /\ disturbed' = TRUE
  /\ UNCHANGED <<lndVars, up, ended, step, hand, page, current_payment, request,
                 snapshot, dbVars, webhooks, overtaken, ahead, refused, before, marked>>

(* Mutant of NextPayment: only a boost moves the cursor. *)
NextBoostOnly ==
  LET p == Min(page)
  IN
  /\ up /\ step = "idle" /\ page # {}
  /\ page' = page \ {p}
  /\ IF p \in podcasting THEN hand' = p /\ step' = "insert" ELSE UNCHANGED <<hand, step>>
  /\ UNCHANGED <<lndVars, up, ended, current_payment, catchup, request, snapshot, dbVars,
                 webhooks, histVars>>

(* The response is in ascending order.  A payment without a boost TLV only *)
(* moves the cursor.                                                       *)
NextPayment ==
  LET p == Min(page)
  IN
  /\ up /\ step = "idle" /\ page # {}
  /\ page' = page \ {p}
  /\ IF p \in podcasting
       THEN hand' = p /\ step' = "insert" /\ UNCHANGED current_payment
       ELSE current_payment' = p /\ UNCHANGED <<hand, step>>
  /\ UNCHANGED <<lndVars, up, ended, catchup, request, snapshot, dbVars, webhooks, histVars>>

(* Mutant of Upsert: the conflict clause takes excluded.reply_to_idx. *)
UpsertExcluded(p, b) ==
  /\ rows' = rows \cup {p}
  /\ reply_to_idx' = [reply_to_idx EXCEPT ![p] = b]

(* INSERT ... ON CONFLICT(idx) DO UPDATE SET reply_to_idx =                *)
(* COALESCE(reply_to_idx, excluded.reply_to_idx).                          *)
Upsert(p, b) ==
  /\ rows' = rows \cup {p}
  /\ reply_to_idx' = [reply_to_idx EXCEPT ![p] = IF @ = 0 THEN b ELSE @]

(* add_payment_to_db for the poller: it knows of no reply_to_idx. *)
Insert ==
  /\ step = "insert"
  /\ step' = IF catchup THEN "publish" ELSE "trigger"
  /\ \/ /\ Upsert(hand, 0)
        /\ UNCHANGED <<refused, faults>>
     \/ /\ Fault
        /\ refused' = refused \cup {hand}
        /\ UNCHANGED <<rows, reply_to_idx>>
  /\ UNCHANGED <<lndVars, up, ended, hand, page, current_payment, catchup, request, snapshot,
                 reply_sent, webhooks, overtaken, ahead, before, disturbed, marked>>

(* process_triggers, awaited; when the triggers cannot be loaded there are *)
(* no effects.                                                             *)
RunTriggers ==
  /\ step = "trigger"
  /\ step' = "publish"
  /\ \/ webhooks' = [webhooks EXCEPT ![hand] = @ + 1] /\ UNCHANGED faults
     \/ Fault /\ UNCHANGED webhooks
  /\ UNCHANGED <<lndVars, up, ended, hand, page, current_payment, catchup, request, snapshot,
                 dbVars, overtaken, ahead, refused, before, disturbed, marked>>

(* The broadcast to the browsers, and the loop's assignment of the cursor. *)
Publish ==
  /\ step = "publish"
  /\ step' = "idle" /\ hand' = 0
  /\ current_payment' = hand
  /\ UNCHANGED <<lndVars, up, ended, page, catchup, request, snapshot, dbVars, webhooks,
                 histVars>>

(* The other panics: of parse_boost_from_payment, at a route without hops  *)
(* (another wallet's, or an attempt that has none), and of a row of the    *)
(* triggers that does not fit its record.                                  *)
Panic ==
  /\ Fault
  /\ (step = "idle" /\ page # {}) \/ step = "trigger"
  /\ ended' = TRUE /\ step' = "idle" /\ hand' = 0 /\ page' = {}
  /\ current_payment' = 0
  /\ UNCHANGED <<lndVars, up, catchup, request, snapshot, dbVars, webhooks, overtaken, ahead,
                 refused, before, disturbed, marked>>

----------------------------------------------------------------------------
(* api_v1_reply.  A request turned down before LND is asked to pay changes *)
(* nothing.                                                                *)

ReplySend(r, b, isBoost) ==
  /\ up /\ request[r] = Idle
  /\ Pay(isBoost, b)
  /\ request' = [request EXCEPT ![r] = [at |-> "sending", boost |-> b, payment |-> started']]
  /\ UNCHANGED <<pollVars, snapshot, dbVars, webhooks, histVars>>

(* Mutant of ReplyPaid: the newest completed payment is taken for the one  *)
(* that was sent.                                                          *)
ReplyPaidNewest(r) ==
  /\ request[r].at = "sending"
  /\ request[r].payment \in succeeded
  /\ request' = [request EXCEPT ![r].at = "storing", ![r].payment = Max(succeeded)]
  /\ UNCHANGED <<lndVars, pollVars, snapshot, dbVars, webhooks, histVars>>

(* send_payment reads the payment's stream until it has ended.  A payment  *)
(* that failed, or that does not parse back to a boost, ends the request   *)
(* with an error.                                                          *)
ReplyPaid(r) ==
  /\ request[r].at = "sending"
  /\ request[r].payment \in succeeded \cup lost
  /\ request' = [request EXCEPT ![r] =
                   IF @.payment \in succeeded \cap podcasting
                     THEN [@ EXCEPT !.at = "storing"] ELSE Idle]
  /\ UNCHANGED <<lndVars, pollVars, snapshot, dbVars, webhooks, histVars>>

(* The browser closes the connection while the handler waits for LND, and  *)
(* the handler is dropped; or the stream breaks.  LND pays all the same.   *)
ReplyDropped(r) ==
  /\ Fault
  /\ request[r].at = "sending"
  /\ request' = [request EXCEPT ![r] = Idle]
  /\ UNCHANGED <<lndVars, pollVars, snapshot, dbVars, webhooks, overtaken, ahead,
                 refused, before, disturbed, marked>>

(* The first statement of add_payment_to_db.  If it fails the second is    *)
(* not tried, and the request still answers with success.                  *)
ReplyStore(r) ==
  LET p == request[r].payment
  IN
  /\ request[r].at = "storing"
  /\ \/ /\ Upsert(p, request[r].boost)
        /\ ahead' = IF p > current_payment THEN ahead \cup {p} ELSE ahead
        /\ request' = [request EXCEPT ![r].at = "marking"]
        /\ UNCHANGED faults
     \/ /\ Fault
        /\ request' = [request EXCEPT ![r] = Idle]
        /\ UNCHANGED <<rows, reply_to_idx, ahead>>
  /\ UNCHANGED <<lndVars, pollVars, snapshot, reply_sent, webhooks, overtaken,
                 refused, before, disturbed, marked>>

(* Its second statement, on a connection of its own: mark_boost_as_replied. *)
ReplyMark(r) ==
  /\ request[r].at = "marking"
  /\ request' = [request EXCEPT ![r] = Idle]
  /\ \/ reply_sent' = reply_sent \cup {request[r].boost} /\ UNCHANGED faults
     \/ Fault /\ UNCHANGED reply_sent
  /\ UNCHANGED <<lndVars, pollVars, snapshot, rows, reply_to_idx, webhooks, overtaken,
                 ahead, refused, before, disturbed, marked>>

(* api_v1_mark_replied. *)
MarkReplied(b) ==
  /\ up
  /\ reply_sent' = reply_sent \cup {b}
  /\ marked' = marked \cup {b}
  /\ UNCHANGED <<lndVars, pollVars, request, snapshot, rows, reply_to_idx, webhooks,
                 overtaken, ahead, refused, before, disturbed, faults>>

(* api_v1_fetch_metadata reads the row, waits for the payment's web page,  *)
(* and writes the row it had read: every column but time and reply_sent.   *)
FetchRead(b) ==
  /\ up
  /\ \A s \in snapshot : s.boost # b    \* bound: one such request per boost
  /\ snapshot' = snapshot \cup {[boost |-> b, reply_sent |-> b \in reply_sent]}
  /\ UNCHANGED <<lndVars, pollVars, request, dbVars, webhooks, histVars>>

(* Mutant of FetchWrite: the UPDATE includes reply_sent. *)
FetchWriteAll(s) ==
  /\ s \in snapshot
  /\ snapshot' = snapshot \ {s}
  /\ reply_sent' = IF s.reply_sent THEN reply_sent \cup {s.boost} ELSE reply_sent \ {s.boost}
  /\ UNCHANGED <<lndVars, pollVars, request, rows, reply_to_idx, webhooks, histVars>>

FetchWrite(s) ==
  /\ s \in snapshot
  /\ snapshot' = snapshot \ {s}
  /\ UNCHANGED <<lndVars, pollVars, request, dbVars, webhooks, histVars>>

----------------------------------------------------------------------------
Crash ==
  /\ Fault
  /\ up
  /\ up' = FALSE /\ ended' = FALSE /\ step' = "idle" /\ hand' = 0 /\ page' = {}
  /\ current_payment' = 0 /\ catchup' = TRUE
  /\ request' = [r \in Requests |-> Idle]
  /\ snapshot' = {}
  /\ UNCHANGED <<lndVars, dbVars, webhooks, overtaken, ahead, refused, before,
                 disturbed, marked>>

Poller == Start \/ PollPayments \/ NextPayment \/ Insert \/ RunTriggers \/ Publish

Handler(r) == ReplyPaid(r) \/ ReplyStore(r) \/ ReplyMark(r)

Next ==
  \/ \E isBoost \in BOOLEAN : StartPayment(isBoost)
  \/ \E p \in Payment : EndPayment(p)
  \/ Poller \/ PollPaymentsFails \/ StartPanics \/ Panic \/ Crash
  \/ \E r \in Requests : \/ Handler(r) \/ ReplyDropped(r)
                         \/ \E b \in Boosts, isBoost \in BOOLEAN : ReplySend(r, b, isBoost)
  \/ \E b \in Boosts : MarkReplied(b) \/ FetchRead(b)
  \/ \E s \in snapshot : FetchWrite(s)

Spec == Init /\ [][Next]_vars

(* Both writers are tokio tasks that only ever wait for LND, whose calls   *)
(* return, and for SQLite.                                                 *)
FairSpec ==
  Spec /\ WF_vars(Poller) /\ \A r \in Requests : WF_vars(Handler(r))

----------------------------------------------------------------------------
TypeOK ==
  /\ started \in 0 .. MaxPayments
  /\ podcasting \subseteq 1 .. started
  /\ succeeded \subseteq 1 .. started
  /\ lost \subseteq 1 .. started
  /\ repliesTo \in [Payment -> OrNone(Boosts)]
  /\ up \in BOOLEAN
  /\ ended \in BOOLEAN
  /\ step \in {"idle", "insert", "trigger", "publish"}
  /\ hand \in 0 .. started
  /\ page \subseteq 1 .. started
  /\ current_payment \in 0 .. started
  /\ catchup \in BOOLEAN
  /\ request \in [Requests -> Reply \cup {Idle}]
  /\ snapshot \subseteq [boost : Boosts, reply_sent : BOOLEAN]
  /\ rows \subseteq 1 .. started
  /\ reply_to_idx \in [Payment -> OrNone(Boosts)]
  /\ reply_sent \subseteq Boosts
  /\ webhooks \in [Payment -> Nat]
  /\ overtaken \subseteq Payment
  /\ ahead \subseteq Payment
  /\ refused \subseteq Payment
  /\ before \subseteq Payment
  /\ disturbed \in BOOLEAN
  /\ marked \subseteq Boosts
  /\ faults \in 0 .. MaxFaults

(* A link from a sent boost to a received one is never wrong: whichever of *)
(* the two writers stores the payment first, and however often, the row    *)
(* links to the boost the payment was made to answer or to none.           *)
LinksAreTrue ==
  TypeOK /\ \A p \in rows : reply_to_idx[p] # 0 => reply_to_idx[p] = repliesTo[p]

(* Nothing is taken back: not a link, by the poller meeting a payment that *)
(* the reply handler has stored, nor a mark, by api_v1_fetch_metadata      *)
(* writing a row it had read before the mark was made.                     *)
RepliesArePermanent ==
  [][/\ \A p \in rows : reply_to_idx[p] # 0 => reply_to_idx'[p] = reply_to_idx[p]
     /\ reply_sent \subseteq reply_sent']_vars

(* Triggers run once at most for a sent boost, over restarts too, unless   *)
(* its insert had failed.                                                  *)
TriggersRunOnce == \A p \in Payment \ refused : webhooks[p] <= 1

(* What was paid before the process started is stored in silence: its      *)
(* triggers do not run, however many pages there are, and whatever is paid *)
(* meanwhile, unless a list_payments call fails on the way.                *)
HistoryIsSilent ==
  [][\A p \in before : webhooks'[p] > webhooks[p] => disturbed]_vars

(* A completed sent boost is stored in the end, unless its insert failed,  *)
(* or it was still under way when a later one was listed, or a reply with  *)
(* a higher index was stored before it, or the poller died of a panic.     *)
CompletedIsStored ==
  \A p \in Payment :
    (p \in succeeded \cap podcasting)
      ~> (ended \/ p \in rows \cup refused \cup overtaken \/ \E q \in ahead : q > p)
============================================================================
