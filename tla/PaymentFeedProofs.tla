------------------------- MODULE PaymentFeedProofs -------------------------
(***************************************************************************)
(* Proofs about PaymentFeed, for every number of payments, boosts, reply   *)
(* requests and faults and every page size: the links of the rows and the  *)
(* marks of the boosts are true and permanent, and triggers run once.      *)
(***************************************************************************)
EXTENDS PaymentFeed, OrderFacts, TLAPS

(* A link belongs to a stored payment, and is the true one. *)
LinksOK ==
  \A p \in Payment : reply_to_idx[p] # 0 => p \in rows /\ reply_to_idx[p] = repliesTo[p]

(* What a reply handler knows of its payment, at each of its awaits. *)
RequestsOK ==
  \A r \in Requests : request[r] # Idle =>
    /\ request[r].payment \in 1 .. started
    /\ repliesTo[request[r].payment] = request[r].boost
    /\ request[r].at \in {"storing", "marking"} => request[r].payment \in succeeded
    /\ request[r].at = "marking" => /\ request[r].payment \in rows
                                    /\ reply_to_idx[request[r].payment] = request[r].boost

(* The poller works its page off upwards, and its cursor stays below. *)
PollerOK ==
  /\ ~up \/ ended => step = "idle" /\ page = {}
  /\ step = "idle" => hand = 0
  /\ step # "idle" => current_payment < hand
  /\ step \in {"trigger", "publish"} => hand \in rows \cup refused
  /\ \A q \in page : current_payment < q /\ hand < q

(* The triggers of a payment have run once, it is stored, and the cursor   *)
(* has passed it or is about to.                                           *)
Finished(p) ==
  /\ webhooks[p] = 1 /\ p \in rows
  /\ up /\ ~ended => p <= current_payment \/ (step = "publish" /\ hand = p)

TriggersOK == \A p \in Payment \ refused : webhooks[p] = 0 \/ Finished(p)

(* A boost is marked as replied only by the user or once a completed       *)
(* payment that answers it is stored: a crash between the two statements   *)
(* of add_payment_to_db may leave the mark out, never put it in wrongly.   *)
RepliedIsBacked ==
  \A b \in reply_sent \ marked :
    \E p \in rows \cap succeeded : reply_to_idx[p] = b

(* The inductive invariant. *)
PaymentInv ==
  /\ TypeOK
  /\ LinksOK /\ RequestsOK /\ RepliedIsBacked
  /\ PollerOK /\ TriggersOK

----------------------------------------------------------------------------
(* SELECT MAX(idx) gives an index LND has given out, above every row. *)
LEMMA LastPaymentBound ==
  ASSUME TypeOK
  PROVE  /\ LastPaymentIndex \in 0 .. started
         /\ \A p \in rows : p <= LastPaymentIndex
<1>1. started \in Nat /\ rows \in SUBSET (0 .. started) /\ rows \subseteq 1 .. started
  BY PaymentAssumption DEF TypeOK, PaymentAssumption
<1>2. CASE rows = {}
  BY <1>1, <1>2 DEF LastPaymentIndex
<1>3. CASE rows # {}
  <2>1. \E m \in rows : \A k \in rows : k <= m
    BY <1>1, <1>3, GreatestNatural
  <2>2. Max(rows) \in rows /\ \A k \in rows : Max(rows) >= k
    <3>1. \E m \in rows : \A k \in rows : m >= k
      BY <1>1, <2>1
    <3> QED BY <3>1 DEF Max
  <2> QED BY <1>1, <1>3, <2>2 DEF LastPaymentIndex
<1> QED BY <1>2, <1>3

(* The payment the poller takes next is the lowest of its page. *)
LEMMA NextOfPage ==
  ASSUME TypeOK, page # {}
  PROVE  Min(page) \in page /\ \A q \in page : Min(page) <= q
<1>1. page \in SUBSET Nat
  BY DEF TypeOK
<1>2. \E m \in page : \A k \in page : m <= k
  BY <1>1, LeastNatural
<1> QED BY <1>2 DEF Min

(* Numbers that the steps of the model stay within. *)
LEMMA Ranges ==
  ASSUME TypeOK
  PROVE  /\ MaxPayments \in Nat /\ started \in Nat /\ started <= MaxPayments
         /\ current_payment \in Nat /\ hand \in Nat
         /\ page \subseteq 1 .. started /\ rows \subseteq 1 .. started
         /\ 1 .. started \subseteq Payment
BY PaymentAssumption DEF TypeOK, Payment, PaymentAssumption

----------------------------------------------------------------------------
(* The system starts with nothing paid, stored or marked. *)
LEMMA PaymentStarts == Init => PaymentInv
<1> SUFFICES ASSUME Init PROVE PaymentInv
  OBVIOUS
<1>1. TypeOK
  <2>1. request \in [Requests -> Reply \cup {Idle}]
    BY DEF Init
  <2>2. /\ repliesTo \in [Payment -> OrNone(Boosts)] /\ reply_to_idx \in [Payment -> OrNone(Boosts)]
        /\ webhooks \in [Payment -> Nat]
    BY DEF Init, OrNone
  <2>3. started \in 0 .. MaxPayments /\ faults \in 0 .. MaxFaults
    BY PaymentAssumption DEF Init, PaymentAssumption
  <2>4. up \in BOOLEAN /\ ended \in BOOLEAN /\ catchup \in BOOLEAN /\ disturbed \in BOOLEAN
    BY DEF Init
  <2> QED BY <2>1, <2>2, <2>3, <2>4 DEF Init, TypeOK
<1>2. LinksOK /\ RequestsOK /\ RepliedIsBacked /\ PollerOK
  BY DEF Init, LinksOK, RequestsOK, RepliedIsBacked, PollerOK
<1>3. TriggersOK
  BY DEF Init, TriggersOK
<1> QED BY <1>1, <1>2, <1>3 DEF PaymentInv

(* Starting a payment gives out the next index and disturbs nothing known  *)
(* of the earlier ones.                                                    *)
LEMMA PayFacts ==
  ASSUME TypeOK, NEW isBoost \in BOOLEAN, NEW b \in OrNone(Boosts), Pay(isBoost, b)
  PROVE  /\ started' = started + 1 /\ started' \in 1 .. MaxPayments
         /\ 1 .. started \subseteq 1 .. started'
         /\ podcasting' \subseteq 1 .. started' /\ succeeded' = succeeded /\ lost' = lost
         /\ succeeded \subseteq 1 .. started' /\ lost \subseteq 1 .. started'
         /\ repliesTo' \in [Payment -> OrNone(Boosts)]
         /\ repliesTo'[started'] = b
         /\ \A p \in 1 .. started : repliesTo'[p] = repliesTo[p]
<1>1. started' = started + 1 /\ started' \in 1 .. MaxPayments /\ started \in Nat
  BY Ranges DEF Pay
<1>2. 1 .. started \subseteq 1 .. started' /\ started' \in 1 .. started' /\ started + 1 \in Payment
  BY <1>1 DEF Payment
<1>3. /\ podcasting \subseteq 1 .. started /\ succeeded \subseteq 1 .. started
      /\ lost \subseteq 1 .. started /\ repliesTo \in [Payment -> OrNone(Boosts)]
  BY DEF TypeOK
<1>4. succeeded' = succeeded /\ lost' = lost /\ podcasting' \subseteq podcasting \cup {started'}
  BY <1>1 DEF Pay
<1>5. repliesTo' = [repliesTo EXCEPT ![started + 1] = b]
  BY DEF Pay
<1>6. /\ repliesTo' \in [Payment -> OrNone(Boosts)] /\ repliesTo'[started + 1] = b
      /\ \A p \in 1 .. started : repliesTo'[p] = repliesTo[p]
  BY <1>1, <1>2, <1>3, <1>5
<1> QED BY <1>1, <1>2, <1>3, <1>4, <1>6

(* An upsert keeps the types of the table. *)
LEMMA UpsertType ==
  ASSUME TypeOK, NEW p \in 1 .. started, NEW b \in OrNone(Boosts), Upsert(p, b)
  PROVE  rows' \subseteq 1 .. started /\ reply_to_idx' \in [Payment -> OrNone(Boosts)]
<1>1. rows \subseteq 1 .. started /\ reply_to_idx \in [Payment -> OrNone(Boosts)]
  BY DEF TypeOK
<1> QED BY <1>1 DEF Upsert

(* Every step of the system keeps the types. *)
LEMMA TypeStep ==
  ASSUME TypeOK, RequestsOK, PollerOK, Next
  PROVE  TypeOK'
<1> USE Ranges DEF TypeOK
<1>1. ASSUME NEW isBoost \in BOOLEAN, StartPayment(isBoost)
      PROVE  TypeOK'
  <2>1. Pay(isBoost, 0) /\ 0 \in OrNone(Boosts)
    BY <1>1 DEF StartPayment, OrNone
  <2>2. UNCHANGED <<pollVars, request, snapshot, dbVars, webhooks, histVars>>
    BY <1>1 DEF StartPayment
  <2>3. current_payment' \in 0 .. started' /\ hand' \in 0 .. started'
    BY <2>1, <2>2, PayFacts DEF pollVars
  <2>4. page' \subseteq 1 .. started' /\ rows' \subseteq 1 .. started'
    BY <2>1, <2>2, PayFacts DEF pollVars, dbVars
  <2>5. started' \in 0 .. MaxPayments
    BY <2>1, PayFacts
  <2> QED BY <2>1, <2>2, <2>3, <2>4, <2>5, PayFacts DEF pollVars, dbVars, histVars
<1>2. ASSUME NEW p \in Payment, EndPayment(p)
      PROVE  TypeOK'
  BY <1>2 DEF EndPayment, UnderWay, pollVars, dbVars, histVars
<1>3. ASSUME Start
      PROVE  TypeOK'
  <2>1. current_payment' \in 0 .. started
    BY <1>3, LastPaymentBound DEF Start
  <2>2. before' \subseteq Payment
    BY <1>3 DEF Start
  <2>3. up' \in BOOLEAN /\ catchup' \in BOOLEAN /\ disturbed' \in BOOLEAN
    BY <1>3 DEF Start
  <2> QED BY <1>3, <2>1, <2>2, <2>3 DEF Start, lndVars, dbVars
<1>4. ASSUME PollPayments
      PROVE  TypeOK'
  <2>1. page' \subseteq 1 .. started
    BY <1>4 DEF PollPayments, Listed
  <2>2. catchup' \in BOOLEAN
    BY <1>4 DEF PollPayments
  <2>3. overtaken' \subseteq Payment
    BY <1>4 DEF PollPayments, UnderWay
  <2> QED BY <1>4, <2>1, <2>2, <2>3 DEF PollPayments, lndVars, dbVars
<1>5. ASSUME PollPaymentsFails
      PROVE  TypeOK'
  <2>1. faults' \in 0 .. MaxFaults
    BY <1>5, PaymentAssumption DEF PollPaymentsFails, Fault, PaymentAssumption
  <2>2. catchup' \in BOOLEAN /\ disturbed' \in BOOLEAN
    BY <1>5 DEF PollPaymentsFails
  <2> QED BY <1>5, <2>1, <2>2 DEF PollPaymentsFails, lndVars, dbVars
<1>6. ASSUME NextPayment
      PROVE  TypeOK'
  <2>1. Min(page) \in page
    BY <1>6, NextOfPage DEF NextPayment
  <2>2. /\ hand' \in {hand, Min(page)} /\ current_payment' \in {current_payment, Min(page)}
        /\ page' \subseteq page /\ step' \in {step, "insert"}
    BY <1>6 DEF NextPayment
  <2>3. hand' \in 0 .. started /\ current_payment' \in 0 .. started /\ page' \subseteq 1 .. started
    BY <2>1, <2>2
  <2>4. UNCHANGED <<lndVars, up, ended, catchup, request, snapshot, dbVars, webhooks, histVars>>
    BY <1>6 DEF NextPayment
  <2> QED BY <2>2, <2>3, <2>4 DEF lndVars, dbVars, histVars
<1>7. ASSUME Insert
      PROVE  TypeOK'
  <2>1. hand \in 1 .. started
    BY <1>7 DEF Insert, PollerOK
  <2>2. rows' \subseteq 1 .. started /\ reply_to_idx' \in [Payment -> OrNone(Boosts)]
    <3>1. CASE Upsert(hand, 0)
      BY <2>1, <3>1, UpsertType DEF OrNone
    <3>2. CASE UNCHANGED <<rows, reply_to_idx>>
      BY <3>2
    <3> QED BY <1>7, <3>1, <3>2 DEF Insert
  <2>3. refused' \subseteq Payment /\ faults' \in 0 .. MaxFaults
    BY <1>7, <2>1, PaymentAssumption DEF Insert, Fault, PaymentAssumption
  <2>4. step' \in {"trigger", "publish"}
    BY <1>7 DEF Insert
  <2>5. UNCHANGED <<lndVars, up, ended, hand, page, current_payment, catchup, request, snapshot,
                    reply_sent, webhooks, overtaken, ahead, before, disturbed, marked>>
    BY <1>7 DEF Insert
  <2> QED BY <2>2, <2>3, <2>4, <2>5 DEF lndVars
<1>8. ASSUME RunTriggers
      PROVE  TypeOK'
  <2>1. hand \in Payment
    BY <1>8 DEF RunTriggers, PollerOK
  <2>2. webhooks' \in [Payment -> Nat]
    BY <1>8, <2>1 DEF RunTriggers
  <2>3. faults' \in 0 .. MaxFaults /\ step' = "publish"
    BY <1>8, PaymentAssumption DEF RunTriggers, Fault, PaymentAssumption
  <2>4. UNCHANGED <<lndVars, up, ended, hand, page, current_payment, catchup, request, snapshot,
                    dbVars, overtaken, ahead, refused, before, disturbed, marked>>
    BY <1>8 DEF RunTriggers
  <2> QED BY <2>2, <2>3, <2>4 DEF lndVars, dbVars
<1>9. ASSUME Publish
      PROVE  TypeOK'
  BY <1>9 DEF Publish, lndVars, dbVars, histVars
<1>10. ASSUME Crash
       PROVE  TypeOK'
  <2>1. request' \in [Requests -> Reply \cup {Idle}]
    BY <1>10 DEF Crash
  <2>2. faults' \in 0 .. MaxFaults
    BY <1>10, PaymentAssumption DEF Crash, Fault, PaymentAssumption
  <2>3. up' \in BOOLEAN /\ ended' \in BOOLEAN /\ catchup' \in BOOLEAN
    BY <1>10 DEF Crash
  <2> QED BY <1>10, <2>1, <2>2, <2>3 DEF Crash, lndVars, dbVars
<1>11. ASSUME NEW r \in Requests, NEW b \in Boosts, NEW isBoost \in BOOLEAN,
              ReplySend(r, b, isBoost)
       PROVE  TypeOK'
  <2>1. Pay(isBoost, b) /\ b \in OrNone(Boosts)
    BY <1>11 DEF ReplySend, OrNone
  <2>2. UNCHANGED <<pollVars, snapshot, dbVars, webhooks, histVars>>
    BY <1>11 DEF ReplySend
  <2>3. current_payment' \in 0 .. started' /\ hand' \in 0 .. started'
    BY <2>1, <2>2, PayFacts DEF pollVars
  <2>4. page' \subseteq 1 .. started' /\ rows' \subseteq 1 .. started'
    BY <2>1, <2>2, PayFacts DEF pollVars, dbVars
  <2>5. started' \in 0 .. MaxPayments /\ started' \in Payment
    BY <2>1, PayFacts DEF Payment
  <2>6. request' \in [Requests -> Reply \cup {Idle}]
    <3>1. [at |-> "sending", boost |-> b, payment |-> started'] \in Reply
      BY <2>5 DEF Reply
    <3> QED BY <1>11, <3>1 DEF ReplySend
  <2> QED BY <2>1, <2>2, <2>3, <2>4, <2>5, <2>6, PayFacts DEF pollVars, dbVars, histVars
<1>12. ASSUME NEW r \in Requests, ReplyPaid(r) \/ ReplyDropped(r)
       PROVE  TypeOK'
  <2>1. request[r] \in Reply
    BY <1>12 DEF ReplyPaid, ReplyDropped, Idle
  <2>2. [request[r] EXCEPT !.at = "storing"] \in Reply
    BY <2>1 DEF Reply
  <2>3. \E e \in Reply \cup {Idle} : request' = [request EXCEPT ![r] = e]
    BY <1>12, <2>2 DEF ReplyPaid, ReplyDropped
  <2>4. request' \in [Requests -> Reply \cup {Idle}]
    BY <2>3
  <2>5. faults' \in 0 .. MaxFaults
    BY <1>12, PaymentAssumption DEF ReplyPaid, ReplyDropped, Fault, histVars, PaymentAssumption
  <2>6. UNCHANGED <<lndVars, pollVars, snapshot, dbVars, webhooks, overtaken, ahead,
                    refused, before, disturbed, marked>>
    BY <1>12 DEF ReplyPaid, ReplyDropped, histVars
  <2> QED BY <2>4, <2>5, <2>6 DEF lndVars, pollVars, dbVars
<1>13. ASSUME NEW r \in Requests, ReplyStore(r)
       PROVE  TypeOK'
  <2>1. request[r] \in Reply
    BY <1>13 DEF ReplyStore, Idle
  <2>2. request[r].payment \in 1 .. started /\ request[r].boost \in OrNone(Boosts)
    BY <1>13, <2>1 DEF ReplyStore, RequestsOK, Idle, Reply, OrNone
  <2>3. rows' \subseteq 1 .. started /\ reply_to_idx' \in [Payment -> OrNone(Boosts)]
    <3>1. CASE Upsert(request[r].payment, request[r].boost)
      BY <2>2, <3>1, UpsertType
    <3>2. CASE UNCHANGED <<rows, reply_to_idx>>
      BY <3>2
    <3> QED BY <1>13, <3>1, <3>2 DEF ReplyStore
  <2>4. [request[r] EXCEPT !.at = "marking"] \in Reply
    BY <2>1 DEF Reply
  <2>5. request' \in [Requests -> Reply \cup {Idle}]
    <3>1. \E e \in Reply \cup {Idle} : request' = [request EXCEPT ![r] = e]
      BY <1>13, <2>4 DEF ReplyStore
    <3> QED BY <3>1
  <2>6. ahead' \subseteq Payment /\ faults' \in 0 .. MaxFaults
    BY <1>13, <2>2, PaymentAssumption DEF ReplyStore, Fault, PaymentAssumption
  <2>7. UNCHANGED <<lndVars, pollVars, snapshot, reply_sent, webhooks, overtaken,
                    refused, before, disturbed, marked>>
    BY <1>13 DEF ReplyStore
  <2> QED BY <2>3, <2>5, <2>6, <2>7 DEF lndVars, pollVars
<1>14. ASSUME NEW r \in Requests, ReplyMark(r)
       PROVE  TypeOK'
  <2>1. request[r] \in Reply
    BY <1>14 DEF ReplyMark, Idle
  <2>2. reply_sent' \subseteq Boosts
    BY <1>14, <2>1 DEF ReplyMark, Reply
  <2>3. faults' \in 0 .. MaxFaults
    BY <1>14, PaymentAssumption DEF ReplyMark, Fault, PaymentAssumption
  <2>4. request' \in [Requests -> Reply \cup {Idle}]
    BY <1>14 DEF ReplyMark
  <2>5. UNCHANGED <<lndVars, pollVars, snapshot, rows, reply_to_idx, webhooks, overtaken,
                    ahead, refused, before, disturbed, marked>>
    BY <1>14 DEF ReplyMark
  <2> QED BY <2>2, <2>3, <2>4, <2>5 DEF lndVars, pollVars
<1>15. ASSUME NEW b \in Boosts, MarkReplied(b) \/ FetchRead(b)
       PROVE  TypeOK'
  <2>1. reply_sent' \subseteq Boosts /\ marked' \subseteq Boosts
    BY <1>15 DEF MarkReplied, FetchRead, dbVars, histVars
  <2>2. snapshot' \subseteq [boost : Boosts, reply_sent : BOOLEAN]
    <3> DEFINE e == [boost |-> b, reply_sent |-> b \in reply_sent]
    <3>1. e \in [boost : Boosts, reply_sent : BOOLEAN]
      <4>1. (b \in reply_sent) \in BOOLEAN
        OBVIOUS
      <4> QED BY <4>1
    <3>2. snapshot' \subseteq snapshot \cup {e}
      BY <1>15 DEF MarkReplied, FetchRead
    <3> HIDE DEF e
    <3>3. snapshot \subseteq [boost : Boosts, reply_sent : BOOLEAN]
      OBVIOUS
    <3> QED BY <3>1, <3>2, <3>3
  <2>3. UNCHANGED <<lndVars, pollVars, request, rows, reply_to_idx, webhooks,
                    overtaken, ahead, refused, before, disturbed, faults>>
    BY <1>15 DEF MarkReplied, FetchRead, dbVars, histVars
  <2> QED BY <2>1, <2>2, <2>3 DEF lndVars, pollVars
<1>16. ASSUME NEW s \in snapshot, FetchWrite(s)
       PROVE  TypeOK'
  BY <1>16 DEF FetchWrite, lndVars, pollVars, dbVars, histVars
<1>17. ASSUME StartPanics \/ Panic
       PROVE  TypeOK'
  <2>1. faults' \in 0 .. MaxFaults
    BY <1>17, PaymentAssumption DEF StartPanics, Panic, Fault, PaymentAssumption
  <2>2. /\ up' \in BOOLEAN /\ ended' \in BOOLEAN /\ disturbed' \in BOOLEAN
        /\ step' \in {step, "idle"} /\ hand' \in {hand, 0} /\ page' \subseteq page
        /\ current_payment' \in {current_payment, 0} /\ before' \subseteq Payment
    BY <1>17 DEF StartPanics, Panic
  <2>3. UNCHANGED <<lndVars, catchup, request, snapshot, dbVars, webhooks, overtaken,
                    ahead, refused, marked>>
    BY <1>17 DEF StartPanics, Panic
  <2> QED BY <2>1, <2>2, <2>3 DEF lndVars, dbVars
<1> HIDE DEF TypeOK
<1> QED BY <1>1, <1>2, <1>3, <1>4, <1>5, <1>6, <1>7, <1>8, <1>9, <1>10, <1>11, <1>12,
           <1>13, <1>14, <1>15, <1>16, <1>17 DEF Next, Poller, Handler

----------------------------------------------------------------------------
(* An upsert puts the row in, and leaves every link as it is but the one   *)
(* of this row, if it had none.                                            *)
LEMMA UpsertFacts ==
  ASSUME TypeOK, NEW p \in 1 .. started, NEW b \in OrNone(Boosts), Upsert(p, b)
  PROVE  /\ rows' = rows \cup {p}
         /\ \A q \in Payment : q # p => reply_to_idx'[q] = reply_to_idx[q]
         /\ reply_to_idx'[p] = IF reply_to_idx[p] = 0 THEN b ELSE reply_to_idx[p]
<1>1. p \in Payment /\ reply_to_idx \in [Payment -> OrNone(Boosts)]
  BY Ranges DEF TypeOK
<1> QED BY <1>1 DEF Upsert

(* Every step keeps the links and the marks true.                          *)
LEMMA LinkStep ==
  ASSUME PaymentInv, Next
  PROVE  LinksOK' /\ RequestsOK' /\ RepliedIsBacked'
<1>0. TypeOK /\ LinksOK /\ RequestsOK /\ RepliedIsBacked /\ PollerOK
  BY DEF PaymentInv
<1>a. 0 \notin Boosts
  BY PaymentAssumption DEF PaymentAssumption
<1>b. \A r \in Requests : request[r] \in Reply \cup {Idle}
  BY <1>0 DEF TypeOK
(* Steps that leave the rows and the requests alone. *)
<1>1. ASSUME UNCHANGED <<started, repliesTo, rows, reply_to_idx>>,
             succeeded \subseteq succeeded', request' = request,
             reply_sent' \ marked' \subseteq reply_sent \ marked
      PROVE  LinksOK' /\ RequestsOK' /\ RepliedIsBacked'
  <2>1. LinksOK'
    BY <1>0, <1>1 DEF LinksOK
  <2>2. RequestsOK'
    BY <1>0, <1>1 DEF RequestsOK
  <2>3. RepliedIsBacked'
    BY <1>0, <1>1 DEF RepliedIsBacked
  <2> QED BY <2>1, <2>2, <2>3
(* A payment starts, for a request or for another wallet. *)
<1>2. ASSUME NEW isBoost \in BOOLEAN, NEW b \in OrNone(Boosts), Pay(isBoost, b),
             UNCHANGED <<dbVars, histVars>>,
             \A r \in Requests :
               \/ request'[r] = request[r]
               \/ request'[r] = [at |-> "sending", boost |-> b, payment |-> started']
      PROVE  LinksOK' /\ RequestsOK' /\ RepliedIsBacked'
  <2>1. UNCHANGED <<rows, reply_to_idx, reply_sent, marked>> /\ rows \subseteq 1 .. started
    BY <1>0, <1>2 DEF dbVars, histVars, TypeOK
  <2>2. LinksOK'
    BY <1>0, <1>2, <2>1, PayFacts DEF LinksOK
  <2>3. RepliedIsBacked'
    BY <1>0, <1>2, <2>1, PayFacts DEF RepliedIsBacked
  <2>4. RequestsOK'
    <3> SUFFICES ASSUME NEW r \in Requests, request'[r] # Idle
                 PROVE  RequestsOK!(r)!2'
      BY DEF RequestsOK
    <3>1. CASE request'[r] = [at |-> "sending", boost |-> b, payment |-> started']
      <4>1. started' \in 1 .. started' /\ repliesTo'[started'] = b
        BY <1>0, <1>2, PayFacts
      <4> QED BY <1>2, <3>1, <4>1
    <3>2. CASE request'[r] = request[r]
      <4>1. request'[r] = request[r] /\ succeeded' = succeeded
        BY <1>0, <1>2, <3>2, PayFacts
      <4>2. request[r].payment \in 1 .. started
        BY <1>0, <4>1 DEF RequestsOK
      <4>3. /\ request[r].payment \in 1 .. started'
            /\ repliesTo'[request[r].payment] = repliesTo[request[r].payment]
        BY <1>0, <1>2, <4>2, PayFacts
      <4> QED BY <1>0, <2>1, <4>1, <4>3 DEF RequestsOK
    <3> QED BY <1>2, <3>1, <3>2
  <2> QED BY <2>2, <2>3, <2>4
(* A request goes on, or ends. *)
<1>3. ASSUME UNCHANGED <<started, succeeded, repliesTo, rows, reply_to_idx, marked>>,
             \A r \in Requests :
               \/ request'[r] = Idle
               \/ request'[r] = request[r]
               \/ /\ request[r] # Idle /\ request[r].payment \in succeeded
                  /\ request'[r] = [request[r] EXCEPT !.at = "storing"],
             \A b \in reply_sent' \ reply_sent : \E r \in Requests :
                request[r].at = "marking" /\ b = request[r].boost
      PROVE  LinksOK' /\ RequestsOK' /\ RepliedIsBacked'
  <2>1. LinksOK'
    BY <1>0, <1>3 DEF LinksOK
  <2>2. RequestsOK'
    <3> SUFFICES ASSUME NEW r \in Requests, request'[r] # Idle
                 PROVE  RequestsOK!(r)!2'
      BY DEF RequestsOK
    <3>1. CASE request'[r] = request[r]
      BY <1>0, <1>3, <3>1 DEF RequestsOK
    <3>2. CASE /\ request[r] # Idle /\ request[r].payment \in succeeded
               /\ request'[r] = [request[r] EXCEPT !.at = "storing"]
      <4>1. request[r] \in Reply
        BY <1>b, <3>2
      <4>2. /\ request'[r].at = "storing" /\ request'[r].payment = request[r].payment
            /\ request'[r].boost = request[r].boost
        BY <3>2, <4>1 DEF Reply
      <4> QED BY <1>0, <1>3, <3>2, <4>2 DEF RequestsOK
    <3> QED BY <1>3, <3>1, <3>2
  <2>3. RepliedIsBacked'
    <3> SUFFICES ASSUME NEW b \in reply_sent' \ marked'
                 PROVE  \E p \in rows \cap succeeded : reply_to_idx[p] = b
      BY <1>3 DEF RepliedIsBacked
    <3>1. CASE b \in reply_sent
      BY <1>0, <1>3, <3>1 DEF RepliedIsBacked
    <3>2. CASE b \notin reply_sent
      <4>1. PICK r \in Requests : request[r].at = "marking" /\ b = request[r].boost
        BY <1>3, <3>2
      <4>2. request[r] # Idle
        BY <4>1 DEF Idle
      <4> QED BY <1>0, <4>1, <4>2 DEF RequestsOK
    <3> QED BY <3>1, <3>2
  <2> QED BY <2>1, <2>2, <2>3
(* A row is stored, by the poller or by a request. *)
<1>4. ASSUME NEW p \in 1 .. started, NEW b \in OrNone(Boosts), Upsert(p, b),
             b = 0 \/ b = repliesTo[p],
             UNCHANGED <<started, succeeded, repliesTo, reply_sent, marked>>,
             \A r \in Requests :
               \/ request'[r] = request[r]
               \/ /\ request[r] # Idle /\ request[r].payment = p /\ request[r].boost = b
                  /\ p \in succeeded
                  /\ request'[r] = [request[r] EXCEPT !.at = "marking"]
      PROVE  LinksOK' /\ RequestsOK' /\ RepliedIsBacked'
  <2>1. p \in Payment /\ 1 .. started \subseteq Payment
    BY <1>0, Ranges
  <2>2. LinksOK'
    BY <1>0, <1>4, <2>1, UpsertFacts DEF LinksOK
  <2>3. \A q \in Payment : reply_to_idx[q] # 0 => reply_to_idx'[q] = reply_to_idx[q]
    BY <1>0, <1>4, UpsertFacts
  <2>4. rows \subseteq rows' /\ p \in rows' /\ rows \subseteq Payment
    BY <1>0, <1>4, <2>1, UpsertFacts DEF TypeOK
  <2>5. RepliedIsBacked'
    <3> SUFFICES ASSUME NEW c \in reply_sent \ marked
                 PROVE  \E q \in rows' \cap succeeded : reply_to_idx'[q] = c
      BY <1>4 DEF RepliedIsBacked
    <3>1. PICK q \in rows \cap succeeded : reply_to_idx[q] = c
      BY <1>0 DEF RepliedIsBacked
    <3>2. c # 0
      BY <1>0, <1>a DEF TypeOK
    <3> QED BY <2>3, <2>4, <3>1, <3>2
  <2>6. RequestsOK'
    <3> SUFFICES ASSUME NEW r \in Requests, request'[r] # Idle
                 PROVE  RequestsOK!(r)!2'
      BY DEF RequestsOK
    <3>1. CASE request'[r] = request[r]
      <4>1. request[r].boost # 0
        BY <1>a, <1>b, <3>1 DEF Reply
      <4>2. request[r].payment \in Payment
        BY <1>0, <2>1, <3>1 DEF RequestsOK
      <4>3. request[r].at = "marking" =>
              reply_to_idx'[request[r].payment] = request[r].boost
        BY <1>0, <2>3, <3>1, <4>1, <4>2 DEF RequestsOK
      <4> QED BY <1>0, <1>4, <2>4, <3>1, <4>3 DEF RequestsOK
    <3>2. CASE /\ request[r] # Idle /\ request[r].payment = p /\ request[r].boost = b
               /\ p \in succeeded
               /\ request'[r] = [request[r] EXCEPT !.at = "marking"]
      <4>1. request[r] \in Reply
        BY <1>b, <3>2
      <4>2. /\ request'[r].at = "marking" /\ request'[r].payment = p
            /\ request'[r].boost = b /\ b # 0
        BY <1>a, <3>2, <4>1 DEF Reply
      <4>3. reply_to_idx'[p] = b
        BY <1>0, <1>4, <2>1, <4>2, UpsertFacts DEF LinksOK
      <4>4. repliesTo[p] = b
        BY <1>4, <4>2
      <4> QED BY <1>4, <2>4, <3>2, <4>2, <4>3, <4>4
    <3> QED BY <1>4, <3>1, <3>2
  <2> QED BY <2>2, <2>5, <2>6
(* Each action is a step of one of the four kinds. *)
<1>5. ASSUME NEW isBoost \in BOOLEAN, StartPayment(isBoost)
      PROVE  LinksOK' /\ RequestsOK' /\ RepliedIsBacked'
  <2>1. /\ Pay(isBoost, 0) /\ 0 \in OrNone(Boosts) /\ UNCHANGED <<dbVars, histVars>>
        /\ \A r \in Requests : request'[r] = request[r]
    BY <1>5 DEF StartPayment, OrNone
  <2> QED BY <1>2, <2>1
<1>6. ASSUME \/ \E p \in Payment : EndPayment(p)
             \/ Start \/ PollPayments \/ PollPaymentsFails \/ NextPayment \/ RunTriggers \/ Publish
             \/ StartPanics \/ Panic
             \/ \E b \in Boosts : MarkReplied(b) \/ FetchRead(b)
             \/ \E s \in snapshot : FetchWrite(s)
      PROVE  LinksOK' /\ RequestsOK' /\ RepliedIsBacked'
  <2>1. UNCHANGED <<started, repliesTo, rows, reply_to_idx, request>>
    BY <1>6 DEF EndPayment, Start, PollPayments, PollPaymentsFails, NextPayment, RunTriggers,
                Publish, StartPanics, Panic, MarkReplied, FetchRead, FetchWrite, lndVars, dbVars
  <2>2. succeeded \subseteq succeeded'
    BY <1>6 DEF EndPayment, Start, PollPayments, PollPaymentsFails, NextPayment, RunTriggers,
                Publish, StartPanics, Panic, MarkReplied, FetchRead, FetchWrite, lndVars
  <2>3. reply_sent' \ marked' \subseteq reply_sent \ marked
    BY <1>6 DEF EndPayment, Start, PollPayments, PollPaymentsFails, NextPayment, RunTriggers,
                Publish, StartPanics, Panic, MarkReplied, FetchRead, FetchWrite, dbVars, histVars
  <2> QED BY <1>1, <2>1, <2>2, <2>3
<1>7. ASSUME Insert
      PROVE  LinksOK' /\ RequestsOK' /\ RepliedIsBacked'
  <2>1. UNCHANGED <<started, succeeded, repliesTo, reply_sent, marked, request>>
    BY <1>7 DEF Insert, lndVars
  <2>2. CASE Upsert(hand, 0)
    <3>1. hand \in 1 .. started /\ 0 \in OrNone(Boosts)
      BY <1>0, <1>7, Ranges DEF Insert, PollerOK, TypeOK, OrNone
    <3> QED BY <1>4, <2>1, <2>2, <3>1
  <2>3. CASE UNCHANGED <<rows, reply_to_idx>>
    BY <1>1, <2>1, <2>3
  <2> QED BY <1>7, <2>2, <2>3 DEF Insert
<1>8. ASSUME NEW r \in Requests, NEW b \in Boosts, NEW isBoost \in BOOLEAN,
             ReplySend(r, b, isBoost)
      PROVE  LinksOK' /\ RequestsOK' /\ RepliedIsBacked'
  <2>1. /\ Pay(isBoost, b) /\ b \in OrNone(Boosts) /\ UNCHANGED <<dbVars, histVars>>
        /\ request' = [request EXCEPT ![r] = [at |-> "sending", boost |-> b, payment |-> started']]
    BY <1>8 DEF ReplySend, OrNone
  <2>2. \A q \in Requests :
          \/ request'[q] = request[q]
          \/ request'[q] = [at |-> "sending", boost |-> b, payment |-> started']
    BY <1>0, <2>1 DEF TypeOK
  <2> QED BY <1>2, <2>1, <2>2
<1>9. ASSUME \/ \E r \in Requests : ReplyPaid(r) \/ ReplyDropped(r) \/ ReplyMark(r)
             \/ Crash
      PROVE  LinksOK' /\ RequestsOK' /\ RepliedIsBacked'
  <2>1. UNCHANGED <<started, succeeded, repliesTo, rows, reply_to_idx, marked>>
    BY <1>9 DEF ReplyPaid, ReplyDropped, ReplyMark, Crash, lndVars, dbVars, histVars
  <2>2. \A r \in Requests :
          \/ request'[r] = Idle
          \/ request'[r] = request[r]
          \/ /\ request[r] # Idle /\ request[r].payment \in succeeded
             /\ request'[r] = [request[r] EXCEPT !.at = "storing"]
    BY <1>0, <1>9 DEF ReplyPaid, ReplyDropped, ReplyMark, Crash, TypeOK, Idle
  <2>3. \A b \in reply_sent' \ reply_sent : \E r \in Requests :
          request[r].at = "marking" /\ b = request[r].boost
    BY <1>9 DEF ReplyPaid, ReplyDropped, ReplyMark, Crash, dbVars
  <2> QED BY <1>3, <2>1, <2>2, <2>3
<1>10. ASSUME NEW r \in Requests, ReplyStore(r)
       PROVE  LinksOK' /\ RequestsOK' /\ RepliedIsBacked'
  <2>1. request[r] # Idle /\ UNCHANGED <<started, succeeded, repliesTo, reply_sent, marked>>
    BY <1>10 DEF ReplyStore, Idle, lndVars
  <2>2. CASE Upsert(request[r].payment, request[r].boost)
             /\ request' = [request EXCEPT ![r].at = "marking"]
    <3> DEFINE p == request[r].payment
               b == request[r].boost
    <3>1. p \in 1 .. started /\ b = repliesTo[p] /\ p \in succeeded
      BY <1>0, <1>10, <2>1 DEF RequestsOK, ReplyStore
    <3>2. b \in OrNone(Boosts)
      BY <1>b, <2>1 DEF Reply, OrNone
    <3>3. \A q \in Requests :
            \/ request'[q] = request[q]
            \/ /\ request[q] # Idle /\ request[q].payment = p /\ request[q].boost = b
               /\ p \in succeeded
               /\ request'[q] = [request[q] EXCEPT !.at = "marking"]
      <4>1. request'[r] = [request[r] EXCEPT !.at = "marking"]
        BY <1>0, <2>2 DEF TypeOK
      <4>2. \A q \in Requests : q # r => request'[q] = request[q]
        BY <1>0, <2>2 DEF TypeOK
      <4> QED BY <2>1, <3>1, <4>1, <4>2
    <3>4. Upsert(p, b)
      BY <2>2
    <3> HIDE DEF p, b
    <3> QED BY <1>4, <2>1, <3>1, <3>2, <3>3, <3>4
  <2>3. CASE UNCHANGED <<rows, reply_to_idx>> /\ request' = [request EXCEPT ![r] = Idle]
    <3>1. \A q \in Requests : request'[q] = Idle \/ request'[q] = request[q]
      BY <1>0, <2>3 DEF TypeOK
    <3> QED BY <1>3, <2>1, <2>3, <3>1
  <2> QED BY <1>10, <2>2, <2>3 DEF ReplyStore
<1> QED BY <1>5, <1>6, <1>7, <1>8, <1>9, <1>10 DEF Next, Poller, Handler

----------------------------------------------------------------------------
(* Every step keeps the poller's order, and the triggers to one run.       *)
LEMMA PollStep ==
  ASSUME PaymentInv, Next, TypeOK'
  PROVE  PollerOK' /\ TriggersOK'
<1>0. TypeOK /\ PollerOK /\ TriggersOK
  BY DEF PaymentInv
<1>a. /\ current_payment \in Nat /\ hand \in Nat /\ page \subseteq Nat
      /\ Payment \subseteq Nat /\ rows \subseteq Payment
  BY <1>0, Ranges DEF Payment
<1>b. webhooks \in [Payment -> Nat]
  BY <1>0 DEF TypeOK
(* Steps of the others, which at most add rows. *)
<1>1. ASSUME UNCHANGED <<pollVars, webhooks, refused>>, rows \subseteq rows'
      PROVE  PollerOK' /\ TriggersOK'
  <2> USE <1>1 DEF pollVars
  <2>1. PollerOK'
    BY <1>0 DEF PollerOK
  <2>2. TriggersOK'
    BY <1>0 DEF TriggersOK, Finished
  <2> QED BY <2>1, <2>2
<1>2. ASSUME Start
      PROVE  PollerOK' /\ TriggersOK'
  <2> USE <1>2 DEF Start
  <2>1. step = "idle" /\ page = {}
    BY <1>0 DEF PollerOK
  <2>2. PollerOK'
    BY <1>0, <2>1 DEF PollerOK
  <2>3. \A p \in rows : p <= current_payment'
    BY <1>0, LastPaymentBound
  <2>4. TriggersOK'
    BY <1>0, <2>3 DEF TriggersOK, Finished, dbVars
  <2> QED BY <2>2, <2>4
<1>3. ASSUME PollPayments
      PROVE  PollerOK' /\ TriggersOK'
  <2> USE <1>3 DEF PollPayments
  <2>1. step = "idle" /\ up /\ ~ended /\ \A q \in page' : current_payment < q
    BY DEF Waiting, Listed
  <2>2. hand = 0 /\ \A q \in page' : hand < q
    <3>1. hand = 0
      BY <1>0, <2>1 DEF PollerOK
    <3>2. \A q \in page' : q \in Nat
      BY DEF Listed, TypeOK
    <3> QED BY <1>a, <2>1, <3>1, <3>2
  <2>3. PollerOK'
    BY <2>1, <2>2 DEF PollerOK
  <2>4. TriggersOK'
    BY <1>0 DEF TriggersOK, Finished, dbVars
  <2> QED BY <2>3, <2>4
<1>4. ASSUME PollPaymentsFails
      PROVE  PollerOK' /\ TriggersOK'
  BY <1>0, <1>4 DEF PollPaymentsFails, PollerOK, TriggersOK, Finished, dbVars
<1>5. ASSUME NextPayment
      PROVE  PollerOK' /\ TriggersOK'
  <2> DEFINE p == Min(page)
  <2>1. p \in page /\ \A q \in page : p <= q
    BY <1>0, <1>5, NextOfPage DEF NextPayment
  <2>0. ~ended
    BY <1>0, <2>1 DEF PollerOK
  <2>2. /\ up /\ up' = up /\ ended' = ended /\ step = "idle" /\ page' = page \ {p}
        /\ rows' = rows /\ webhooks' = webhooks /\ refused' = refused
        /\ \/ hand' = p /\ step' = "insert" /\ current_payment' = current_payment
           \/ current_payment' = p /\ hand' = hand /\ step' = step
    BY <1>5 DEF NextPayment, dbVars, histVars
  <2> HIDE DEF p
  <2>3. current_payment < p /\ hand < p /\ \A q \in page' : p < q
    BY <1>0, <1>a, <2>1, <2>2 DEF PollerOK
  <2>4. PollerOK'
    <3>1. \A q \in page' : current_payment < q /\ hand < q
      BY <1>0, <2>2 DEF PollerOK
    <3> QED BY <1>0, <2>0, <2>2, <2>3, <3>1 DEF PollerOK
  <2>5. TriggersOK'
    <3> SUFFICES ASSUME NEW q \in Payment \ refused, webhooks[q] # 0
                 PROVE  Finished(q)'
      BY <2>2 DEF TriggersOK
    <3>1. webhooks[q] = 1 /\ q \in rows /\ q <= current_payment
      BY <1>0, <2>0, <2>2 DEF TriggersOK, Finished
    <3>2. current_payment <= current_payment' /\ current_payment' \in Nat
      BY <1>a, <2>1, <2>2, <2>3
    <3>3. q <= current_payment'
      BY <1>a, <3>1, <3>2
    <3> QED BY <2>2, <3>1, <3>3 DEF Finished
  <2> QED BY <2>4, <2>5
<1>6. ASSUME Insert
      PROVE  PollerOK' /\ TriggersOK'
  <2>1. /\ step = "insert" /\ step' \in {"publish", "trigger"}
        /\ UNCHANGED <<up, ended, hand, page, current_payment, webhooks>>
    BY <1>6 DEF Insert
  <2>2. hand \in rows' \cup refused' /\ rows \subseteq rows' /\ refused \subseteq refused'
    BY <1>6 DEF Insert, Upsert
  <2>3. PollerOK'
    BY <1>0, <2>1, <2>2 DEF PollerOK
  <2>4. TriggersOK'
    BY <1>0, <2>1, <2>2 DEF TriggersOK, Finished
  <2> QED BY <2>3, <2>4
<1>7. ASSUME RunTriggers
      PROVE  PollerOK' /\ TriggersOK'
  <2>1. /\ step = "trigger" /\ step' = "publish"
        /\ UNCHANGED <<up, ended, hand, page, current_payment, rows, refused>>
        /\ webhooks' \in {webhooks, [webhooks EXCEPT ![hand] = @ + 1]}
    BY <1>7 DEF RunTriggers, dbVars
  <2>2. current_payment < hand /\ hand \in rows \cup refused /\ hand \in Payment
    BY <1>0, <1>a, <2>1, Ranges DEF PollerOK, TypeOK, Payment
  <2>3. PollerOK'
    BY <1>0, <2>1 DEF PollerOK
  <2>4. TriggersOK'
    <3> SUFFICES ASSUME NEW q \in Payment \ refused, webhooks'[q] # 0
                 PROVE  Finished(q)'
      BY <2>1 DEF TriggersOK
    <3>1. CASE webhooks'[q] = webhooks[q]
      BY <1>0, <2>1, <3>1 DEF TriggersOK, Finished
    <3>2. CASE webhooks'[q] # webhooks[q]
      <4>1. q = hand /\ webhooks'[q] = webhooks[q] + 1
        BY <1>b, <2>1, <2>2, <3>2
      <4>2. ~(q <= current_payment)
        BY <1>a, <2>2, <4>1
      <4>3. up /\ ~ended
        BY <1>0, <2>1 DEF PollerOK
      <4>4. webhooks[q] = 0
        BY <1>0, <2>1, <4>2, <4>3 DEF TriggersOK, Finished
      <4> QED BY <2>1, <2>2, <4>1, <4>4 DEF Finished
    <3> QED BY <3>1, <3>2
  <2> QED BY <2>3, <2>4
<1>8. ASSUME Publish
      PROVE  PollerOK' /\ TriggersOK'
  <2>1. /\ step = "publish" /\ step' = "idle" /\ hand' = 0 /\ current_payment' = hand
        /\ UNCHANGED <<up, ended, page, rows, webhooks, refused>>
    BY <1>8 DEF Publish, dbVars, histVars
  <2>2. current_payment < hand /\ up /\ ~ended
    BY <1>0, <2>1 DEF PollerOK
  <2>3. \A q \in page : hand < q /\ 0 < q
    BY <1>0, <1>a DEF PollerOK
  <2>4. PollerOK'
    BY <2>1, <2>2, <2>3 DEF PollerOK
  <2>5. TriggersOK'
    <3> SUFFICES ASSUME NEW q \in Payment \ refused, webhooks[q] # 0
                 PROVE  Finished(q)'
      BY <2>1 DEF TriggersOK
    <3>1. webhooks[q] = 1 /\ q \in rows /\ (q <= current_payment \/ hand = q)
      BY <1>0, <2>2 DEF TriggersOK, Finished
    <3>2. q <= hand
      BY <1>a, <2>2, <3>1
    <3> QED BY <2>1, <3>1, <3>2 DEF Finished
  <2> QED BY <2>4, <2>5
<1>9. ASSUME Crash
      PROVE  PollerOK' /\ TriggersOK'
  <2>1. ~up' /\ step' = "idle" /\ hand' = 0 /\ page' = {} /\ UNCHANGED <<rows, webhooks, refused>>
    BY <1>9 DEF Crash, dbVars
  <2>2. PollerOK'
    BY <2>1 DEF PollerOK
  <2>3. TriggersOK'
    BY <1>0, <2>1 DEF TriggersOK, Finished
  <2> QED BY <2>2, <2>3
<1>10. ASSUME \/ \E isBoost \in BOOLEAN : StartPayment(isBoost)
              \/ \E p \in Payment : EndPayment(p)
              \/ \E r \in Requests : \/ ReplyPaid(r) \/ ReplyStore(r) \/ ReplyMark(r)
                                     \/ ReplyDropped(r)
                                     \/ \E b \in Boosts, isBoost \in BOOLEAN :
                                          ReplySend(r, b, isBoost)
              \/ \E b \in Boosts : MarkReplied(b) \/ FetchRead(b)
              \/ \E s \in snapshot : FetchWrite(s)
       PROVE  PollerOK' /\ TriggersOK'
  <2>1. UNCHANGED <<pollVars, webhooks, refused>>
    BY <1>10 DEF StartPayment, EndPayment, ReplyPaid, ReplyStore, ReplyMark, ReplyDropped,
                 ReplySend, MarkReplied, FetchRead, FetchWrite, histVars
  <2>2. rows \subseteq rows'
    BY <1>10 DEF StartPayment, EndPayment, ReplyPaid, ReplyStore, ReplyMark, ReplyDropped,
                 ReplySend, MarkReplied, FetchRead, FetchWrite, dbVars, Upsert
  <2> QED BY <1>1, <2>1, <2>2
<1>11. ASSUME StartPanics \/ Panic
       PROVE  PollerOK' /\ TriggersOK'
  <2>1. /\ ended' /\ step' = "idle" /\ hand' = 0 /\ page' = {}
        /\ UNCHANGED <<rows, webhooks, refused>>
    BY <1>0, <1>11 DEF StartPanics, Panic, PollerOK, dbVars
  <2>2. PollerOK'
    BY <2>1 DEF PollerOK
  <2>3. TriggersOK'
    BY <1>0, <2>1 DEF TriggersOK, Finished
  <2> QED BY <2>2, <2>3
<1> QED BY <1>2, <1>3, <1>4, <1>5, <1>6, <1>7, <1>8, <1>9, <1>10, <1>11
        DEF Next, Poller, Handler

(* The invariant is inductive. *)
LEMMA PaymentStep == PaymentInv /\ [Next]_vars => PaymentInv'
<1> SUFFICES ASSUME PaymentInv, [Next]_vars PROVE PaymentInv'
  OBVIOUS
<1>1. CASE Next
  <2>1. TypeOK'
    BY <1>1, TypeStep DEF PaymentInv
  <2> QED BY <1>1, <2>1, LinkStep, PollStep DEF PaymentInv
<1>2. CASE UNCHANGED vars
  <2> USE <1>2 DEF vars, lndVars, pollVars, dbVars, histVars
  <2>1. TypeOK'
    BY DEF PaymentInv, TypeOK
  <2>2. LinksOK' /\ RequestsOK' /\ RepliedIsBacked' /\ PollerOK'
    BY DEF PaymentInv, LinksOK, RequestsOK, RepliedIsBacked, PollerOK
  <2>3. TriggersOK'
    BY DEF PaymentInv, TriggersOK, Finished
  <2> QED BY <2>1, <2>2, <2>3 DEF PaymentInv
<1> QED BY <1>1, <1>2

(* It holds in every reachable state, whatever crashes and faults occur.   *)
THEOREM PaymentInvariant == Spec => []PaymentInv
BY PaymentStarts, PaymentStep, PTL DEF Spec

----------------------------------------------------------------------------
(* The links add_payment_to_db writes for a reply, and those it leaves to  *)
(* rows the poller has stored, never lead to another boost.                *)
THEOREM LinksStayTrue == Spec => []LinksAreTrue
<1>1. PaymentInv => LinksAreTrue
  <2> SUFFICES ASSUME PaymentInv PROVE LinksAreTrue
    OBVIOUS
  <2>1. TypeOK /\ rows \subseteq Payment
    BY Ranges DEF PaymentInv
  <2> QED BY <2>1 DEF PaymentInv, LinksOK, LinksAreTrue
<1> QED BY <1>1, PaymentInvariant, PTL

(* A boost is marked as replied only by hand, or with a paid reply stored. *)
THEOREM MarksAreBacked == Spec => []RepliedIsBacked
<1>1. PaymentInv => RepliedIsBacked
  BY DEF PaymentInv
<1> QED BY <1>1, PaymentInvariant, PTL

(* The triggers of a sent boost run once at most, over crashes too, unless *)
(* its insert had failed.                                                  *)
THEOREM SentTriggersRunOnce == Spec => []TriggersRunOnce
<1>1. PaymentInv => TriggersRunOnce
  <2> SUFFICES ASSUME PaymentInv, NEW p \in Payment \ refused PROVE webhooks[p] <= 1
    BY DEF TriggersRunOnce
  <2> QED BY DEF PaymentInv, TriggersOK, Finished
<1> QED BY <1>1, PaymentInvariant, PTL

(* No step of either writer takes a link or a mark back.                   *)
THEOREM LinksAndMarksStay == Spec => RepliesArePermanent
<1> DEFINE Kept ==
      /\ \A p \in rows : reply_to_idx[p] # 0 => reply_to_idx'[p] = reply_to_idx[p]
      /\ reply_sent \subseteq reply_sent'
<1>1. ASSUME PaymentInv, [Next]_vars
      PROVE  Kept
  <2>1. TypeOK /\ PollerOK /\ RequestsOK /\ rows \subseteq Payment
    BY <1>1, Ranges DEF PaymentInv
  <2>2. CASE UNCHANGED vars
    BY <2>2 DEF vars, dbVars
  <2>3. CASE Insert
    <3>1. reply_sent' = reply_sent
      BY <2>3 DEF Insert
    <3>2. CASE Upsert(hand, 0)
      <4>1. hand \in 1 .. started /\ 0 \in OrNone(Boosts)
        BY <2>1, <2>3, Ranges DEF Insert, PollerOK, TypeOK, OrNone
      <4> QED BY <2>1, <3>1, <3>2, <4>1, UpsertFacts
    <3>3. CASE UNCHANGED <<rows, reply_to_idx>>
      BY <3>1, <3>3
    <3> QED BY <2>3, <3>2, <3>3 DEF Insert
  <2>4. ASSUME NEW r \in Requests, ReplyStore(r)
        PROVE  Kept
    <3>1. reply_sent' = reply_sent
      BY <2>4 DEF ReplyStore
    <3>2. CASE Upsert(request[r].payment, request[r].boost)
      <4>1. request[r] # Idle /\ request[r] \in Reply
        BY <2>1, <2>4 DEF ReplyStore, Idle, TypeOK
      <4>2. request[r].payment \in 1 .. started /\ request[r].boost \in OrNone(Boosts)
        BY <2>1, <4>1 DEF RequestsOK, Reply, OrNone
      <4> QED BY <2>1, <3>1, <3>2, <4>2, UpsertFacts
    <3>3. CASE UNCHANGED <<rows, reply_to_idx>>
      BY <3>1, <3>3
    <3> QED BY <2>4, <3>2, <3>3 DEF ReplyStore
  <2>5. ASSUME \/ \E isBoost \in BOOLEAN : StartPayment(isBoost)
               \/ \E p \in Payment : EndPayment(p)
               \/ Start \/ PollPayments \/ PollPaymentsFails \/ NextPayment
               \/ RunTriggers \/ Publish \/ StartPanics \/ Panic \/ Crash
               \/ \E r \in Requests : \/ ReplyPaid(r) \/ ReplyDropped(r)
                                      \/ \E b \in Boosts, isBoost \in BOOLEAN :
                                           ReplySend(r, b, isBoost)
               \/ \E b \in Boosts : FetchRead(b)
               \/ \E s \in snapshot : FetchWrite(s)
        PROVE  Kept
    <3>1. UNCHANGED dbVars
      BY <2>5 DEF StartPayment, EndPayment, Start, PollPayments, PollPaymentsFails, NextPayment,
                  RunTriggers, Publish, StartPanics, Panic, Crash, ReplyPaid, ReplyDropped, ReplySend, FetchRead,
                  FetchWrite
    <3> QED BY <3>1 DEF dbVars
  <2>6. ASSUME \/ \E r \in Requests : ReplyMark(r)
               \/ \E b \in Boosts : MarkReplied(b)
        PROVE  Kept
    BY <2>6 DEF ReplyMark, MarkReplied
  <2> HIDE DEF Kept
  <2> QED BY <1>1, <2>2, <2>3, <2>4, <2>5, <2>6 DEF Next, Poller, Handler
<1>2. [Next]_vars /\ PaymentInv => [Kept]_vars
  BY <1>1
<1> QED BY <1>2, PaymentInvariant, PTL DEF Spec, RepliesArePermanent

----------------------------------------------------------------------------
(* When list_payments has nothing more to give, the cursor has passed all. *)
LEMMA NothingListed ==
  ASSUME TypeOK, Listed(current_payment) = {}
  PROVE  \A p \in succeeded : p <= current_payment
<1> DEFINE later == {p \in succeeded : p > current_payment}
<1>1. succeeded \subseteq Nat /\ later \in SUBSET Nat /\ current_payment \in Nat
  <2>1. started \in Nat /\ current_payment \in Nat
    BY Ranges
  <2>2. succeeded \subseteq 1 .. started
    BY DEF TypeOK
  <2>3. succeeded \subseteq Nat
    BY <2>1, <2>2
  <2>4. later \subseteq succeeded
    OBVIOUS
  <2> HIDE DEF later
  <2> QED BY <2>1, <2>3, <2>4
<1>2. CASE later = {}
  <2>1. \A p \in succeeded : ~(p > current_payment) /\ p \in Nat
    BY <1>1, <1>2
  <2> QED BY <1>1, <2>1
<1>3. CASE later # {}
  <2>1. PICK m \in later : \A k \in later : m <= k
    BY <1>1, <1>3, LeastNatural
  <2>2. {q \in succeeded : current_payment < q /\ q <= m} = {m}
    <3>1. ASSUME NEW q \in succeeded, current_payment < q, q <= m
          PROVE  q = m
      <4>1. m <= q /\ q \in Nat /\ m \in Nat
        BY <1>1, <2>1, <3>1
      <4> QED BY <3>1, <4>1
    <3>2. m \in succeeded /\ current_payment < m /\ m <= m
      BY <1>1, <2>1
    <3> QED BY <3>1, <3>2
  <2>3. Cardinality({m}) = 1 /\ PageSize \in Nat /\ 1 <= PageSize
    BY FS_Singleton, PaymentAssumption DEF PaymentAssumption
  <2>4. m \in Listed(current_payment)
    BY <2>1, <2>2, <2>3 DEF Listed
  <2> QED BY <2>4
<1> QED BY <1>2, <1>3

(* Once the catching up has ended, the cursor is past all that was paid    *)
(* before the process started, and triggers only run after that.           *)
HistoryInv ==
  /\ before \subseteq succeeded
  /\ step = "trigger" => ~catchup
  /\ up /\ ~ended /\ ~catchup => disturbed \/ \A p \in before : p <= current_payment

(* It is inductive, given what is known of the poller. *)
LEMMA HistoryStep == PaymentInv /\ HistoryInv /\ [Next]_vars => HistoryInv'
<1> SUFFICES ASSUME PaymentInv, HistoryInv, [Next]_vars
             PROVE  HistoryInv'
  OBVIOUS
<1>0. /\ TypeOK /\ PollerOK /\ current_payment \in Nat /\ hand \in Nat
      /\ before \subseteq Nat /\ page \subseteq Nat
  BY Ranges DEF PaymentInv, TypeOK, Payment
<1>1. ASSUME Start
      PROVE  HistoryInv'
  <2>1. step = "idle"
    BY <1>0, <1>1 DEF Start, PollerOK
  <2> QED BY <1>1, <2>1 DEF Start, lndVars, HistoryInv
<1>2. ASSUME PollPayments
      PROVE  HistoryInv'
  <2>1. /\ step = "idle" /\ step' = step /\ up /\ ~ended
        /\ UNCHANGED <<up, ended, current_payment, succeeded, before, disturbed>>
        /\ catchup' = (catchup /\ Listed(current_payment) # {})
    BY <1>2 DEF PollPayments, Waiting, lndVars
  <2>2. CASE Listed(current_payment) = {}
    <3>1. \A p \in succeeded : p <= current_payment
      BY <1>0, <2>2, NothingListed
    <3> QED BY <2>1, <3>1 DEF HistoryInv
  <2>3. CASE Listed(current_payment) # {}
    BY <2>1, <2>3 DEF HistoryInv
  <2> QED BY <2>2, <2>3
<1>3. ASSUME PollPaymentsFails
      PROVE  HistoryInv'
  BY <1>3 DEF PollPaymentsFails, Waiting, lndVars, HistoryInv
<1>4. ASSUME NextPayment
      PROVE  HistoryInv'
  <2>1. Min(page) \in page
    BY <1>0, <1>4, NextOfPage DEF NextPayment
  <2>2. /\ step = "idle" /\ step' \in {"idle", "insert"}
        /\ current_payment' \in {current_payment, Min(page)}
        /\ UNCHANGED <<up, ended, catchup, succeeded, before, disturbed>>
    BY <1>4 DEF NextPayment, lndVars, histVars
  <2>3. current_payment <= current_payment' /\ current_payment' \in Nat
    BY <1>0, <2>1, <2>2 DEF PollerOK
  <2> QED BY <1>0, <2>2, <2>3 DEF HistoryInv
<1>5. ASSUME Insert
      PROVE  HistoryInv'
  BY <1>5 DEF Insert, lndVars, HistoryInv
<1>6. ASSUME RunTriggers
      PROVE  HistoryInv'
  BY <1>6 DEF RunTriggers, lndVars, HistoryInv
<1>7. ASSUME Publish
      PROVE  HistoryInv'
  <2>1. /\ step' = "idle" /\ current_payment' = hand
        /\ UNCHANGED <<up, ended, catchup, succeeded, before, disturbed>>
    BY <1>7 DEF Publish, lndVars, histVars
  <2>2. current_payment <= hand
    BY <1>0, <1>7 DEF Publish, PollerOK
  <2> QED BY <1>0, <2>1, <2>2 DEF HistoryInv
<1>8. ASSUME StartPanics \/ Panic
      PROVE  HistoryInv'
  <2>1. ended' /\ step' # "trigger" /\ succeeded' = succeeded /\ before' \in {before, succeeded}
    BY <1>0, <1>8 DEF StartPanics, Panic, PollerOK, lndVars
  <2> QED BY <2>1 DEF HistoryInv
<1>9. ASSUME Crash
      PROVE  HistoryInv'
  BY <1>9 DEF Crash, lndVars, HistoryInv
<1>10. ASSUME \/ \E isBoost \in BOOLEAN : StartPayment(isBoost)
              \/ \E p \in Payment : EndPayment(p)
              \/ \E r \in Requests : \/ ReplyPaid(r) \/ ReplyStore(r) \/ ReplyMark(r)
                                     \/ ReplyDropped(r)
                                     \/ \E b \in Boosts, isBoost \in BOOLEAN :
                                          ReplySend(r, b, isBoost)
              \/ \E b \in Boosts : MarkReplied(b) \/ FetchRead(b)
              \/ \E s \in snapshot : FetchWrite(s)
              \/ UNCHANGED vars
       PROVE  HistoryInv'
  <2>1. UNCHANGED <<pollVars, before, disturbed>> /\ succeeded \subseteq succeeded'
    BY <1>10 DEF StartPayment, EndPayment, ReplyPaid, ReplyStore, ReplyMark, ReplyDropped,
                 ReplySend, Pay, MarkReplied, FetchRead, FetchWrite, lndVars, histVars, vars
  <2> QED BY <2>1 DEF HistoryInv, pollVars
<1> QED BY <1>1, <1>2, <1>3, <1>4, <1>5, <1>6, <1>7, <1>8, <1>9, <1>10
        DEF Next, Poller, Handler

(* What was paid before the process started never runs its triggers while  *)
(* no list_payments call has failed.                                       *)
THEOREM HistoryStaysSilent == Spec => HistoryIsSilent
<1> DEFINE Silent == \A p \in before : webhooks'[p] > webhooks[p] => disturbed
<1>1. Init => HistoryInv
  BY DEF Init, HistoryInv
<1>2. ASSUME PaymentInv, HistoryInv, [Next]_vars
      PROVE  Silent
  <2>1. /\ TypeOK /\ PollerOK /\ webhooks \in [Payment -> Nat] /\ before \subseteq Payment
        /\ current_payment \in Nat /\ hand \in Nat /\ Payment \subseteq Nat
    <3>1. TypeOK /\ PollerOK
      BY <1>2 DEF PaymentInv
    <3>2. current_payment \in Nat /\ hand \in Nat /\ Payment \subseteq Nat
      BY <3>1, Ranges DEF Payment
    <3> QED BY <3>1, <3>2 DEF TypeOK
  <2>2. CASE webhooks' = webhooks
    <3>1. \A p \in before : webhooks'[p] = webhooks[p] /\ webhooks[p] \in Nat
      BY <2>1, <2>2
    <3> QED BY <3>1
  <2>3. CASE RunTriggers
    <3>1. up /\ ~ended /\ ~catchup /\ current_payment < hand
      BY <1>2, <2>1, <2>3 DEF RunTriggers, PollerOK, HistoryInv
    <3>2. CASE disturbed
      BY <3>2
    <3>3. CASE ~disturbed
      <4>1. hand \notin before
        BY <1>2, <2>1, <3>1, <3>3 DEF HistoryInv
      <4>2. \A p \in before : webhooks'[p] = webhooks[p]
        BY <2>1, <2>3, <4>1 DEF RunTriggers
      <4> QED BY <2>1, <4>2
    <3> QED BY <3>2, <3>3
  <2>4. RunTriggers \/ webhooks' = webhooks
    BY <1>2 DEF Next, Poller, Handler, Start, StartPanics, PollPayments, PollPaymentsFails,
                NextPayment, Insert, Publish, Panic, Crash, StartPayment, EndPayment,
                ReplySend, ReplyPaid, ReplyDropped, ReplyStore, ReplyMark, MarkReplied,
                FetchRead, FetchWrite, vars
  <2> HIDE DEF Silent
  <2> QED BY <2>2, <2>3, <2>4
<1>3. PaymentInv /\ HistoryInv /\ [Next]_vars => [Silent]_vars
  BY <1>2
<1> QED BY <1>1, <1>3, HistoryStep, PaymentInvariant, PTL DEF Spec, HistoryIsSilent
=============================================================================
