------------------------- MODULE InvoiceFeedProofs -------------------------
(***************************************************************************)
(* Proofs about InvoiceFeed, for every number of invoices, page size and   *)
(* number of faults: type correctness, the three invariants that say what  *)
(* becomes of a settlement LND has transmitted, and, in the second part,   *)
(* that the triggers of a boost run twice only after the cursor of the     *)
(* subscription has moved backwards, or its insert had failed.             *)
(***************************************************************************)
EXTENDS InvoiceFeed, OrderFacts, SequenceTheorems, TLAPS

(* The two tables are looked at one by one in what follows. *)
USE DEF dbVars

(* What LND transmitted was true when it was sent, and settled is for ever. *)
Truthful(s) ==
  \A k \in DOMAIN s : /\ s[k].add_index \in 1 .. added
                      /\ s[k].settled => s[k].add_index \in settled

(* handle_boost only ever holds a paid boost, which was inserted or        *)
(* refused before its triggers run.                                        *)
HandOK ==
  /\ step = "idle" => hand = 0
  /\ step # "idle" => hand \in settled \cap podcasting
  /\ step \in {"trigger", "publish"} => hand \in boosts \cup refused
  /\ step = "publish" => webhooks[hand] > 0 \/ hand \in cut

(* Which loop the task is in says what it can still have to read. *)
PhaseOK ==
  /\ phase # "catchup" => page = <<>>
  /\ phase # "listening" => stream = <<>> /\ ~connected
  /\ phase \in {"down", "subscribing", "dead"} => step = "idle"

(* The inductive invariant. *)
FeedInv ==
  /\ TypeOK
  /\ Truthful(page) /\ Truthful(stream)
  /\ HandOK
  /\ PhaseOK
  /\ StoredWerePaid
  /\ NothingMislaid
  /\ StoredIsAnnounced

----------------------------------------------------------------------------
(* A non-empty set of invoice indexes has a greatest one, so the query of  *)
(* get_last_boost_index_from_db returns an index LND has given out.        *)
LEMMA LastBoostIndexBound ==
  ASSUME TypeOK
  PROVE  LastBoostIndex \in 0 .. added
<1>1. CASE boosts = {}
  BY <1>1 DEF LastBoostIndex, TypeOK
<1>2. CASE boosts # {}
  <2>1. added \in Nat /\ boosts \subseteq 1 .. added
    BY FeedAssumption DEF TypeOK, FeedAssumption
  <2>2. boosts \in SUBSET (0 .. added)
    BY <2>1
  <2>3. \E i \in boosts : \A k \in boosts : k <= i
    BY <1>2, <2>1, <2>2, GreatestNatural
  <2>4. LastBoostIndex \in boosts
    BY <1>2, <2>3 DEF LastBoostIndex
  <2> QED BY <2>1, <2>4
<1> QED BY <1>1, <1>2

(* A list_invoices response or a backlog is a sequence of true reports of  *)
(* the invoices asked for.                                                 *)
LEMMA SliceFacts ==
  ASSUME TypeOK, NEW lo \in Nat \ {0}, NEW hi \in 0 .. added
  PROVE  /\ Slice(lo, hi) \in Seq(Invoice)
         /\ Truthful(Slice(lo, hi))
<1> DEFINE n == IF lo <= hi THEN hi - lo + 1 ELSE 0
<1>1. added \in Nat /\ added <= MaxInvoices /\ MaxInvoices \in Nat
  BY FeedAssumption DEF TypeOK, FeedAssumption
<1>2. n \in Nat /\ 1 .. hi - lo + 1 = 1 .. n
  BY <1>1
<1>3. \A k \in 1 .. n : lo + k - 1 \in 1 .. added /\ lo + k - 1 \in Index
  BY <1>1, <1>2 DEF Index
<1>4. \A k \in 1 .. n : Report(lo + k - 1) \in Invoice
  BY <1>3 DEF Report, Invoice
<1>5. Slice(lo, hi) = [k \in 1 .. n |-> Report(lo + k - 1)]
  BY <1>2 DEF Slice
<1>6. Slice(lo, hi) \in [1 .. n -> Invoice]
  BY <1>4, <1>5
<1>7. Slice(lo, hi) \in Seq(Invoice)
  BY <1>2, <1>6, SeqDef
<1>8. Truthful(Slice(lo, hi))
  <2>1. DOMAIN Slice(lo, hi) = 1 .. n
    BY <1>5
  <2>2. ASSUME NEW k \in 1 .. n
        PROVE  /\ Slice(lo, hi)[k].add_index = lo + k - 1
               /\ Slice(lo, hi)[k].settled = (lo + k - 1 \in settled)
    BY <1>5 DEF Report
  <2> HIDE DEF n
  <2> QED BY <1>3, <2>1, <2>2 DEF Truthful
<1> QED BY <1>7, <1>8

(* Taking the first invoice off a queue: it was truthful, and whatever the *)
(* queue announced is announced by it or by the rest.                      *)
LEMMA TailFacts ==
  ASSUME NEW s \in Seq(Invoice), s # <<>>, Truthful(s)
  PROVE  /\ Head(s) \in Invoice /\ Tail(s) \in Seq(Invoice)
         /\ Head(s).add_index \in 1 .. added
         /\ Head(s).settled => Head(s).add_index \in settled
         /\ Truthful(Tail(s))
         /\ \A i \in Announced(s) \ Announced(Tail(s)) :
              Head(s).add_index = i /\ Head(s).settled /\ i \in podcasting
<1>1. /\ Head(s) \in Invoice /\ Tail(s) \in Seq(Invoice)
      /\ Len(Tail(s)) = Len(s) - 1
      /\ \A k \in 1 .. Len(Tail(s)) : Tail(s)[k] = s[k + 1]
  BY HeadTailProperties
<1>2. Len(s) \in Nat \ {0} /\ DOMAIN s = 1 .. Len(s)
  BY EmptySeq, LenProperties
<1>3. DOMAIN Tail(s) = 1 .. Len(s) - 1
  BY <1>1, LenProperties
<1>4. Head(s) = s[1] /\ 1 \in DOMAIN s
  BY <1>2
<1>5. Truthful(Tail(s))
  BY <1>1, <1>2, <1>3 DEF Truthful
<1>6. ASSUME NEW i \in Announced(s), i \notin Announced(Tail(s))
      PROVE  Head(s).add_index = i /\ Head(s).settled /\ i \in podcasting
  <2>1. i \in podcasting
    BY <1>6 DEF Announced
  <2>2. PICK k \in DOMAIN s : s[k] = [add_index |-> i, settled |-> TRUE]
    BY <1>6 DEF Announced
  <2>3. ASSUME k # 1
        PROVE  k - 1 \in DOMAIN Tail(s) /\ Tail(s)[k - 1] = s[k]
    <3>1. k \in 2 .. Len(s)
      BY <1>2, <2>3
    <3>2. k - 1 \in 1 .. Len(Tail(s)) /\ (k - 1) + 1 = k
      BY <1>1, <1>2, <3>1
    <3> QED BY <1>1, <1>3, <3>2
  <2>4. k = 1
    BY <1>6, <2>1, <2>2, <2>3 DEF Announced
  <2> QED BY <1>4, <2>1, <2>2, <2>4
<1> QED BY <1>1, <1>4, <1>5, <1>6 DEF Truthful

(* Sending one more invoice adds its announcement and keeps the others. *)
LEMMA AppendFacts ==
  ASSUME NEW s \in Seq(Invoice), NEW e \in Invoice
  PROVE  /\ Append(s, e) \in Seq(Invoice)
         /\ Truthful(s) /\ e.add_index \in 1 .. added
              /\ (e.settled => e.add_index \in settled) => Truthful(Append(s, e))
         /\ Announced(s) \subseteq Announced(Append(s, e))
         /\ e.settled /\ e.add_index \in podcasting
              => e.add_index \in Announced(Append(s, e))
<1> DEFINE t == Append(s, e)
<1>1. /\ t \in Seq(Invoice)
      /\ Len(t) = Len(s) + 1
      /\ \A k \in 1 .. Len(s) : t[k] = s[k]
      /\ t[Len(s) + 1] = e
  BY AppendProperties
<1>2. Len(s) \in Nat /\ DOMAIN s = 1 .. Len(s) /\ DOMAIN t = 1 .. Len(s) + 1
  BY <1>1, LenProperties
<1>3. e = [add_index |-> e.add_index, settled |-> e.settled] /\ e.settled \in BOOLEAN
  BY DEF Invoice
<1> HIDE DEF t
<1>4. Truthful(s) /\ e.add_index \in 1 .. added
        /\ (e.settled => e.add_index \in settled) => Truthful(t)
  <2>1. \A k \in DOMAIN t : (k \in DOMAIN s /\ t[k] = s[k]) \/ t[k] = e
    BY <1>1, <1>2
  <2> QED BY <2>1 DEF Truthful
<1>5. Announced(s) \subseteq Announced(t)
  <2>1. \A k \in DOMAIN s : k \in DOMAIN t /\ t[k] = s[k]
    BY <1>1, <1>2
  <2> QED BY <2>1 DEF Announced
<1>6. e.settled /\ e.add_index \in podcasting => e.add_index \in Announced(t)
  <2>1. Len(s) + 1 \in DOMAIN t /\ t[Len(s) + 1] = e
    BY <1>1, <1>2
  <2>2. e.settled => e = [add_index |-> e.add_index, settled |-> TRUE]
    BY <1>3
  <2> QED BY <2>1, <2>2 DEF Announced
<1> QED BY <1>1, <1>4, <1>5, <1>6 DEF t

(* What is left of a broken stream is still truthful. *)
LEMMA PrefixFacts ==
  ASSUME NEW s \in Seq(Invoice), NEW n \in 0 .. Len(s), Truthful(s)
  PROVE  SubSeq(s, 1, n) \in Seq(Invoice) /\ Truthful(SubSeq(s, 1, n))
<1>1. Len(s) \in Nat /\ DOMAIN s = 1 .. Len(s)
  BY LenProperties
<1>2. \A k \in 1 .. n : k \in DOMAIN s /\ s[k] \in Invoice
  BY <1>1, ElementOfSeq
<1>3. /\ SubSeq(s, 1, n) \in Seq(Invoice)
      /\ Len(SubSeq(s, 1, n)) = n
      /\ \A k \in 1 .. n : SubSeq(s, 1, n)[k] = s[k]
  BY <1>1, <1>2, SubSeqProperties
<1>4. DOMAIN SubSeq(s, 1, n) = 1 .. n
  BY <1>3, LenProperties
<1> QED BY <1>2, <1>3, <1>4 DEF Truthful

(* An empty queue announces nothing and says nothing false. *)
LEMMA EmptyFacts ==
  <<>> \in Seq(Invoice) /\ Truthful(<<>>) /\ Announced(<<>>) = {}
<1>1. <<>> \in Seq(Invoice) /\ DOMAIN <<>> = {}
  BY EmptySeq
<1> QED BY <1>1 DEF Truthful, Announced

----------------------------------------------------------------------------
(* The invariant holds when the task is first started.                     *)
LEMMA FeedInit == Init => FeedInv
<1> SUFFICES ASSUME Init PROVE FeedInv
  OBVIOUS
<1>1. TypeOK
  <2>1. webhooks \in [Index -> Nat]
    BY DEF Init
  <2>2. stream \in Seq(Invoice) /\ page \in Seq(Invoice)
    BY EmptyFacts DEF Init
  <2>3. added \in 0 .. MaxInvoices /\ 1 .. added \subseteq Index /\ faults \in 0 .. MaxFaults
    BY FeedAssumption DEF Init, FeedAssumption, Index
  <2>4. /\ podcasting = 1 .. added /\ settled = 1 .. added
        /\ boosts = 1 .. added /\ untyped \subseteq boosts /\ published = 1 .. added
        /\ unseen = {} /\ refused = {} /\ cut = {}
        /\ connected \in BOOLEAN /\ retreated \in BOOLEAN
        /\ phase \in Phases /\ step \in Steps
        /\ hand = 0 /\ current_index = 0
    BY DEF Init, Phases, Steps
  <2>5. added \in Nat
    BY <2>3, FeedAssumption DEF FeedAssumption
  <2> QED BY <2>1, <2>2, <2>3, <2>4, <2>5 DEF TypeOK
<1>2. Truthful(page) /\ Truthful(stream)
  BY EmptyFacts DEF Init
<1>3. HandOK /\ PhaseOK /\ StoredWerePaid /\ NothingMislaid
  BY DEF Init, HandOK, PhaseOK, StoredWerePaid, NothingMislaid
<1>4. StoredIsAnnounced
  <2>1. added \in Nat /\ 1 .. added \subseteq Index
    BY <1>1, FeedAssumption DEF TypeOK, FeedAssumption, Index
  <2> QED BY <2>1 DEF Init, StoredIsAnnounced
<1> QED BY <1>1, <1>2, <1>3, <1>4 DEF FeedInv

(* The steps that only LND takes. *)
LEMMA LndStep ==
  ASSUME FeedInv, Lnd
  PROVE  FeedInv'
<1> USE FeedAssumption DEF FeedAssumption
<1>1. ASSUME NEW isBoost \in BOOLEAN, AddInvoice(isBoost)
      PROVE  FeedInv'
  <2> DEFINE e == [add_index |-> added + 1, settled |-> FALSE]
  <2> USE <1>1 DEF AddInvoice
  <2>1. added \in Nat /\ added + 1 \in Index /\ settled \subseteq 1 .. added
    BY DEF FeedInv, TypeOK, Index
  <2>2. e \in Invoice
    BY <2>1 DEF Invoice
  <2>3. stream' \in {stream, Append(stream, e)} /\ stream \in Seq(Invoice)
    BY DEF FeedInv, TypeOK
  <2>4. stream' \in Seq(Invoice)
    BY <2>2, <2>3, AppendFacts
  <2>5. TypeOK'
    BY <2>1, <2>4 DEF FeedInv, TypeOK, taskVars, outVars, histVars
  <2>6. \A i \in 1 .. added : i \in 1 .. added'
    BY <2>1
  <2>7. Truthful(page)'
    BY <2>6 DEF FeedInv, Truthful, taskVars
  <2>8. Truthful(stream)'
    <3>1. \A k \in DOMAIN Append(stream, e) :
            Append(stream, e)[k] = e \/ (k \in DOMAIN stream /\ Append(stream, e)[k] = stream[k])
      BY <2>2, <2>3, AppendProperties, LenProperties
    <3> QED BY <2>1, <2>3, <2>6, <3>1 DEF FeedInv, Truthful
  <2>9. podcasting \subseteq podcasting' /\ settled \cap podcasting' = settled \cap podcasting
    BY <2>1
  <2>10. /\ Announced(page) \subseteq Announced(page)'
         /\ Announced(stream) \subseteq Announced(stream)'
    <3>1. Announced(stream) \subseteq Announced(stream')
      BY <2>2, <2>3, AppendFacts
    <3> QED BY <2>9, <3>1 DEF Announced, taskVars
  <2>11. HandOK' /\ PhaseOK' /\ StoredWerePaid' /\ StoredIsAnnounced'
    BY <2>9 DEF FeedInv, HandOK, PhaseOK, StoredWerePaid, StoredIsAnnounced,
                taskVars, outVars, histVars
  <2>12. NothingMislaid'
    BY <2>9, <2>10 DEF FeedInv, NothingMislaid, taskVars, histVars
  <2> QED BY <2>5, <2>7, <2>8, <2>11, <2>12 DEF FeedInv
<1>2. ASSUME NEW i \in Index, SettleInvoice(i)
      PROVE  FeedInv'
  <2> DEFINE e == [add_index |-> i, settled |-> TRUE]
  <2> USE <1>2 DEF SettleInvoice
  <2>1. e \in Invoice /\ stream \in Seq(Invoice)
    BY DEF Invoice, FeedInv, TypeOK
  <2>2. stream' \in Seq(Invoice)
    BY <2>1, AppendFacts
  <2>3. TypeOK'
    BY <2>2 DEF FeedInv, TypeOK, taskVars, outVars
  <2>4. Truthful(page)'
    BY DEF FeedInv, Truthful, taskVars
  <2>5. Truthful(stream)'
    <3>1. \A k \in DOMAIN Append(stream, e) :
            Append(stream, e)[k] = e \/ (k \in DOMAIN stream /\ Append(stream, e)[k] = stream[k])
      BY <2>1, AppendProperties, LenProperties
    <3> QED BY <3>1 DEF FeedInv, Truthful
  <2>6. HandOK' /\ PhaseOK' /\ StoredWerePaid' /\ StoredIsAnnounced'
    BY DEF FeedInv, HandOK, PhaseOK, StoredWerePaid, StoredIsAnnounced,
           taskVars, outVars
  <2>7. Announced(page)' = Announced(page) /\ Announced(stream) \subseteq Announced(stream)'
    <3>1. Announced(stream) \subseteq Announced(stream')
      BY <2>1, AppendFacts
    <3> QED BY <3>1 DEF Announced, taskVars
  <2>8. i \in podcasting => i \in unseen' \cup Announced(stream)'
    <3>1. connected /\ i \in podcasting => i \in Announced(stream')
      BY <2>1, AppendFacts
    <3> QED BY <3>1 DEF Announced
  <2>9. NothingMislaid'
    <3> SUFFICES ASSUME NEW j \in settled' \cap podcasting'
                 PROVE  \/ j \in boosts' \cup refused' \cup unseen'
                        \/ j \in Announced(page)' \cup Announced(stream)'
                        \/ step' = "insert" /\ hand' = j
      BY DEF NothingMislaid
    <3>1. CASE j = i
      BY <2>8, <3>1
    <3>2. CASE j \in settled \cap podcasting
      BY <2>7, <3>2 DEF FeedInv, NothingMislaid, taskVars
    <3> QED BY <3>1, <3>2
  <2> QED BY <2>3, <2>4, <2>5, <2>6, <2>9 DEF FeedInv
<1>3. ASSUME NEW n \in 0 .. Len(stream), BreakStream(n)
      PROVE  FeedInv'
  <2> USE <1>3 DEF BreakStream, Fault
  <2>1. stream' \in Seq(Invoice) /\ Truthful(stream')
    BY PrefixFacts DEF FeedInv, TypeOK
  <2>2. unseen' \subseteq Index
    <3>1. Announced(stream) \subseteq podcasting
      BY DEF Announced
    <3>2. podcasting \subseteq Index
      BY DEF FeedInv, TypeOK, Index
    <3> QED BY <3>1, <3>2 DEF FeedInv, TypeOK
  <2>3. TypeOK'
    <3>1. faults' \in 0 .. MaxFaults
      BY DEF FeedInv, TypeOK
    <3>2. UNCHANGED <<lndVars, taskVars, dbVars, outVars, refused, cut, retreated>>
          /\ connected' = FALSE
      OBVIOUS
    <3> HIDE <1>3
    <3> QED BY <2>1, <2>2, <3>1, <3>2 DEF FeedInv, TypeOK, lndVars, taskVars, outVars
  <2>4. Truthful(page)' /\ Truthful(stream)'
    BY <2>1 DEF FeedInv, Truthful, lndVars, taskVars
  <2>5. PhaseOK'
    BY DEF FeedInv, PhaseOK, taskVars
  <2>6. HandOK' /\ StoredWerePaid' /\ StoredIsAnnounced'
    BY DEF FeedInv, HandOK, StoredWerePaid, StoredIsAnnounced,
           lndVars, taskVars, outVars
  <2>7. NothingMislaid'
    BY DEF FeedInv, NothingMislaid, Announced, lndVars, taskVars
  <2> QED BY <2>3, <2>4, <2>5, <2>6, <2>7 DEF FeedInv
<1> QED BY <1>1, <1>2, <1>3 DEF Lnd

(* The steps of the two reading loops. *)
LEMMA LoopStep ==
  ASSUME FeedInv,
         Start \/ ListInvoices \/ ListInvoicesFails \/ NextOfPage
           \/ Subscribe \/ Receive \/ StreamEnds
  PROVE  FeedInv'
<1> USE FeedAssumption DEF FeedAssumption
<1>0. TypeOK /\ added \in Nat /\ current_index \in Nat /\ current_index + 1 \in Nat \ {0}
  BY DEF FeedInv, TypeOK
<1>1. ASSUME Start
      PROVE  FeedInv'
  <2> USE <1>1 DEF Start
  <2>1. TypeOK'
    BY <1>0, LastBoostIndexBound
       DEF FeedInv, TypeOK, Phases, lndVars, linkVars, outVars, histVars
  <2>2. Truthful(page)' /\ Truthful(stream)'
    BY DEF FeedInv, Truthful, lndVars, linkVars
  <2>3. HandOK' /\ PhaseOK' /\ StoredWerePaid' /\ StoredIsAnnounced'
    BY DEF FeedInv, HandOK, PhaseOK, StoredWerePaid, StoredIsAnnounced,
           lndVars, linkVars, outVars, histVars
  <2>4. NothingMislaid'
    BY DEF FeedInv, NothingMislaid, Announced, lndVars, linkVars, histVars
  <2> QED BY <2>1, <2>2, <2>3, <2>4 DEF FeedInv
<1>2. ASSUME ListInvoices
      PROVE  FeedInv'
  <2> DEFINE hi == Lower(added, current_index + PageSize)
             response == Slice(current_index + 1, hi)
  <2>1. /\ phase = "catchup" /\ step = "idle" /\ page = <<>>
        /\ page' = response
        /\ phase' = IF response = <<>> THEN "subscribing" ELSE "catchup"
        /\ unseen' = unseen \ Announced(response)
        /\ UNCHANGED <<lndVars, linkVars, step, hand, current_index, dbVars, outVars,
                       refused, cut, retreated, faults>>
    BY <1>2 DEF ListInvoices
  <2>2. hi \in 0 .. added
    BY <1>0 DEF Lower
  <2>3. response \in Seq(Invoice) /\ Truthful(response)
    BY <1>0, <2>2, SliceFacts
  <2> HIDE DEF response
  <2>4. TypeOK'
    BY <1>0, <2>1, <2>3 DEF TypeOK, Phases, lndVars, linkVars, outVars
  <2>5. Truthful(page)' /\ Truthful(stream)'
    BY <2>1, <2>3 DEF FeedInv, Truthful, lndVars, linkVars
  <2>6. HandOK' /\ PhaseOK' /\ StoredWerePaid' /\ StoredIsAnnounced'
    BY <2>1 DEF FeedInv, HandOK, PhaseOK, StoredWerePaid, StoredIsAnnounced,
                lndVars, linkVars, outVars
  <2>7. NothingMislaid'
    BY <2>1, EmptyFacts DEF FeedInv, NothingMislaid, Announced, lndVars, linkVars
  <2> QED BY <2>4, <2>5, <2>6, <2>7 DEF FeedInv
<1>3. ASSUME ListInvoicesFails
      PROVE  FeedInv'
  <2> USE <1>3 DEF ListInvoicesFails, Fault
  <2>1. TypeOK'
    BY <1>0 DEF TypeOK, Phases, lndVars, linkVars, outVars
  <2>2. Truthful(page)' /\ Truthful(stream)'
    BY DEF FeedInv, Truthful, lndVars, linkVars
  <2>3. HandOK' /\ PhaseOK' /\ StoredWerePaid' /\ StoredIsAnnounced'
    BY DEF FeedInv, HandOK, PhaseOK, StoredWerePaid, StoredIsAnnounced,
           lndVars, linkVars, outVars
  <2>4. NothingMislaid'
    BY DEF FeedInv, NothingMislaid, Announced, lndVars, linkVars
  <2> QED BY <2>1, <2>2, <2>3, <2>4 DEF FeedInv
<1>4. ASSUME NextOfPage
      PROVE  FeedInv'
  <2> DEFINE inv == Head(page)
  <2>1. /\ phase = "catchup" /\ step = "idle" /\ page # <<>>
        /\ page' = Tail(page)
        /\ Take(inv)
        /\ UNCHANGED <<lndVars, linkVars, phase, dbVars, outVars,
                       unseen, refused, cut, faults>>
    BY <1>4 DEF NextOfPage
  <2>2. /\ Tail(page) \in Seq(Invoice)
        /\ inv.add_index \in 1 .. added
        /\ inv.settled => inv.add_index \in settled
        /\ Truthful(Tail(page))
        /\ \A i \in Announced(page) \ Announced(Tail(page)) :
             inv.add_index = i /\ inv.settled /\ i \in podcasting
    BY <2>1, TailFacts DEF FeedInv, TypeOK
  <2> HIDE DEF inv
  <2>3. TypeOK'
    <3>1. hand' \in 0 .. added /\ step' \in Steps /\ current_index' \in 0 .. added
      BY <1>0, <2>1, <2>2 DEF TypeOK, Take, Steps
    <3>2. retreated' \in BOOLEAN
      BY <1>0, <2>1 DEF TypeOK, Take
    <3> QED BY <1>0, <2>1, <2>2, <3>1, <3>2 DEF TypeOK, lndVars, linkVars, outVars
  <2>4. Truthful(page)' /\ Truthful(stream)'
    BY <2>1, <2>2 DEF FeedInv, Truthful, lndVars, linkVars
  <2>5. HandOK'
    BY <2>1, <2>2 DEF FeedInv, HandOK, Take, ParsesToBoost, lndVars, outVars
  <2>6. PhaseOK' /\ StoredWerePaid'
    BY <2>1 DEF FeedInv, PhaseOK, StoredWerePaid, lndVars, linkVars
  <2>7. StoredIsAnnounced'
    BY <2>1 DEF FeedInv, StoredIsAnnounced, outVars
  <2>8. NothingMislaid'
    <3>1. \A i \in Announced(page) : \/ i \in Announced(page')
                                     \/ step' = "insert" /\ hand' = i
      BY <2>1, <2>2 DEF Take, ParsesToBoost
    <3>2. Announced(page)' = Announced(page') /\ Announced(stream)' = Announced(stream)
      BY <2>1 DEF Announced, lndVars, linkVars
    <3> QED BY <2>1, <3>1, <3>2 DEF FeedInv, NothingMislaid, lndVars
  <2> QED BY <2>3, <2>4, <2>5, <2>6, <2>7, <2>8 DEF FeedInv
<1>5. ASSUME Subscribe
      PROVE  FeedInv'
  <2> DEFINE backlog == IF current_index = 0 THEN <<>> ELSE Slice(current_index + 1, added)
  <2>1. /\ phase = "subscribing" /\ phase' = "listening" /\ connected' = TRUE
        /\ stream' = backlog
        /\ unseen' = unseen \ Announced(backlog)
        /\ UNCHANGED <<lndVars, step, hand, page, current_index, dbVars, outVars,
                       refused, cut, retreated, faults>>
    BY <1>5 DEF Subscribe
  <2>2. Slice(current_index + 1, added) \in Seq(Invoice)
          /\ Truthful(Slice(current_index + 1, added))
    BY <1>0, SliceFacts
  <2>3. backlog \in Seq(Invoice) /\ Truthful(backlog)
    BY <2>2, EmptyFacts
  <2> HIDE DEF backlog
  <2>4. TypeOK'
    BY <1>0, <2>1, <2>3 DEF TypeOK, Phases, lndVars, outVars
  <2>5. Truthful(page)' /\ Truthful(stream)'
    BY <2>1, <2>3 DEF FeedInv, Truthful, lndVars
  <2>6. HandOK' /\ PhaseOK' /\ StoredWerePaid' /\ StoredIsAnnounced'
    BY <2>1 DEF FeedInv, HandOK, PhaseOK, StoredWerePaid, StoredIsAnnounced,
                lndVars, outVars
  <2>7. NothingMislaid'
    <3>1. stream = <<>> /\ Announced(stream) = {}
      BY <2>1, EmptyFacts DEF FeedInv, PhaseOK
    <3> QED BY <2>1, <3>1 DEF FeedInv, NothingMislaid, Announced, lndVars
  <2> QED BY <2>4, <2>5, <2>6, <2>7 DEF FeedInv
<1>6. ASSUME Receive
      PROVE  FeedInv'
  <2> DEFINE inv == Head(stream)
  <2>1. /\ phase = "listening" /\ step = "idle" /\ stream # <<>>
        /\ stream' = Tail(stream)
        /\ Take(inv)
        /\ UNCHANGED <<lndVars, connected, phase, page, dbVars, outVars,
                       unseen, refused, cut, faults>>
    BY <1>6 DEF Receive
  <2>2. /\ Tail(stream) \in Seq(Invoice)
        /\ inv.add_index \in 1 .. added
        /\ inv.settled => inv.add_index \in settled
        /\ Truthful(Tail(stream))
        /\ \A i \in Announced(stream) \ Announced(Tail(stream)) :
             inv.add_index = i /\ inv.settled /\ i \in podcasting
    BY <2>1, TailFacts DEF FeedInv, TypeOK
  <2> HIDE DEF inv
  <2>3. TypeOK'
    <3>1. hand' \in 0 .. added /\ step' \in Steps /\ current_index' \in 0 .. added
      BY <1>0, <2>1, <2>2 DEF TypeOK, Take, Steps
    <3>2. retreated' \in BOOLEAN
      BY <1>0, <2>1 DEF TypeOK, Take
    <3> QED BY <1>0, <2>1, <2>2, <3>1, <3>2 DEF TypeOK, lndVars, outVars
  <2>4. Truthful(page)' /\ Truthful(stream)'
    BY <2>1, <2>2 DEF FeedInv, Truthful, lndVars
  <2>5. HandOK'
    BY <2>1, <2>2 DEF FeedInv, HandOK, Take, ParsesToBoost, lndVars, outVars
  <2>6. PhaseOK' /\ StoredWerePaid'
    BY <2>1 DEF FeedInv, PhaseOK, StoredWerePaid, lndVars
  <2>7. StoredIsAnnounced'
    BY <2>1 DEF FeedInv, StoredIsAnnounced, outVars
  <2>8. NothingMislaid'
    <3>1. \A i \in Announced(stream) : \/ i \in Announced(stream')
                                       \/ step' = "insert" /\ hand' = i
      BY <2>1, <2>2 DEF Take, ParsesToBoost
    <3>2. Announced(stream)' = Announced(stream') /\ Announced(page)' = Announced(page)
      BY <2>1 DEF Announced, lndVars
    <3> QED BY <2>1, <3>1, <3>2 DEF FeedInv, NothingMislaid, lndVars
  <2> QED BY <2>3, <2>4, <2>5, <2>6, <2>7, <2>8 DEF FeedInv
<1>7. ASSUME StreamEnds
      PROVE  FeedInv'
  <2> USE <1>7 DEF StreamEnds
  <2>1. TypeOK'
    BY <1>0 DEF TypeOK, Phases, lndVars, linkVars, outVars, histVars
  <2>2. Truthful(page)' /\ Truthful(stream)'
    BY DEF FeedInv, Truthful, lndVars, linkVars
  <2>3. HandOK' /\ PhaseOK' /\ StoredWerePaid' /\ StoredIsAnnounced'
    BY DEF FeedInv, HandOK, PhaseOK, StoredWerePaid, StoredIsAnnounced,
           lndVars, linkVars, outVars, histVars
  <2>4. NothingMislaid'
    BY DEF FeedInv, NothingMislaid, Announced, lndVars, linkVars, histVars
  <2> QED BY <2>1, <2>2, <2>3, <2>4 DEF FeedInv
<1> QED BY <1>1, <1>2, <1>3, <1>4, <1>5, <1>6, <1>7

(* The steps of handle_boost. *)
LEMMA HandleStep ==
  ASSUME FeedInv, Insert \/ RunTriggers \/ Publish
  PROVE  FeedInv'
<1> USE FeedAssumption DEF FeedAssumption
<1>0. TypeOK /\ added \in Nat /\ settled \cap podcasting \subseteq 1 .. added /\ 1 .. added \subseteq Index
  BY DEF FeedInv, TypeOK, Index
<1>1. ASSUME Insert
      PROVE  FeedInv'
  <2> USE <1>1 DEF Insert, Fault
  <2>1. hand \in settled \cap podcasting
    BY DEF FeedInv, HandOK
  <2>2. TypeOK'
    <3>1. boosts \subseteq boosts' /\ boosts' \subseteq 1 .. added /\ refused' \subseteq Index
      BY <1>0, <2>1 DEF TypeOK
    <3>2. faults' \in 0 .. MaxFaults
      BY <1>0 DEF TypeOK
    <3>3. /\ step' \in Steps
          /\ UNCHANGED <<lndVars, linkVars, phase, hand, page, current_index, untyped, outVars,
                         unseen, cut, retreated>>
      BY DEF Steps
    <3> HIDE <1>1
    <3> QED BY <1>0, <3>1, <3>2, <3>3 DEF TypeOK, lndVars, linkVars, outVars
  <2>3. Truthful(page)' /\ Truthful(stream)'
    BY DEF FeedInv, Truthful, lndVars, linkVars
  <2>4. HandOK' /\ PhaseOK' /\ StoredWerePaid'
    BY <2>1 DEF FeedInv, HandOK, PhaseOK, StoredWerePaid, lndVars, linkVars, outVars
  <2>5. StoredIsAnnounced'
    BY DEF FeedInv, StoredIsAnnounced, outVars
  <2>6. NothingMislaid'
    BY DEF FeedInv, NothingMislaid, Announced, lndVars, linkVars
  <2> QED BY <2>2, <2>3, <2>4, <2>5, <2>6 DEF FeedInv
<1>2. ASSUME RunTriggers
      PROVE  FeedInv'
  <2> USE <1>2 DEF RunTriggers, Fault
  <2>1. hand \in settled \cap podcasting /\ hand \in boosts \cup refused /\ hand \in Index
    BY <1>0 DEF FeedInv, HandOK
  <2>2. /\ webhooks' \in [Index -> Nat]
        /\ webhooks'[hand] > 0 \/ hand \in cut'
        /\ \A i \in Index : webhooks[i] > 0 => webhooks'[i] > 0
    <3>1. CASE webhooks' = [webhooks EXCEPT ![hand] = @ + 1]
      BY <1>0, <2>1, <3>1 DEF TypeOK
    <3>2. CASE webhooks' = webhooks /\ hand \in cut'
      BY <1>0, <3>2 DEF TypeOK
    <3> QED BY <3>1, <3>2
  <2>3. TypeOK'
    <3>1. cut' \subseteq Index
      BY <1>0, <2>1 DEF TypeOK
    <3>3. faults' \in 0 .. MaxFaults
      BY <1>0 DEF TypeOK
    <3>2. /\ step' \in Steps
          /\ UNCHANGED <<lndVars, linkVars, phase, hand, page, current_index, dbVars,
                         published, unseen, refused, retreated>>
      BY DEF Steps
    <3> HIDE <1>2
    <3> QED BY <1>0, <2>2, <3>1, <3>2, <3>3 DEF TypeOK, lndVars, linkVars
  <2>4. Truthful(page)' /\ Truthful(stream)'
    BY DEF FeedInv, Truthful, lndVars, linkVars
  <2>5. HandOK' /\ PhaseOK' /\ StoredWerePaid'
    BY <2>1, <2>2 DEF FeedInv, HandOK, PhaseOK, StoredWerePaid, lndVars, linkVars
  <2>6. StoredIsAnnounced'
    <3>1. boosts' \subseteq Index /\ cut \subseteq cut'
      BY <1>0 DEF TypeOK
    <3> QED BY <2>2, <3>1 DEF FeedInv, StoredIsAnnounced
  <2>7. NothingMislaid'
    BY DEF FeedInv, NothingMislaid, Announced, lndVars, linkVars
  <2> QED BY <2>3, <2>4, <2>5, <2>6, <2>7 DEF FeedInv
<1>3. ASSUME Publish
      PROVE  FeedInv'
  <2> USE <1>3 DEF Publish
  <2>1. /\ hand \in settled \cap podcasting /\ hand \in Index /\ hand \in boosts \cup refused
        /\ webhooks[hand] > 0 \/ hand \in cut
    BY <1>0 DEF FeedInv, HandOK
  <2>2. TypeOK'
    <3>1. retreated' \in BOOLEAN
      BY <1>0 DEF TypeOK
    <3> QED BY <1>0, <2>1, <3>1 DEF TypeOK, Steps, lndVars, linkVars
  <2>3. Truthful(page)' /\ Truthful(stream)'
    BY DEF FeedInv, Truthful, lndVars, linkVars
  <2>4. HandOK' /\ PhaseOK' /\ StoredWerePaid'
    BY DEF FeedInv, HandOK, PhaseOK, StoredWerePaid, lndVars, linkVars
  <2>5. StoredIsAnnounced'
    BY <2>1 DEF FeedInv, StoredIsAnnounced
  <2>6. NothingMislaid'
    BY DEF FeedInv, NothingMislaid, Announced, lndVars, linkVars
  <2> QED BY <2>2, <2>3, <2>4, <2>5, <2>6 DEF FeedInv
<1> QED BY <1>1, <1>2, <1>3

(* A crash, or a panic of the task. *)
LEMMA GoneStep ==
  ASSUME FeedInv, Gone, phase' \in {"down", "dead"}, faults' \in 0 .. MaxFaults
  PROVE  FeedInv'
<1> USE DEF Gone
<1>0. TypeOK /\ 1 .. added \subseteq Index
  BY FeedAssumption DEF FeedInv, TypeOK, Index, FeedAssumption
<1>1. /\ step # "idle" => hand \in settled \cap podcasting /\ hand \in Index
      /\ podcasting \subseteq Index
  BY <1>0 DEF FeedInv, HandOK, TypeOK
<1>2. TypeOK'
  <2>1. unseen' \subseteq Index
    BY <1>0, <1>1 DEF TypeOK, Announced
  <2>2. cut' \subseteq Index
    BY <1>0, <1>1 DEF TypeOK
  <2>3. page' \in Seq(Invoice) /\ stream' \in Seq(Invoice)
    BY EmptyFacts
  <2>4. /\ phase' \in Phases /\ step' \in Steps /\ hand' = 0 /\ current_index' = 0
        /\ connected' \in BOOLEAN
        /\ UNCHANGED <<lndVars, dbVars, outVars, refused, retreated>>
    BY DEF Phases, Steps
  <2>5. added \in Nat
    BY <1>0, FeedAssumption DEF TypeOK, FeedAssumption
  <2> HIDE DEF Gone
  <2> QED BY <1>0, <2>1, <2>2, <2>3, <2>4, <2>5 DEF TypeOK, lndVars, outVars
<1>3. Truthful(page)' /\ Truthful(stream)'
  BY EmptyFacts DEF Truthful
<1>4. HandOK' /\ PhaseOK' /\ StoredWerePaid'
  BY DEF FeedInv, HandOK, PhaseOK, StoredWerePaid, lndVars
<1>5. StoredIsAnnounced'
  BY DEF FeedInv, StoredIsAnnounced, outVars
<1>6. NothingMislaid'
  BY DEF FeedInv, NothingMislaid, Announced, lndVars
<1> QED BY <1>2, <1>3, <1>4, <1>5, <1>6 DEF FeedInv

(* Each way the task goes is one. *)
LEMMA GoingIsGone ==
  ASSUME FeedInv, StartPanics \/ Panic \/ Crash
  PROVE  Gone /\ phase' \in {"down", "dead"} /\ faults' \in 0 .. MaxFaults
BY FeedAssumption DEF FeedInv, TypeOK, StartPanics, Panic, Crash, Fault, FeedAssumption

(* The inductive invariant holds of every behaviour. *)
THEOREM FeedInvariant == Spec => []FeedInv
<1>1. Init => FeedInv
  BY FeedInit
<1>2. FeedInv /\ [Next]_vars => FeedInv'
  <2> SUFFICES ASSUME FeedInv, [Next]_vars
               PROVE  FeedInv'
    OBVIOUS
  <2>1. CASE Lnd
    BY <2>1, LndStep
  <2>2. CASE Task \/ ListInvoicesFails \/ Panic \/ Crash
    BY <2>2, LoopStep, HandleStep, GoingIsGone, GoneStep DEF Task
  <2>3. CASE UNCHANGED vars
    BY <2>3 DEF vars, lndVars, linkVars, taskVars, outVars, histVars,
                FeedInv, TypeOK, Truthful, HandOK, PhaseOK, StoredWerePaid,
                NothingMislaid, StoredIsAnnounced, Announced
  <2> QED BY <2>1, <2>2, <2>3 DEF Next
<1> QED BY <1>1, <1>2, PTL DEF Spec

(* Every variable of the feed keeps its type. *)
THEOREM FeedTypeCorrect == Spec => []TypeOK
<1>1. FeedInv => TypeOK
  BY DEF FeedInv
<1> QED BY <1>1, FeedInvariant, PTL

(* Only boosts that were paid get into the boosts table. *)
THEOREM OnlyPaidBoostsAreStored == Spec => []StoredWerePaid
<1>1. FeedInv => StoredWerePaid
  BY DEF FeedInv
<1> QED BY <1>1, FeedInvariant, PTL

(* No transmitted settlement is mislaid by the two loops, whatever order   *)
(* invoices are added and settled in and wherever the faults strike.       *)
THEOREM NoSettlementIsMislaid == Spec => []NothingMislaid
<1>1. FeedInv => NothingMislaid
  BY DEF FeedInv
<1> QED BY <1>1, FeedInvariant, PTL

(* A stored boost gets its triggers and its broadcast unless it was cut    *)
(* short.                                                                  *)
THEOREM StoredBoostsAreAnnounced == Spec => []StoredIsAnnounced
<1>1. FeedInv => StoredIsAnnounced
  BY DEF FeedInv
<1> QED BY <1>1, FeedInvariant, PTL

----------------------------------------------------------------------------
(* A queue holds a settled copy of invoice i. *)
Says(s, i) == \E k \in DOMAIN s : s[k].settled /\ s[k].add_index = i

(* It holds one settled copy of an invoice at most. *)
Once(s) ==
  \A j, k \in DOMAIN s :
    s[j].settled /\ s[k].settled /\ s[j].add_index = s[k].add_index => j = k

(* What handle_boost has in hand will not come again from these queues.    *)
QueuesOnce ==
  /\ Once(page) /\ Once(stream)
  /\ step # "idle" => ~Says(page, hand) /\ ~Says(stream, hand)

(* The triggers of a stored boost have run, and nothing that the task has  *)
(* before it makes them run again: the cursor has passed it.               *)
RanOnce(i) ==
  /\ webhooks[i] = 1 /\ i \in boosts
  /\ ~Says(page, i) /\ ~Says(stream, i)
  /\ ~(step \in {"insert", "trigger"} /\ hand = i)
  /\ phase \notin {"down", "dead"} => i <= current_index \/ (step = "publish" /\ hand = i)

RepeatsOK == retreated \/ \A i \in Index \ refused : webhooks[i] = 0 \/ RanOnce(i)

(* With FeedInv, the inductive invariant. *)
RepeatInv == QueuesOnce /\ RepeatsOK

----------------------------------------------------------------------------
(* The rest of a queue says nothing that the queue did not, and what its   *)
(* head said no more.                                                      *)
LEMMA TailSays ==
  ASSUME NEW s \in Seq(Invoice), s # <<>>, Once(s)
  PROVE  /\ Once(Tail(s))
         /\ \A i : Says(Tail(s), i) => Says(s, i)
         /\ Head(s).settled => ~Says(Tail(s), Head(s).add_index)
                               /\ Says(s, Head(s).add_index)
<1>1. /\ Tail(s) \in Seq(Invoice) /\ Len(Tail(s)) = Len(s) - 1
      /\ \A k \in 1 .. Len(Tail(s)) : Tail(s)[k] = s[k + 1]
  BY HeadTailProperties
<1>2. Len(s) \in Nat \ {0} /\ DOMAIN s = 1 .. Len(s)
  BY EmptySeq, LenProperties
<1>3. DOMAIN Tail(s) = 1 .. Len(s) - 1
  BY <1>1, LenProperties
<1>4. \A k \in DOMAIN Tail(s) : k \in Nat /\ k # 0 /\ k + 1 \in DOMAIN s /\ Tail(s)[k] = s[k + 1]
  BY <1>1, <1>2, <1>3
<1>5. Head(s) = s[1] /\ 1 \in DOMAIN s
  BY <1>2
<1>6. Once(Tail(s))
  <2> SUFFICES ASSUME NEW j \in DOMAIN Tail(s), NEW k \in DOMAIN Tail(s),
                      Tail(s)[j].settled, Tail(s)[k].settled,
                      Tail(s)[j].add_index = Tail(s)[k].add_index
               PROVE  j = k
    BY DEF Once
  <2>1. j + 1 = k + 1
    BY <1>4 DEF Once
  <2> QED BY <1>4, <2>1
<1>7. \A i : Says(Tail(s), i) => Says(s, i)
  BY <1>4 DEF Says
<1>8. ASSUME Head(s).settled, Says(Tail(s), Head(s).add_index)
      PROVE  FALSE
  <2>1. PICK k \in DOMAIN Tail(s) : Tail(s)[k].settled /\ Tail(s)[k].add_index = Head(s).add_index
    BY <1>8 DEF Says
  <2>2. k + 1 = 1
    BY <1>4, <1>5, <1>8, <2>1 DEF Once
  <2> QED BY <1>4, <2>2
<1>9. Head(s).settled => Says(s, Head(s).add_index)
  BY <1>5 DEF Says
<1> QED BY <1>6, <1>7, <1>8, <1>9

(* A message more says what it says. *)
LEMMA AppendSays ==
  ASSUME NEW s \in Seq(Invoice), NEW e \in Invoice, Once(s),
         e.settled => ~Says(s, e.add_index)
  PROVE  /\ Once(Append(s, e))
         /\ \A i : Says(Append(s, e), i) => Says(s, i) \/ (e.settled /\ e.add_index = i)
<1> DEFINE t == Append(s, e)
<1>1. /\ Len(t) = Len(s) + 1 /\ t \in Seq(Invoice)
      /\ \A k \in 1 .. Len(s) : t[k] = s[k]
      /\ t[Len(s) + 1] = e
  BY AppendProperties
<1>2. Len(s) \in Nat /\ DOMAIN s = 1 .. Len(s) /\ DOMAIN t = 1 .. Len(s) + 1
  BY <1>1, LenProperties
<1> HIDE DEF t
<1>3. \A k \in DOMAIN t : (k \in DOMAIN s /\ t[k] = s[k]) \/ (k = Len(s) + 1 /\ t[k] = e)
  BY <1>1, <1>2
<1>4. \A i : Says(t, i) => Says(s, i) \/ (e.settled /\ e.add_index = i)
  BY <1>3 DEF Says
<1>5. Once(t)
  <2> SUFFICES ASSUME NEW j \in DOMAIN t, NEW k \in DOMAIN t,
                      t[j].settled, t[k].settled, t[j].add_index = t[k].add_index
               PROVE  j = k
    BY DEF Once
  <2>1. CASE j \in DOMAIN s /\ t[j] = s[j] /\ k \in DOMAIN s /\ t[k] = s[k]
    BY <2>1 DEF Once
  <2>2. CASE j \in DOMAIN s /\ t[j] = s[j] /\ t[k] = e
    BY <2>2 DEF Says
  <2>3. CASE t[j] = e /\ k \in DOMAIN s /\ t[k] = s[k]
    BY <2>3 DEF Says
  <2> QED BY <1>3, <2>1, <2>2, <2>3
<1> QED BY <1>4, <1>5 DEF t

(* A list_invoices response or a backlog starts where it was asked to.     *)
LEMMA SliceSays ==
  ASSUME NEW lo \in Nat, NEW hi \in Nat
  PROVE  Once(Slice(lo, hi)) /\ \A i : Says(Slice(lo, hi), i) => lo <= i
<1>1. \A k \in DOMAIN Slice(lo, hi) : k \in Nat /\ k >= 1 /\ Slice(lo, hi)[k].add_index = lo + k - 1
  BY DEF Slice, Report
<1>2. \A k \in DOMAIN Slice(lo, hi) : lo <= lo + k - 1
  BY <1>1
<1>3. \A i : Says(Slice(lo, hi), i) => lo <= i
  BY <1>1, <1>2 DEF Says
<1>4. \A j, k \in DOMAIN Slice(lo, hi) : lo + j - 1 = lo + k - 1 => j = k
  BY <1>1
<1>5. Once(Slice(lo, hi))
  BY <1>1, <1>4 DEF Once
<1> QED BY <1>3, <1>5

(* What a broken stream has left. *)
LEMMA PrefixSays ==
  ASSUME NEW s \in Seq(Invoice), NEW n \in 0 .. Len(s), Once(s)
  PROVE  Once(SubSeq(s, 1, n)) /\ \A i : Says(SubSeq(s, 1, n), i) => Says(s, i)
<1>1. Len(s) \in Nat /\ DOMAIN s = 1 .. Len(s)
  BY LenProperties
<1>2. \A k \in 1 .. n : k \in DOMAIN s /\ s[k] \in Invoice
  BY <1>1, ElementOfSeq
<1>3. /\ SubSeq(s, 1, n) \in Seq(Invoice)
      /\ Len(SubSeq(s, 1, n)) = n
      /\ \A k \in 1 .. n : SubSeq(s, 1, n)[k] = s[k]
  BY <1>1, <1>2, SubSeqProperties
<1>4. DOMAIN SubSeq(s, 1, n) = 1 .. n
  BY <1>3, LenProperties
<1> QED BY <1>2, <1>3, <1>4 DEF Once, Says

(* An empty queue says nothing. *)
LEMMA EmptySays == Once(<<>>) /\ \A i : ~Says(<<>>, i)
<1>1. DOMAIN <<>> = {}
  BY EmptySeq
<1> QED BY <1>1 DEF Once, Says

(* No stored boost is above the one a restart resumes at. *)
LEMMA LastBoostAbove ==
  ASSUME TypeOK, NEW i \in boosts
  PROVE  i <= LastBoostIndex
<1>1. added \in Nat /\ boosts \subseteq 1 .. added
  BY FeedAssumption DEF TypeOK, FeedAssumption
<1>2. boosts \in SUBSET (0 .. added)
  BY <1>1
<1>3. \E k \in boosts : \A j \in boosts : j <= k
  BY <1>1, <1>2, GreatestNatural
<1> QED BY <1>3 DEF LastBoostIndex

----------------------------------------------------------------------------
(* The system starts with what an earlier release has stored and run. *)
LEMMA RepeatStarts == Init => RepeatInv
<1> SUFFICES ASSUME Init PROVE RepeatInv
  OBVIOUS
<1>1. QueuesOnce
  BY EmptySays DEF Init, QueuesOnce
<1>2. RepeatsOK
  BY EmptySays DEF Init, RepeatsOK, RanOnce
<1> QED BY <1>1, <1>2 DEF RepeatInv

(* What a trigger run is about is settled, so no settle event is to come.  *)
LEMMA RanWasSettled ==
  ASSUME FeedInv, NEW i \in Index, RanOnce(i)
  PROVE  i \in settled
BY DEF FeedInv, StoredWerePaid, RanOnce

(* A step that runs no trigger, hands nothing to handle_boost and lets the *)
(* queues say nothing new keeps what has run as it is.                     *)
LEMMA QuietStep ==
  ASSUME RepeatsOK,
         webhooks' = webhooks, boosts' = boosts, refused' = refused,
         phase' \notin {"down", "dead"} => phase \notin {"down", "dead"},
         step' = step, hand' = hand,
         retreated' \/ (retreated' = retreated /\ current_index' = current_index),
         \A i \in Index : RanOnce(i) => ~Says(page', i) /\ ~Says(stream', i)
  PROVE  RepeatsOK'
<1>1. CASE retreated'
  BY <1>1 DEF RepeatsOK
<1>2. CASE ~retreated'
  <2>1. \A i \in Index \ refused : webhooks[i] = 0 \/ RanOnce(i)
    BY <1>2 DEF RepeatsOK
  <2>2. ASSUME NEW i \in Index \ refused', webhooks'[i] # 0
        PROVE  RanOnce(i)'
    <3>1. RanOnce(i) /\ i \in Index
      BY <2>1, <2>2
    <3>2. ~Says(page', i) /\ ~Says(stream', i)
      BY <3>1
    <3> QED BY <1>2, <3>1, <3>2 DEF RanOnce, Says
  <2> QED BY <2>2 DEF RepeatsOK
<1> QED BY <1>1, <1>2

(* The steps that only LND takes. *)
LEMMA LndRepeats ==
  ASSUME FeedInv, RepeatInv, Lnd
  PROVE  RepeatInv'
<1> USE FeedAssumption DEF FeedAssumption
<1>0. /\ stream \in Seq(Invoice) /\ page \in Seq(Invoice)
      /\ Once(page) /\ Once(stream) /\ RepeatsOK /\ Truthful(stream)
      /\ step # "idle" => hand \in settled
  BY DEF FeedInv, TypeOK, RepeatInv, QueuesOnce, HandOK
<1>1. ASSUME NEW isBoost \in BOOLEAN, AddInvoice(isBoost)
      PROVE  RepeatInv'
  <2> DEFINE e == [add_index |-> added + 1, settled |-> FALSE]
  <2>1. e \in Invoice /\ ~e.settled
    BY <1>1 DEF AddInvoice, FeedInv, TypeOK, Invoice, Index
  <2>2. stream' = stream \/ stream' = Append(stream, e)
    BY <1>1 DEF AddInvoice
  <2>3. Once(stream') /\ \A i : Says(stream', i) => Says(stream, i)
    <3> HIDE DEF e
    <3>1. /\ Once(Append(stream, e))
          /\ \A i : Says(Append(stream, e), i) => Says(stream, i)
      BY <1>0, <2>1, AppendSays
    <3>2. CASE stream' = stream
      BY <1>0, <3>2
    <3>3. CASE stream' = Append(stream, e)
      BY <3>1, <3>3
    <3> QED BY <2>2, <3>2, <3>3
  <2>4. UNCHANGED <<phase, step, hand, page, current_index, boosts, webhooks, refused, retreated>>
    BY <1>1 DEF AddInvoice, taskVars, outVars, histVars
  <2>5. QueuesOnce'
    BY <2>3, <2>4 DEF RepeatInv, QueuesOnce, Says, Once
  <2>6. \A i \in Index : RanOnce(i) => ~Says(page', i) /\ ~Says(stream', i)
    BY <2>3, <2>4 DEF RanOnce
  <2>7. RepeatsOK'
    BY <1>0, <2>4, <2>6, QuietStep
  <2> QED BY <2>5, <2>7 DEF RepeatInv
<1>2. ASSUME NEW j \in Index, SettleInvoice(j)
      PROVE  RepeatInv'
  <2> DEFINE e == [add_index |-> j, settled |-> TRUE]
  <2>1. e \in Invoice /\ e.add_index = j
    BY DEF Invoice
  <2>2. stream' = stream \/ stream' = Append(stream, e)
    BY <1>2 DEF SettleInvoice
  <2>3. j \notin settled /\ ~Says(stream, j)
    BY <1>0, <1>2 DEF SettleInvoice, Truthful, Says
  <2>4. Once(stream') /\ \A i : Says(stream', i) => Says(stream, i) \/ i = j
    <3> HIDE DEF e
    <3>1. /\ Once(Append(stream, e))
          /\ \A i : Says(Append(stream, e), i) => Says(stream, i) \/ i = j
      BY <1>0, <2>1, <2>3, AppendSays
    <3>2. CASE stream' = stream
      BY <1>0, <3>2
    <3>3. CASE stream' = Append(stream, e)
      BY <3>1, <3>3
    <3> QED BY <2>2, <3>2, <3>3
  <2>5. UNCHANGED <<phase, step, hand, page, current_index, boosts, webhooks, refused, retreated>>
    BY <1>2 DEF SettleInvoice, taskVars, outVars
  <2>6. step # "idle" => hand # j
    BY <1>0, <2>3
  <2>7. QueuesOnce'
    BY <2>4, <2>5, <2>6 DEF RepeatInv, QueuesOnce, Says, Once
  <2>8. \A i \in Index : RanOnce(i) => ~Says(page', i) /\ ~Says(stream', i)
    BY <2>3, <2>4, <2>5, RanWasSettled DEF RanOnce
  <2>9. RepeatsOK'
    BY <1>0, <2>5, <2>8, QuietStep
  <2> QED BY <2>7, <2>9 DEF RepeatInv
<1>3. ASSUME NEW n \in 0 .. Len(stream), BreakStream(n)
      PROVE  RepeatInv'
  <2>1. stream' = SubSeq(stream, 1, n)
    BY <1>3 DEF BreakStream
  <2>2. Once(stream') /\ \A i : Says(stream', i) => Says(stream, i)
    BY <1>0, <2>1, PrefixSays
  <2>3. UNCHANGED <<phase, step, hand, page, current_index, boosts, webhooks, refused, retreated>>
    BY <1>3 DEF BreakStream, taskVars, outVars
  <2>4. QueuesOnce'
    BY <1>0, <2>2, <2>3 DEF RepeatInv, QueuesOnce, Says, Once
  <2>5. \A i \in Index : RanOnce(i) => ~Says(page', i) /\ ~Says(stream', i)
    BY <2>2, <2>3 DEF RanOnce
  <2>6. RepeatsOK'
    BY <1>0, <2>3, <2>5, QuietStep
  <2> QED BY <2>4, <2>6 DEF RepeatInv
<1> QED BY <1>1, <1>2, <1>3 DEF Lnd

(* Taking the first invoice s[1] off a queue s that is left with rest, the *)
(* other queue being empty.                                                *)
LEMMA TakeRepeats ==
  ASSUME FeedInv, RepeatInv, step = "idle", phase \notin {"down", "dead"},
         NEW s \in {page, stream}, s # <<>>, s \in Seq(Invoice), Take(Head(s)),
         UNCHANGED <<phase, boosts, webhooks, refused>>,
         \/ s = page /\ stream = <<>> /\ page' = Tail(s) /\ stream' = stream
         \/ s = stream /\ page = <<>> /\ stream' = Tail(s) /\ page' = page
  PROVE  RepeatInv'
<1> DEFINE inv == Head(s)
<1>1. Once(s) /\ RepeatsOK
  BY DEF RepeatInv, QueuesOnce
<1>2. /\ Once(Tail(s)) /\ \A i : Says(Tail(s), i) => Says(s, i)
      /\ inv.settled => ~Says(Tail(s), inv.add_index) /\ Says(s, inv.add_index)
  BY <1>1, TailSays
<1>3. /\ Once(page') /\ Once(stream')
      /\ \A i : Says(page', i) => Says(page, i)
      /\ \A i : Says(stream', i) => Says(stream, i)
      /\ \A i : Says(page', i) \/ Says(stream', i) => Says(Tail(s), i)
  <2>1. CASE s = page /\ stream = <<>> /\ page' = Tail(s) /\ stream' = stream
    <3>1. Once(Tail(s)) /\ Once(stream) /\ \A i : Says(Tail(s), i) => Says(page, i)
      BY <1>2, <2>1, EmptySays
    <3>2. \A i : ~Says(stream, i)
      BY <2>1, EmptySays
    <3> QED BY <2>1, <3>1, <3>2
  <2>2. CASE s = stream /\ page = <<>> /\ stream' = Tail(s) /\ page' = page
    <3>1. Once(Tail(s)) /\ Once(page) /\ \A i : Says(Tail(s), i) => Says(stream, i)
      BY <1>2, <2>2, EmptySays
    <3>2. \A i : ~Says(page, i)
      BY <2>2, EmptySays
    <3> QED BY <2>2, <3>1, <3>2
  <2> QED BY <2>1, <2>2
<1>4. Says(page, inv.add_index) \/ Says(stream, inv.add_index) \/ ~inv.settled
  BY <1>2
<1>5. inv \in Invoice /\ inv.add_index \in Int /\ current_index \in Int
  <2>1. inv \in Invoice
    BY HeadTailProperties
  <2>2. current_index \in Int
    BY DEF FeedInv, TypeOK
  <2>3. Index \subseteq Int
    BY FeedAssumption DEF Index, FeedAssumption
  <2> HIDE DEF inv
  <2> QED BY <2>1, <2>2, <2>3 DEF Invoice
<1> HIDE DEF inv
<1>6. Take(inv)
  BY DEF inv
<1>7. CASE ParsesToBoost(inv)
  <2>1. /\ hand' = inv.add_index /\ step' = "insert" /\ current_index' = current_index
        /\ retreated' = retreated /\ inv.settled
    BY <1>6, <1>7 DEF Take, ParsesToBoost
  <2>2. ~Says(page', hand') /\ ~Says(stream', hand')
    BY <1>2, <1>3, <2>1
  <2>3. QueuesOnce'
    BY <1>3, <2>2 DEF QueuesOnce, Says, Once
  <2>4. ASSUME NEW i \in Index, RanOnce(i)
        PROVE  RanOnce(i)'
    <3>1. i # inv.add_index
      BY <1>4, <2>1, <2>4 DEF RanOnce
    <3>2. ~Says(page', i) /\ ~Says(stream', i)
      BY <1>3, <2>4 DEF RanOnce
    <3> QED BY <2>1, <2>4, <3>1, <3>2 DEF RanOnce, Says
  <2>5. RepeatsOK'
    BY <1>1, <2>1, <2>4 DEF RepeatsOK
  <2> QED BY <2>3, <2>5 DEF RepeatInv
<1>8. CASE ~ParsesToBoost(inv)
  <2>1. /\ current_index' = inv.add_index /\ hand' = hand /\ step' = step
        /\ retreated' = (retreated \/ inv.add_index < current_index)
    BY <1>6, <1>8 DEF Take
  <2>0. ~retreated' => ~retreated /\ ~(inv.add_index < current_index)
    BY <2>1, Zenon
  <2>2. QueuesOnce'
    BY <1>3, <2>1 DEF QueuesOnce, Says, Once
  <2>3. ASSUME NEW i \in Index, RanOnce(i), ~retreated'
        PROVE  RanOnce(i)'
    <3>1. ~Says(page', i) /\ ~Says(stream', i)
      BY <1>3, <2>3 DEF RanOnce
    <3>2. i \in Int
      BY FeedAssumption DEF Index, FeedAssumption
    <3>3. i <= current_index /\ ~(inv.add_index < current_index)
      BY <2>0, <2>3 DEF RanOnce
    <3>4. i <= current_index'
      BY <1>5, <2>1, <3>2, <3>3
    <3> QED BY <2>1, <2>3, <3>1, <3>4 DEF RanOnce, Says
  <2>4. ASSUME ~retreated'
        PROVE  \A i \in Index \ refused' : webhooks'[i] = 0 \/ RanOnce(i)'
    BY <1>1, <2>0, <2>3, <2>4 DEF RepeatsOK
  <2>5. RepeatsOK'
    BY <2>4 DEF RepeatsOK
  <2> QED BY <2>2, <2>5 DEF RepeatInv
<1> QED BY <1>7, <1>8

(* The steps of the two reading loops. *)
LEMMA LoopRepeats ==
  ASSUME FeedInv, RepeatInv,
         Start \/ ListInvoices \/ ListInvoicesFails \/ NextOfPage
           \/ Subscribe \/ Receive \/ StreamEnds
  PROVE  RepeatInv'
<1>0. /\ TypeOK /\ PhaseOK /\ RepeatsOK /\ Once(page) /\ Once(stream)
      /\ added \in Nat /\ current_index \in Nat
      /\ page \in Seq(Invoice) /\ stream \in Seq(Invoice)
  BY FeedAssumption DEF FeedInv, TypeOK, RepeatInv, QueuesOnce, FeedAssumption
<1>1. ASSUME Start
      PROVE  RepeatInv'
  <2>1. /\ phase = "down" /\ step = "idle" /\ current_index' = LastBoostIndex
        /\ UNCHANGED <<step, hand, page, stream, boosts, webhooks, refused, retreated>>
    BY <1>0, <1>1 DEF Start, PhaseOK, linkVars, outVars, histVars
  <2>2. QueuesOnce'
    BY <1>0, <2>1 DEF QueuesOnce, Once
  <2>3. ASSUME NEW i \in Index, RanOnce(i)
        PROVE  RanOnce(i)'
    <3>1. i <= current_index'
      BY <1>0, <2>1, <2>3, LastBoostAbove DEF RanOnce
    <3> QED BY <2>1, <2>3, <3>1 DEF RanOnce, Says
  <2>4. RepeatsOK'
    BY <1>0, <2>1, <2>3 DEF RepeatsOK
  <2> QED BY <2>2, <2>4 DEF RepeatInv
<1>2. ASSUME ListInvoices
      PROVE  RepeatInv'
  <2> DEFINE lo == current_index + 1
             hi == Lower(added, current_index + PageSize)
  <2>1. /\ step = "idle" /\ phase = "catchup" /\ phase' \in {"subscribing", "catchup"}
        /\ page' = Slice(lo, hi)
        /\ UNCHANGED <<step, hand, stream, current_index, boosts, webhooks, refused, retreated>>
    BY <1>2 DEF ListInvoices, linkVars, outVars
  <2>2. lo \in Nat /\ hi \in Nat
    BY <1>0, FeedAssumption DEF Lower, FeedAssumption
  <2>3. Once(page') /\ \A i : Says(page', i) => lo <= i
    <3> HIDE DEF lo, hi
    <3> QED BY <2>1, <2>2, SliceSays
  <2>4. QueuesOnce'
    BY <1>0, <2>1, <2>3 DEF QueuesOnce, Once
  <2>5. ASSUME NEW i \in Index, RanOnce(i)
        PROVE  ~Says(page', i) /\ ~Says(stream', i)
    <3>1. i <= current_index /\ i \in Int
      BY <2>1, <2>5, FeedAssumption DEF RanOnce, Index, FeedAssumption
    <3>2. ~(lo <= i)
      BY <1>0, <3>1
    <3> HIDE DEF lo
    <3> QED BY <2>1, <2>3, <2>5, <3>2 DEF RanOnce
  <2>6. RepeatsOK'
    BY <1>0, <2>1, <2>5, QuietStep
  <2> QED BY <2>4, <2>6 DEF RepeatInv
<1>3. ASSUME ListInvoicesFails \/ StreamEnds
      PROVE  RepeatInv'
  <2>1. /\ phase \in {"catchup", "listening"}
        /\ UNCHANGED <<step, hand, page, stream, current_index, boosts, webhooks, refused, retreated>>
    BY <1>3 DEF ListInvoicesFails, StreamEnds, linkVars, outVars, histVars
  <2>2. QueuesOnce'
    BY <2>1 DEF RepeatInv, QueuesOnce, Once, Says
  <2>3. \A i \in Index : RanOnce(i) => ~Says(page', i) /\ ~Says(stream', i)
    BY <2>1 DEF RanOnce
  <2>4. RepeatsOK'
    BY <1>0, <2>1, <2>3, QuietStep
  <2> QED BY <2>2, <2>4 DEF RepeatInv
<1>4. ASSUME NextOfPage
      PROVE  RepeatInv'
  <2>1. /\ step = "idle" /\ phase = "catchup" /\ page # <<>> /\ stream = <<>>
        /\ Take(Head(page)) /\ page' = Tail(page) /\ stream' = stream
        /\ UNCHANGED <<phase, boosts, webhooks, refused>>
    BY <1>0, <1>4 DEF NextOfPage, PhaseOK, linkVars, outVars
  <2> QED BY <1>0, <2>1, TakeRepeats
<1>5. ASSUME Subscribe
      PROVE  RepeatInv'
  <2>1. /\ step = "idle" /\ phase = "subscribing" /\ phase' = "listening"
        /\ stream' = IF current_index = 0 THEN <<>> ELSE Slice(current_index + 1, added)
        /\ UNCHANGED <<step, hand, page, current_index, boosts, webhooks, refused, retreated>>
    BY <1>0, <1>5 DEF Subscribe, PhaseOK, outVars
  <2>2. Once(stream') /\ \A i : Says(stream', i) => current_index + 1 <= i
    <3>1. CASE current_index = 0
      BY <2>1, <3>1, EmptySays
    <3>2. CASE current_index # 0
      <4>1. current_index + 1 \in Nat
        BY <1>0
      <4>2. stream' = Slice(current_index + 1, added)
        BY <2>1, <3>2
      <4> QED BY <1>0, <4>1, <4>2, SliceSays
    <3> QED BY <3>1, <3>2
  <2>3. QueuesOnce'
    BY <1>0, <2>1, <2>2 DEF QueuesOnce, Once
  <2>4. ASSUME NEW i \in Index, RanOnce(i)
        PROVE  ~Says(page', i) /\ ~Says(stream', i)
    <3>1. i <= current_index /\ i \in Int
      BY <2>1, <2>4, FeedAssumption DEF RanOnce, Index, FeedAssumption
    <3>2. ~(current_index + 1 <= i)
      BY <1>0, <3>1
    <3> QED BY <2>1, <2>2, <2>4, <3>2 DEF RanOnce
  <2>5. RepeatsOK'
    BY <1>0, <2>1, <2>4, QuietStep
  <2> QED BY <2>3, <2>5 DEF RepeatInv
<1>6. ASSUME Receive
      PROVE  RepeatInv'
  <2>1. /\ step = "idle" /\ phase = "listening" /\ stream # <<>> /\ page = <<>>
        /\ Take(Head(stream)) /\ stream' = Tail(stream) /\ page' = page
        /\ UNCHANGED <<phase, boosts, webhooks, refused>>
    BY <1>0, <1>6 DEF Receive, PhaseOK, outVars
  <2> QED BY <1>0, <2>1, TakeRepeats
<1> QED BY <1>1, <1>2, <1>3, <1>4, <1>5, <1>6

(* The steps of handle_boost, once more. *)
LEMMA HandleRepeats ==
  ASSUME FeedInv, RepeatInv, Insert \/ RunTriggers \/ Publish
  PROVE  RepeatInv'
<1>0. /\ TypeOK /\ RepeatsOK /\ QueuesOnce /\ HandOK
      /\ current_index \in Nat /\ Index \subseteq Nat /\ retreated \in BOOLEAN
      /\ webhooks \in [Index -> Nat]
      /\ step # "idle" => hand \in Index
  BY FeedAssumption DEF FeedInv, TypeOK, RepeatInv, FeedAssumption, Index, HandOK
<1>1. ASSUME Insert
      PROVE  RepeatInv'
  <2>1. /\ step = "insert" /\ step' = "trigger" /\ boosts \subseteq boosts'
        /\ refused \subseteq refused'
        /\ UNCHANGED <<phase, hand, page, stream, current_index, webhooks, retreated>>
    BY <1>1 DEF Insert, linkVars, outVars
  <2>2. QueuesOnce'
    BY <1>0, <2>1 DEF QueuesOnce, Once, Says
  <2>3. ASSUME NEW i \in Index, RanOnce(i)
        PROVE  RanOnce(i)'
    BY <2>1, <2>3 DEF RanOnce, Says
  <2>4. RepeatsOK'
    BY <1>0, <2>1, <2>3 DEF RepeatsOK
  <2> QED BY <2>2, <2>4 DEF RepeatInv
<1>2. ASSUME RunTriggers
      PROVE  RepeatInv'
  <2>1. /\ step = "trigger" /\ step' = "publish"
        /\ webhooks' = webhooks \/ webhooks' = [webhooks EXCEPT ![hand] = @ + 1]
        /\ UNCHANGED <<phase, hand, page, stream, current_index, boosts, refused, retreated>>
    BY <1>2 DEF RunTriggers, linkVars
  <2>2. QueuesOnce'
    BY <1>0, <2>1 DEF QueuesOnce, Once, Says
  <2>3. ASSUME NEW i \in Index, i # hand, RanOnce(i)
        PROVE  RanOnce(i)'
    <3>1. webhooks'[i] = 1
      BY <1>0, <2>1, <2>3 DEF RanOnce
    <3> QED BY <2>1, <2>3, <3>1 DEF RanOnce, Says
  <2>4. ~RanOnce(hand)
    BY <2>1 DEF RanOnce
  <2>5. hand \in Index /\ (hand \in boosts \/ hand \in refused)
        /\ ~Says(page, hand) /\ ~Says(stream, hand)
    BY <1>0, <2>1 DEF HandOK, QueuesOnce
  <2>6. ASSUME NEW i \in Index \ refused, ~retreated
        PROVE  webhooks'[i] = 0 \/ RanOnce(i)'
    <3>1. webhooks[i] = 0 \/ RanOnce(i)
      BY <1>0, <2>6 DEF RepeatsOK
    <3>2. CASE i = hand
      <4>1. webhooks[i] = 0 /\ i \in boosts
        BY <2>4, <2>5, <2>6, <3>1, <3>2
      <4>2. webhooks'[i] = 0 \/ webhooks'[i] = 1
        BY <1>0, <2>1, <2>5, <3>2, <4>1
      <4>3. webhooks'[i] = 1 => RanOnce(i)'
        BY <2>1, <2>5, <3>2, <4>1 DEF RanOnce, Says
      <4> QED BY <4>2, <4>3
    <3>3. CASE i # hand
      <4>1. webhooks'[i] = webhooks[i]
        BY <1>0, <2>1, <2>6, <3>3
      <4> QED BY <2>3, <2>6, <3>1, <3>3, <4>1
    <3> QED BY <3>2, <3>3
  <2>7. RepeatsOK'
    BY <2>1, <2>6 DEF RepeatsOK
  <2> QED BY <2>2, <2>7 DEF RepeatInv
<1>3. ASSUME Publish
      PROVE  RepeatInv'
  <2>1. /\ step = "publish" /\ step' = "idle" /\ current_index' = hand
        /\ retreated' = (retreated \/ hand < current_index)
        /\ UNCHANGED <<phase, page, stream, boosts, webhooks, refused>>
    BY <1>3 DEF Publish, linkVars
  <2>0. ~retreated' => ~retreated /\ ~(hand < current_index)
    BY <2>1, Zenon
  <2>2. QueuesOnce'
    BY <1>0, <2>1 DEF QueuesOnce, Once
  <2>3. ASSUME NEW i \in Index, RanOnce(i), ~retreated'
        PROVE  RanOnce(i)'
    <3>1. phase \notin {"down", "dead"} => i <= current_index \/ hand = i
      BY <2>3 DEF RanOnce
    <3>2. i \in Nat /\ hand \in Nat
      BY <1>0, <2>1
    <3>3. phase \notin {"down", "dead"} => i <= hand
      BY <1>0, <2>0, <2>3, <3>1, <3>2
    <3> QED BY <2>1, <2>3, <3>3 DEF RanOnce, Says
  <2>4. ASSUME ~retreated'
        PROVE  \A i \in Index \ refused' : webhooks'[i] = 0 \/ RanOnce(i)'
    BY <1>0, <2>0, <2>1, <2>3, <2>4 DEF RepeatsOK
  <2>5. RepeatsOK'
    BY <2>4 DEF RepeatsOK
  <2> QED BY <2>2, <2>5 DEF RepeatInv
<1> QED BY <1>1, <1>2, <1>3

(* Nothing is left to run again when the task is gone. *)
LEMMA GoneRepeats ==
  ASSUME RepeatInv, Gone, phase' \in {"down", "dead"}
  PROVE  RepeatInv'
<1>1. /\ step' = "idle" /\ page' = <<>> /\ stream' = <<>>
      /\ UNCHANGED <<boosts, webhooks, refused, retreated>>
  BY DEF Gone, outVars
<1>2. Once(page') /\ Once(stream') /\ \A i : ~Says(page', i) /\ ~Says(stream', i)
  BY <1>1, EmptySays
<1>3. QueuesOnce'
  BY <1>1, <1>2 DEF QueuesOnce, Once
<1>4. ASSUME NEW i \in Index, RanOnce(i)
      PROVE  RanOnce(i)'
  BY <1>1, <1>2, <1>4 DEF RanOnce, Says
<1>5. RepeatsOK'
  BY <1>1, <1>4 DEF RepeatInv, RepeatsOK
<1> QED BY <1>3, <1>5 DEF RepeatInv

(* The triggers of a stored boost run a second time only after the cursor  *)
(* has moved backwards, over any number of restarts and broken streams.    *)
THEOREM RepeatsFollowARetreat == Spec => []RepeatsNeedRetreat
<1>1. Init => RepeatInv
  BY RepeatStarts
<1>2. FeedInv /\ RepeatInv /\ [Next]_vars => RepeatInv'
  <2> SUFFICES ASSUME FeedInv, RepeatInv, [Next]_vars
               PROVE  RepeatInv'
    OBVIOUS
  <2>1. CASE Lnd
    BY <2>1, LndRepeats
  <2>2. CASE Task \/ ListInvoicesFails \/ Panic \/ Crash
    BY <2>2, LoopRepeats, HandleRepeats, GoingIsGone, GoneRepeats DEF Task
  <2>3. CASE UNCHANGED vars
    BY <2>3 DEF vars, linkVars, taskVars, outVars, histVars,
                RepeatInv, QueuesOnce, RepeatsOK, RanOnce, Once, Says
  <2> QED BY <2>1, <2>2, <2>3 DEF Next
<1>3. FeedInv /\ RepeatInv => RepeatsNeedRetreat
  BY DEF FeedInv, RepeatInv, RepeatsOK, RanOnce, RepeatsNeedRetreat
<1> QED BY <1>1, <1>2, <1>3, FeedInvariant, PTL DEF Spec
=============================================================================
