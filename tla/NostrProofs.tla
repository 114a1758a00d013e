---------------------------- MODULE NostrProofs -----------------------------
(***************************************************************************)
(* Proofs about NostrNames, for all relays, addresses, authors and events  *)
(* and any number of queries, connections and messages: what an answered   *)
(* query leaves behind, and that querySync implements ProfileQuery.        *)
(***************************************************************************)
EXTENDS NostrNames, SequenceTheorems, TLAPS

Attempt == [socket : {"opening", "open", "dead"},
            promise : {"pending", "resolved", "rejected"}, timer : BOOLEAN]

Stages == {"none", "bad", "connecting", "open", "shut", "refused"}

QueryRecord ==
  [author : Authors \cup {"none"}, at : [Addresses -> Stages], waits : [Relays -> Nat],
   eosesReceived : SUBSET Addresses, closesReceived : SUBSET Addresses,
   knownIds : SUBSET Events, events : Seq(Events), answered : BOOLEAN]

(* A query counts as closed where it is shut for good, and is answered     *)
(* once that is everywhere.                                                *)
ClosedOK(r) ==
  /\ r.closesReceived \subseteq r.eosesReceived
  /\ \A u \in r.closesReceived : r.at[u] \in {"shut", "refused"}
  /\ r.answered => Requests(r) \subseteq r.closesReceived

(* What it has collected is the profile it is about, once: the id of an    *)
(* event is known from its first copy on.                                  *)
EventsOK(r) ==
  /\ \A k \in DOMAIN r.events : r.events[k] = <<r.author, 0>> /\ r.events[k] \in r.knownIds
  /\ \A j, k \in DOMAIN r.events : r.events[j] = r.events[k] => j = k

QueryOK(r) ==
  /\ r \in QueryRecord
  /\ IF Requests(r) = {} THEN r = Unasked ELSE r.author \in Authors
  /\ ClosedOK(r) /\ EventsOK(r)

(* What any task may do to a query that was asked before.                  *)
Moves(r, s) ==
  /\ QueryOK(s)
  /\ Requests(s) = Requests(r) /\ s.author = r.author
  /\ r.answered => s.answered /\ s.events = r.events

RelayOK ==
  /\ attempts \in [Relays -> Seq(Attempt)]
  /\ connectionPromise \in [Relays -> Nat]
  /\ \A u \in Relays : connectionPromise[u] \in 0 .. Len(attempts[u])
  /\ connected \in [Relays -> BOOLEAN]
  /\ incomingMessageQueue \in [Relays -> Seq(Messages)]

NamesOK ==
  /\ names \subseteq Authors \ Nameless
  /\ snapshot \in [Queries -> SUBSET (Authors \ Nameless)]
  /\ writes \in Seq(Queries) /\ seen \in [Queries -> Nat]
  /\ \A q \in Queries : seen[q] <= Len(writes)
  /\ \A i \in DOMAIN writes : query[writes[i]].answered

(* The inductive invariant. *)
NostrInv ==
  /\ RelayOK /\ NamesOK
  /\ DOMAIN query = Queries /\ \A q \in Queries : QueryOK(query[q])

(* The i-th name written was overwritten by a look-up that overlapped.     *)
Overwritten(i) ==
  \E j \in DOMAIN writes :
    /\ seen[writes[j]] < i /\ i < j
    /\ query[writes[i]].author \notin snapshot[writes[j]] \cup {query[writes[j]].author}

(* A look-up under way that has read the cache since has the name too.     *)
SnapshotsOK ==
  \A i \in DOMAIN writes, p \in Queries :
    query[p] # Unasked /\ i <= seen[p] =>
      \/ query[writes[i]].author \in snapshot[p] \cup Nameless
      \/ Overwritten(i)

----------------------------------------------------------------------------
(* A query that is not asked has no subscription anywhere. *)
LEMMA UnaskedOK ==
  QueryOK(Unasked) /\ Requests(Unasked) = {} /\ ~Unasked.answered
<1>1. Unasked \in QueryRecord
  BY EmptySeq DEF Unasked, QueryRecord, Stages
<1>2. Requests(Unasked) = {} /\ ~Unasked.answered
  BY DEF Unasked, Requests
<1>3. ClosedOK(Unasked)
  BY DEF Unasked, ClosedOK, Requests
<1>4. EventsOK(Unasked)
  BY DEF Unasked, EventsOK
<1> QED BY <1>1, <1>2, <1>3, <1>4 DEF QueryOK

(* A subscription is there where it was asked for. *)
LEMMA HereAsked ==
  ASSUME NEW r, QueryOK(r), NEW u \in Addresses, r.at[u] # "none"
  PROVE  Requests(r) # {} /\ r.author \in Authors
BY DEF QueryOK, Requests

(* Once answered, nothing is open. *)
LEMMA AnsweredShut ==
  ASSUME NEW r, QueryOK(r), r.answered, NEW u \in Addresses
  PROVE  r.at[u] \in {"none", "shut", "refused"}
BY DEF QueryOK, ClosedOK, Requests

(* The end of stored events. *)
LEMMA EoseMoves ==
  ASSUME NEW r, QueryOK(r), NEW u \in Addresses, r.at[u] # "none"
  PROVE  Moves(r, HandleEose(r, u))
<1> DEFINE s == HandleEose(r, u)
<1>1. r \in QueryRecord /\ ClosedOK(r) /\ EventsOK(r)
  BY DEF QueryOK
<1>2. /\ s \in QueryRecord /\ s.author = r.author /\ s.at = r.at
      /\ s.eosesReceived = r.eosesReceived \cup {u} /\ s.closesReceived = r.closesReceived
      /\ s.knownIds = r.knownIds /\ s.events = r.events /\ s.answered = r.answered
  BY <1>1 DEF HandleEose, QueryRecord
<1> HIDE DEF s
<1>3. Requests(s) = Requests(r)
  BY <1>2 DEF Requests
<1>4. ClosedOK(s)
  BY <1>1, <1>2, <1>3 DEF ClosedOK
<1>5. EventsOK(s)
  BY <1>1, <1>2 DEF EventsOK
<1>6. QueryOK(s)
  BY <1>2, <1>3, <1>4, <1>5, HereAsked DEF QueryOK
<1>7. Moves(r, s)
  BY <1>2, <1>3, <1>6 DEF Moves
<1> QED BY <1>7 DEF s

(* A subscription is closed, with a reason or not, or never made. *)
LEMMA CloseMoves ==
  ASSUME NEW r, QueryOK(r), NEW u \in Addresses, r.at[u] # "none",
         NEW stage \in {"shut", "refused"}, NEW reason \in BOOLEAN
  PROVE  Moves(r, HandleClose([r EXCEPT !.at[u] = stage], u, reason))
<1> DEFINE t == [r EXCEPT !.at[u] = stage]
           closes == IF reason THEN r.closesReceived \cup {u} ELSE r.closesReceived
           s == HandleClose(t, u, reason)
<1>1. r \in QueryRecord /\ ClosedOK(r) /\ EventsOK(r)
  BY DEF QueryOK
<1>2. /\ t \in QueryRecord /\ t.author = r.author /\ t.at = [r.at EXCEPT ![u] = stage]
      /\ t.eosesReceived = r.eosesReceived /\ t.closesReceived = r.closesReceived
      /\ t.knownIds = r.knownIds /\ t.events = r.events /\ t.answered = r.answered
  BY <1>1 DEF QueryRecord, Stages
<1> HIDE DEF t
<1>3. Requests(t) = Requests(r)
  BY <1>1, <1>2 DEF Requests, QueryRecord
<1>4. /\ s \in QueryRecord /\ s.author = r.author /\ s.at = t.at
      /\ s.eosesReceived = r.eosesReceived \cup {u} /\ s.closesReceived = closes
      /\ s.knownIds = r.knownIds /\ s.events = r.events
      /\ s.answered = (r.answered \/ closes = Requests(r))
  BY <1>1, <1>2, <1>3 DEF HandleClose, HandleEose, QueryRecord
<1> HIDE DEF s
<1>5. Requests(s) = Requests(r)
  BY <1>3, <1>4 DEF Requests
<1>6. ClosedOK(s)
  BY <1>1, <1>2, <1>4, <1>5 DEF ClosedOK, QueryRecord
<1>7. EventsOK(s)
  BY <1>1, <1>4 DEF EventsOK
<1>8. QueryOK(s)
  BY <1>4, <1>5, <1>6, <1>7, HereAsked DEF QueryOK
<1>9. Moves(r, s)
  BY <1>4, <1>5, <1>8 DEF Moves
<1> QED BY <1>9 DEF s, t

(* The connection a subscription waits for is made. *)
LEMMA SubscribeMoves ==
  ASSUME NEW r, QueryOK(r), NEW u \in Addresses, r.at[u] = "connecting"
  PROVE  Moves(r, Subscribe(r, u))
<1> DEFINE s == Subscribe(r, u)
<1>1. r \in QueryRecord /\ ClosedOK(r) /\ EventsOK(r) /\ ~r.answered
  BY AnsweredShut DEF QueryOK
<1>2. /\ s \in QueryRecord /\ s.author = r.author /\ s.at = [r.at EXCEPT ![u] = "open"]
      /\ s.eosesReceived = r.eosesReceived /\ s.closesReceived = r.closesReceived
      /\ s.knownIds = r.knownIds /\ s.events = r.events /\ s.answered = r.answered
  BY <1>1 DEF Subscribe, QueryRecord, Stages
<1> HIDE DEF s
<1>3. Requests(s) = Requests(r)
  BY <1>1, <1>2 DEF Requests, QueryRecord
<1>4. ClosedOK(s)
  BY <1>1, <1>2 DEF ClosedOK, QueryRecord
<1>5. EventsOK(s)
  BY <1>1, <1>2 DEF EventsOK
<1>6. QueryOK(s)
  BY <1>2, <1>3, <1>4, <1>5, HereAsked DEF QueryOK
<1>7. Moves(r, s)
  BY <1>1, <1>2, <1>3, <1>6 DEF Moves
<1> QED BY <1>7 DEF s

(* An event comes in: it is collected if it is the first copy of its id,   *)
(* intact, and the profile asked for.                                      *)
LEMMA EventMoves ==
  ASSUME NEW r, QueryOK(r), NEW u \in Addresses, r.at[u] = "open",
         NEW m, m.event \in Events
  PROVE  Moves(r, ReceiveEvent(r, m))
<1> DEFINE s == ReceiveEvent(r, m)
           kept == verifyEvent(m) /\ MatchFilter(r, m.event)
           events == IF kept THEN Append(r.events, m.event) ELSE r.events
<1>1. r \in QueryRecord /\ ClosedOK(r) /\ EventsOK(r) /\ ~r.answered
  BY AnsweredShut DEF QueryOK
<1>2. CASE m.event \in r.knownIds
  <2>1. s = r
    BY <1>2 DEF ReceiveEvent, AlreadyHaveEvent
  <2> HIDE DEF s
  <2>2. Moves(r, s)
    BY <2>1 DEF Moves
  <2> QED BY <2>2 DEF s
<1>3. CASE m.event \notin r.knownIds
  <2>1. r.events \in Seq(Events) /\ events \in Seq(Events)
    BY <1>1, AppendProperties DEF QueryRecord
  <2>2. /\ s \in QueryRecord /\ s.author = r.author /\ s.at = r.at
        /\ s.eosesReceived = r.eosesReceived /\ s.closesReceived = r.closesReceived
        /\ s.knownIds = r.knownIds \cup {m.event} /\ s.events = events /\ s.answered = r.answered
    BY <1>1, <1>3, <2>1 DEF ReceiveEvent, AlreadyHaveEvent, QueryRecord
  <2> HIDE DEF s
  <2>3. Requests(s) = Requests(r)
    BY <2>2 DEF Requests
  <2>4. ClosedOK(s)
    BY <1>1, <2>2, <2>3 DEF ClosedOK
  <2>5. EventsOK(s)
    <3>1. CASE ~kept
      BY <1>1, <2>2, <3>1 DEF EventsOK
    <3>2. CASE kept
      <4>1. m.event = <<r.author, 0>>
        BY <3>2, PoolAssumption DEF MatchFilter, PoolAssumption
      <4>2. s.events = Append(r.events, m.event) /\ Len(r.events) \in Nat
        BY <2>1, <2>2, <3>2, LenProperties
      <4>3. /\ DOMAIN s.events = 1 .. Len(r.events) + 1 /\ DOMAIN r.events = 1 .. Len(r.events)
            /\ \A k \in 1 .. Len(r.events) : s.events[k] = r.events[k]
            /\ s.events[Len(r.events) + 1] = m.event
        BY <2>1, <4>2, AppendProperties, LenProperties
      <4>4. \A k \in 1 .. Len(r.events) + 1 : k \in 1 .. Len(r.events) \/ k = Len(r.events) + 1
        BY <4>2
      <4>5. \A k \in 1 .. Len(r.events) : r.events[k] \in r.knownIds /\ r.events[k] = <<r.author, 0>>
        BY <1>1, <4>3 DEF EventsOK
      <4>6. \A j, k \in 1 .. Len(r.events) : r.events[j] = r.events[k] => j = k
        BY <1>1, <4>3 DEF EventsOK
      <4>7. \A k \in DOMAIN s.events : s.events[k] = <<s.author, 0>> /\ s.events[k] \in s.knownIds
        BY <2>2, <4>1, <4>3, <4>4, <4>5
      <4>8. \A j, k \in DOMAIN s.events : s.events[j] = s.events[k] => j = k
        BY <1>3, <4>3, <4>4, <4>5, <4>6
      <4> QED BY <4>7, <4>8 DEF EventsOK
    <3> QED BY <3>1, <3>2
  <2>6. QueryOK(s)
    BY <2>2, <2>3, <2>4, <2>5, HereAsked DEF QueryOK
  <2>7. Moves(r, s)
    BY <1>1, <2>2, <2>3, <2>6 DEF Moves
  <2> QED BY <2>7 DEF s
<1> QED BY <1>2, <1>3

(* The closer, when it is due, shuts what is open. *)
LEMMA FinishMoves ==
  ASSUME NEW r, QueryOK(r)
  PROVE  Moves(r, Finish(r))
<1> DEFINE s == Finish(r)
           closes == r.closesReceived \cup Subs(r)
<1>1. r \in QueryRecord /\ ClosedOK(r) /\ EventsOK(r)
  BY DEF QueryOK
<1>2. Moves(r, r)
  BY DEF Moves
<1>3. CASE ~(Requests(r) \subseteq r.eosesReceived)
  BY <1>2, <1>3 DEF Finish
<1>4. CASE Requests(r) = {}
  <2>1. r = Unasked
    BY <1>4 DEF QueryOK
  <2>2. Subs(r) = {}
    BY <2>1 DEF Subs, Unasked
  <2>3. s = r
    <3> DEFINE at == [u \in Addresses |-> IF u \in Subs(r) THEN "shut" ELSE r.at[u]]
               answered == r.answered \/ (Subs(r) # {} /\ closes = Requests(r))
    <3>1. at = r.at
      BY <1>1, <2>2 DEF QueryRecord
    <3>2. closes = r.closesReceived /\ answered = r.answered
      BY <1>1, <2>2 DEF QueryRecord
    <3>3. s = [r EXCEPT !.at = at, !.closesReceived = closes, !.answered = answered]
      BY <1>4 DEF Finish
    <3> HIDE DEF at, closes, answered, s
    <3> QED BY <1>1, <3>1, <3>2, <3>3 DEF QueryRecord
  <2> HIDE DEF s
  <2>4. Moves(r, s)
    BY <1>2, <2>3
  <2> QED BY <2>4 DEF s
<1>5. CASE Requests(r) \subseteq r.eosesReceived /\ Requests(r) # {}
  <2>1. /\ s \in QueryRecord /\ s.author = r.author
        /\ s.at = [u \in Addresses |-> IF u \in Subs(r) THEN "shut" ELSE r.at[u]]
        /\ s.eosesReceived = r.eosesReceived /\ s.closesReceived = closes
        /\ s.knownIds = r.knownIds /\ s.events = r.events
        /\ s.answered = (r.answered \/ (Subs(r) # {} /\ closes = Requests(r)))
    BY <1>1, <1>5 DEF Finish, QueryRecord, Subs, Stages
  <2> HIDE DEF s
  <2>2. Requests(s) = Requests(r)
    BY <2>1 DEF Requests, Subs
  <2>3. ClosedOK(s)
    <3>1. closes \subseteq r.eosesReceived
      BY <1>1, <1>5 DEF ClosedOK, Subs, Requests
    <3>2. \A u \in closes : s.at[u] \in {"shut", "refused"}
      BY <1>1, <2>1 DEF ClosedOK, QueryRecord
    <3>3. s.answered => Requests(s) \subseteq s.closesReceived
      BY <1>1, <2>1, <2>2 DEF ClosedOK
    <3> QED BY <2>1, <3>1, <3>2, <3>3 DEF ClosedOK
  <2>4. EventsOK(s)
    BY <1>1, <2>1 DEF EventsOK
  <2>5. QueryOK(s)
    BY <1>5, <2>1, <2>2, <2>3, <2>4 DEF QueryOK
  <2>6. Moves(r, s)
    BY <2>1, <2>2, <2>5 DEF Moves
  <2> QED BY <2>6 DEF s
<1> QED BY <1>3, <1>4, <1>5

(* A task is followed by the closer. *)
LEMMA ThenFinish ==
  ASSUME NEW r, NEW t, Moves(r, t)
  PROVE  Moves(r, Finish(t))
<1>1. Moves(t, Finish(t))
  BY FinishMoves DEF Moves
<1> QED BY <1>1 DEF Moves

----------------------------------------------------------------------------
(* What a task does to the queries there are. *)
QueriesMove == DOMAIN query' = Queries /\ \A q \in Queries : Moves(query[q], query'[q])

(* No task touches a query without the closer looking at it. *)
LEMMA StayMoves ==
  ASSUME NEW r, QueryOK(r)
  PROVE  Moves(r, r)
BY DEF Moves

(* A connection is made, or is not. *)
LEMMA ResumeMoves ==
  ASSUME NostrInv, NEW u \in Relays, NEW k, NEW resolved \in BOOLEAN, Resume(u, k, resolved)
  PROVE  QueriesMove
<1> DEFINE Changed(r) == IF ~Waits(r, u, k) THEN r
                         ELSE IF resolved THEN Subscribe(r, u) ELSE Refuse(r, u)
<1>1. query' = [q \in Queries |-> Finish(Changed(query[q]))]
  BY DEF Resume, Settle
<1>2. ASSUME NEW q \in Queries
      PROVE  Moves(query[q], Changed(query[q]))
  <2>1. QueryOK(query[q]) /\ u \in Addresses
    BY DEF NostrInv, Addresses
  <2>2. CASE ~Waits(query[q], u, k)
    BY <2>1, <2>2, StayMoves
  <2>3. CASE Waits(query[q], u, k) /\ resolved
    BY <2>1, <2>3, SubscribeMoves DEF Waits
  <2>4. CASE Waits(query[q], u, k) /\ ~resolved
    BY <2>1, <2>4, CloseMoves DEF Waits, Refuse
  <2> QED BY <2>2, <2>3, <2>4
<1> HIDE DEF Changed
<1> QED BY <1>1, <1>2, ThenFinish DEF QueriesMove

(* A connection is given up with all that was to come over it. *)
LEMMA CloseAllMoves ==
  ASSUME NostrInv, NEW u \in Relays, NEW k, CloseAllSubscriptions(u, k)
  PROVE  QueriesMove
<1> DEFINE Changed(r) == IF Waits(r, u, k) THEN Refuse(r, u)
                         ELSE IF r.at[u] = "open" THEN Shut(r, u, TRUE) ELSE r
<1>1. query' = [q \in Queries |-> Finish(Changed(query[q]))]
  BY DEF CloseAllSubscriptions, Settle
<1>2. ASSUME NEW q \in Queries
      PROVE  Moves(query[q], Changed(query[q]))
  <2>1. QueryOK(query[q]) /\ u \in Addresses
    BY DEF NostrInv, Addresses
  <2>2. CASE Waits(query[q], u, k)
    BY <2>1, <2>2, CloseMoves DEF Waits, Refuse
  <2>3. CASE ~Waits(query[q], u, k) /\ query[q].at[u] = "open"
    BY <2>1, <2>3, CloseMoves DEF Shut
  <2>4. CASE ~Waits(query[q], u, k) /\ query[q].at[u] # "open"
    BY <2>1, <2>4, StayMoves
  <2> QED BY <2>2, <2>3, <2>4
<1> HIDE DEF Changed
<1> QED BY <1>1, <1>2, ThenFinish DEF QueriesMove

(* One query is changed. *)
LEMMA OneMoves ==
  ASSUME NostrInv, NEW p \in Queries, NEW r, Moves(query[p], r), query' = [query EXCEPT ![p] = r]
  PROVE  QueriesMove
BY StayMoves DEF QueriesMove, NostrInv

(* A subscription waited long enough for the end of stored events. *)
LEMMA TimeoutMoves ==
  ASSUME NostrInv, NEW q \in Queries, NEW u \in Relays, EoseTimeout(q, u)
  PROVE  QueriesMove
<1>1. QueryOK(query[q]) /\ u \in Addresses /\ query[q].at[u] = "open"
  BY DEF NostrInv, Addresses, EoseTimeout
<1>2. Moves(query[q], Finish(HandleEose(query[q], u)))
  BY <1>1, EoseMoves, ThenFinish
<1>3. query' = [query EXCEPT ![q] = Finish(HandleEose(query[q], u))]
  BY DEF EoseTimeout, NostrInv
<1> QED BY <1>2, <1>3, OneMoves

(* A message is taken from the queue, and the queue stays one of messages. *)
LEMMA MessageMoves ==
  ASSUME NostrInv, NEW u \in Relays, HandleNext(u)
  PROVE  QueriesMove /\ incomingMessageQueue' \in [Relays -> Seq(Messages)]
<1> DEFINE queue == incomingMessageQueue[u]
           m == Head(queue)
           Handled(r) == IF r.at[u] # "open" THEN r
                         ELSE CASE m.tag = "EVENT"  -> ReceiveEvent(r, m)
                                [] m.tag = "EOSE"   -> HandleEose(r, u)
                                [] m.tag = "CLOSED" -> Shut(r, u, m.reason)
<1>1. queue \in Seq(Messages) /\ queue # <<>>
  BY DEF NostrInv, RelayOK, HandleNext
<1>2. m \in Messages /\ Tail(queue) \in Seq(Messages)
  BY <1>1, HeadTailProperties
<1>3. incomingMessageQueue' \in [Relays -> Seq(Messages)]
  BY <1>2 DEF HandleNext, Dequeue, NostrInv, RelayOK
<1>4. m.q \in Queries /\ query' = [query EXCEPT ![m.q] = Finish(Handled(query[m.q]))]
  <2>1. m.q \in Queries
    BY <1>2 DEF Messages
  <2> QED BY <2>1 DEF HandleNext, First, NostrInv
<1>5. Moves(query[m.q], Handled(query[m.q]))
  <2>1. QueryOK(query[m.q]) /\ u \in Addresses
    BY <1>4 DEF NostrInv, Addresses
  <2>2. \/ m.tag = "EVENT" /\ m.event \in Events
        \/ m.tag = "EOSE"
        \/ m.tag = "CLOSED" /\ m.reason \in BOOLEAN
    BY <1>2 DEF Messages
  <2> HIDE DEF m
  <2>3. CASE query[m.q].at[u] # "open"
    BY <2>1, <2>3, StayMoves
  <2>4. CASE query[m.q].at[u] = "open" /\ m.tag = "EVENT" /\ m.event \in Events
    BY <2>1, <2>4, EventMoves
  <2>5. CASE query[m.q].at[u] = "open" /\ m.tag = "EOSE"
    BY <2>1, <2>5, EoseMoves
  <2>6. CASE query[m.q].at[u] = "open" /\ m.tag = "CLOSED" /\ m.reason \in BOOLEAN
    BY <2>1, <2>6, CloseMoves DEF Shut
  <2> HIDE DEF Handled
  <2> QED BY <2>2, <2>3, <2>4, <2>5, <2>6
<1> HIDE DEF Handled, m
<1>6. QueriesMove
  BY <1>4, <1>5, ThenFinish, OneMoves
<1> QED BY <1>3, <1>6

----------------------------------------------------------------------------
(* The promise of an attempt is settled once.                              *)
LEMMA SettledAttempt ==
  ASSUME NEW a \in Attempt, NEW result \in {"resolved", "rejected"},
         NEW socket \in {"opening", "open", "dead"}, NEW timer \in BOOLEAN
  PROVE  /\ Settled([a EXCEPT !.socket = socket], result) \in Attempt
         /\ Settled([a EXCEPT !.timer = timer], result) \in Attempt
         /\ [a EXCEPT !.timer = timer] \in Attempt
BY DEF Settled, Attempt

(* An attempt is replaced by another among those of its relay.             *)
LEMMA ReplacedAttempt ==
  ASSUME NEW s \in Seq(Attempt), NEW k \in DOMAIN s, NEW a \in Attempt
  PROVE  [s EXCEPT ![k] = a] \in Seq(Attempt) /\ Len([s EXCEPT ![k] = a]) = Len(s)
BY ExceptSeq

(* The connection of an attempt opens.                                     *)
LEMMA OpenMoves ==
  ASSUME NostrInv, NEW u \in Relays, NEW k, OnOpen(u, k)
  PROVE  QueriesMove /\ RelayOK'
<1> DEFINE s == attempts[u]
           a == Settled([s[k] EXCEPT !.socket = "open"], "resolved")
           t == [s EXCEPT ![k] = a]
           n == Len(s)
           w == [t EXCEPT ![Len(t)].timer = FALSE]
<1>1. s \in Seq(Attempt) /\ k \in DOMAIN s /\ n \in Nat /\ DOMAIN s = 1 .. n
  BY LenProperties DEF NostrInv, RelayOK, OnOpen
<1>2. n \in DOMAIN s /\ s[k] \in Attempt
  BY <1>1, ElementOfSeq
<1>3. a \in Attempt
  BY <1>2, SettledAttempt
<1>4. attempts' = [attempts EXCEPT ![u] = w]
  BY Zenon DEF OnOpen
<1> HIDE DEF a
<1>5. t \in Seq(Attempt) /\ Len(t) = n
  BY <1>1, <1>3, ReplacedAttempt
<1> HIDE DEF t
<1>6. DOMAIN t = 1 .. n /\ t[n] \in Attempt
  BY <1>1, <1>2, <1>5, LenProperties, ElementOfSeq
<1>7. [t[n] EXCEPT !.timer = FALSE] \in Attempt
  BY <1>6, SettledAttempt
<1>8. w \in Seq(Attempt) /\ Len(w) = n
  <2>1. w = [t EXCEPT ![n] = [t[n] EXCEPT !.timer = FALSE]]
    BY <1>5
  <2> QED BY <1>1, <1>2, <1>5, <1>6, <1>7, <2>1, ReplacedAttempt
<1> HIDE DEF w
<1>9. RelayOK'
  BY <1>4, <1>8 DEF OnOpen, NostrInv, RelayOK
<1>10. Resume(u, k, TRUE)
  BY DEF OnOpen
<1> QED BY <1>9, <1>10, ResumeMoves

(* A socket fails, or is closed.                                           *)
LEMMA OnCloseMoves ==
  ASSUME NostrInv, NEW u \in Relays, NEW k, OnClose(u, k)
  PROVE  QueriesMove /\ RelayOK'
<1> DEFINE s == attempts[u]
           a == Settled([s[k] EXCEPT !.socket = "dead"], "rejected")
           w == [s EXCEPT ![k] = a]
<1>1. s \in Seq(Attempt) /\ k \in DOMAIN s /\ Len(s) \in Nat /\ s[k] \in Attempt
  BY LenProperties, ElementOfSeq DEF NostrInv, RelayOK, OnClose
<1>2. a \in Attempt
  BY <1>1, SettledAttempt
<1>3. attempts' = [attempts EXCEPT ![u] = w]
  BY DEF OnClose
<1> HIDE DEF a
<1>4. w \in Seq(Attempt) /\ Len(w) = Len(s)
  BY <1>1, <1>2, ReplacedAttempt
<1> HIDE DEF w
<1>5. RelayOK'
  <2>1. connectionPromise' = connectionPromise \/ connectionPromise' = [connectionPromise EXCEPT ![u] = 0]
    BY DEF OnClose
  <2> QED BY <1>1, <1>3, <1>4, <2>1 DEF OnClose, NostrInv, RelayOK
<1>6. CASE connected[u]
  <2>1. CloseAllSubscriptions(u, k)
    BY <1>6 DEF OnClose
  <2> QED BY <1>5, <2>1, CloseAllMoves
<1>7. CASE ~connected[u]
  <2>1. Resume(u, k, FALSE)
    BY <1>7 DEF OnClose
  <2> QED BY <1>5, <2>1, ResumeMoves
<1> QED BY <1>6, <1>7

(* A connection was waited for long enough.                                *)
LEMMA ConnectionTimeoutMoves ==
  ASSUME NostrInv, NEW u \in Relays, NEW k, ConnectionTimeout(u, k)
  PROVE  QueriesMove /\ RelayOK'
<1> DEFINE s == attempts[u]
           a == Settled([s[k] EXCEPT !.timer = FALSE], "rejected")
           w == [s EXCEPT ![k] = a]
<1>1. s \in Seq(Attempt) /\ k \in DOMAIN s /\ Len(s) \in Nat /\ s[k] \in Attempt
  BY LenProperties, ElementOfSeq DEF NostrInv, RelayOK, ConnectionTimeout
<1>2. a \in Attempt
  BY <1>1, SettledAttempt
<1>3. attempts' = [attempts EXCEPT ![u] = w]
  BY DEF ConnectionTimeout
<1> HIDE DEF a
<1>4. w \in Seq(Attempt) /\ Len(w) = Len(s)
  BY <1>1, <1>2, ReplacedAttempt
<1> HIDE DEF w
<1>5. RelayOK'
  BY <1>1, <1>3, <1>4 DEF ConnectionTimeout, NostrInv, RelayOK
<1>6. CloseAllSubscriptions(u, k)
  BY DEF ConnectionTimeout
<1> QED BY <1>5, <1>6, CloseAllMoves

(* A relay sends a message.                                                *)
LEMMA OnMessageMoves ==
  ASSUME NostrInv, NEW u \in Relays, NEW m \in Messages, OnMessage(u, m)
  PROVE  QueriesMove /\ RelayOK'
<1>1. incomingMessageQueue[u] \in Seq(Messages)
  BY DEF NostrInv, RelayOK
<1>2. Append(incomingMessageQueue[u], m) \in Seq(Messages)
  BY <1>1, AppendProperties
<1>3. RelayOK'
  BY <1>2 DEF OnMessage, Enqueue, relayVars, NostrInv, RelayOK
<1>4. QueriesMove
  BY StayMoves DEF OnMessage, NostrInv, QueriesMove
<1> QED BY <1>3, <1>4

(* A task of the pool moves the queries and keeps the relays in order.     *)
LEMMA PoolMoves ==
  ASSUME NostrInv, PoolStep
  PROVE  QueriesMove /\ RelayOK'
<1>1. ASSUME NEW u \in Relays, NEW k \in 1 .. MaxAttempts, OnOpen(u, k)
      PROVE  QueriesMove /\ RelayOK'
  BY <1>1, OpenMoves
<1>2. ASSUME NEW u \in Relays, NEW k \in 1 .. MaxAttempts, OnClose(u, k)
      PROVE  QueriesMove /\ RelayOK'
  BY <1>2, OnCloseMoves
<1>3. ASSUME NEW u \in Relays, NEW m \in Messages, OnMessage(u, m)
      PROVE  QueriesMove /\ RelayOK'
  BY <1>3, OnMessageMoves
<1>4. ASSUME NEW u \in Relays, NEW k \in 1 .. MaxAttempts, ConnectionTimeout(u, k)
      PROVE  QueriesMove /\ RelayOK'
  BY <1>4, ConnectionTimeoutMoves
<1>5. ASSUME NEW u \in Relays, NEW q \in Queries, EoseTimeout(q, u)
      PROVE  QueriesMove /\ RelayOK'
  <2>1. RelayOK'
    BY <1>5 DEF EoseTimeout, relayVars, NostrInv, RelayOK
  <2> QED BY <1>5, <2>1, TimeoutMoves
<1>6. ASSUME NEW u \in Relays, HandleNext(u)
      PROVE  QueriesMove /\ RelayOK'
  <2>1. QueriesMove /\ incomingMessageQueue' \in [Relays -> Seq(Messages)]
    BY <1>6, MessageMoves
  <2>2. UNCHANGED relayVars
    BY <1>6 DEF HandleNext
  <2>3. RelayOK'
    BY <2>1, <2>2 DEF relayVars, NostrInv, RelayOK
  <2> QED BY <2>1, <2>3
<1> QED BY <1>1, <1>2, <1>3, <1>4, <1>5, <1>6 DEF PoolStep, Network, Timers

(* A query is asked: it waits where a connection is wanted, and counts as  *)
(* closed where there is none to be had.                                   *)
LEMMA AskMoves ==
  ASSUME NostrInv, NEW q \in Queries, NEW author \in Authors, NEW urls \in UseRelays,
         QuerySync(q, author, urls)
  PROVE  /\ RelayOK'
         /\ query[q] = Unasked /\ DOMAIN query' = Queries
         /\ QueryOK(query'[q]) /\ query'[q] # Unasked /\ query'[q].author = author
         /\ \A p \in Queries \ {q} : query'[p] = query[p]
<1> DEFINE fresh == {u \in urls \cap Relays : connectionPromise[u] = 0}
           dead == [socket |-> "dead", promise |-> "rejected", timer |-> TRUE]
           opening == [socket |-> "opening", promise |-> "pending", timer |-> TRUE]
<1>1. PICK thrown \in SUBSET fresh :
        LET attempt(u) == IF u \in thrown THEN dead ELSE opening
            Awaited(u) == attempts'[u][connectionPromise'[u]].promise
            refused == {u \in urls \cap Relays : Awaited(u) = "rejected"}
            asked == [Unasked EXCEPT
              !.author = author,
              !.at = [u \in Addresses |->
                       IF u \notin urls THEN "none" ELSE IF u \in BadUrls THEN "bad"
                       ELSE CASE Awaited(u) = "rejected" -> "refused"
                              [] Awaited(u) = "resolved" -> "open"
                              [] Awaited(u) = "pending"  -> "connecting"],
              !.waits = [u \in Relays |-> IF u \in urls THEN connectionPromise'[u] ELSE 0],
              !.eosesReceived = refused, !.closesReceived = refused,
              !.answered = (refused = urls)]
        IN
        /\ attempts' = [u \in Relays |-> IF u \in fresh THEN Append(attempts[u], attempt(u))
                                         ELSE attempts[u]]
        /\ connectionPromise' = [u \in Relays |-> IF u \in fresh THEN Len(attempts[u]) + 1
                                                  ELSE connectionPromise[u]]
        /\ query' = [query EXCEPT ![q] = Finish(asked)]
  BY Zenon DEF QuerySync
<1> DEFINE attempt(u) == IF u \in thrown THEN dead ELSE opening
           Awaited(u) == attempts'[u][connectionPromise'[u]].promise
           refused == {u \in urls \cap Relays : Awaited(u) = "rejected"}
           at == [u \in Addresses |->
                   IF u \notin urls THEN "none" ELSE IF u \in BadUrls THEN "bad"
                   ELSE CASE Awaited(u) = "rejected" -> "refused"
                          [] Awaited(u) = "resolved" -> "open"
                          [] Awaited(u) = "pending"  -> "connecting"]
           waits == [u \in Relays |-> IF u \in urls THEN connectionPromise'[u] ELSE 0]
           asked == [Unasked EXCEPT
              !.author = author, !.at = at, !.waits = waits,
              !.eosesReceived = refused, !.closesReceived = refused,
              !.answered = (refused = urls)]
<1>2. /\ attempts' = [u \in Relays |-> IF u \in fresh THEN Append(attempts[u], attempt(u))
                                       ELSE attempts[u]]
      /\ connectionPromise' = [u \in Relays |-> IF u \in fresh THEN Len(attempts[u]) + 1
                                                ELSE connectionPromise[u]]
      /\ query' = [query EXCEPT ![q] = Finish(asked)]
  BY <1>1
<1>3. urls # {} /\ urls \subseteq Addresses /\ Relays \cap BadUrls = {}
  BY PoolAssumption DEF PoolAssumption, Addresses
<1>4. \A u \in Relays : attempt(u) \in Attempt
  BY DEF Attempt
<1> HIDE DEF dead, opening
<1>5. ASSUME NEW u \in Relays
      PROVE  /\ attempts'[u] \in Seq(Attempt)
             /\ connectionPromise'[u] \in 0 .. Len(attempts'[u]) /\ connectionPromise'[u] \in Nat
             /\ u \in urls => Awaited(u) \in {"pending", "resolved", "rejected"}
  <2>1. /\ attempts[u] \in Seq(Attempt) /\ Len(attempts[u]) \in Nat
        /\ connectionPromise[u] \in 0 .. Len(attempts[u])
    BY LenProperties DEF NostrInv, RelayOK
  <2>2. attempts'[u] \in Seq(Attempt) /\ connectionPromise'[u] \in 0 .. Len(attempts'[u])
    <3>1. CASE u \in fresh
      <4>1. attempts'[u] = Append(attempts[u], attempt(u)) /\ connectionPromise'[u] = Len(attempts[u]) + 1
        BY <1>2, <3>1
      <4> HIDE DEF attempt, fresh
      <4>2. Append(attempts[u], attempt(u)) \in Seq(Attempt)
            /\ Len(Append(attempts[u], attempt(u))) = Len(attempts[u]) + 1
        BY <1>4, <2>1, AppendProperties
      <4> QED BY <2>1, <4>1, <4>2
    <3>2. CASE u \notin fresh
      BY <1>2, <2>1, <3>2
    <3> QED BY <3>1, <3>2
  <2>3. ASSUME u \in urls
        PROVE  connectionPromise'[u] # 0
    <3>1. CASE u \in fresh
      <4> HIDE DEF attempt, fresh, asked, at, waits, refused, Awaited
      <4>1. connectionPromise'[u] = Len(attempts[u]) + 1
        BY <1>2, <3>1
      <4> QED BY <2>1, <4>1
    <3>2. CASE u \notin fresh
      BY <1>2, <2>3, <3>2
    <3> QED BY <3>1, <3>2
  <2>4. ASSUME u \in urls
        PROVE  Awaited(u) \in {"pending", "resolved", "rejected"}
    <3>1. connectionPromise'[u] \in 1 .. Len(attempts'[u])
      BY <2>1, <2>2, <2>3, <2>4, LenProperties
    <3>2. attempts'[u][connectionPromise'[u]] \in Attempt
      BY <2>2, <3>1, ElementOfSeq
    <3> QED BY <3>2 DEF Attempt
  <2>5. connectionPromise'[u] \in Nat
    BY <2>2, LenProperties
  <2> QED BY <2>2, <2>4, <2>5
<1>6. RelayOK'
  <2> HIDE DEF attempt, fresh, asked, at, waits, refused, Awaited
  <2>1. attempts' \in [Relays -> Seq(Attempt)]
    BY <1>2, <1>5
  <2>2. connectionPromise' \in [Relays -> Nat]
    <3>1. \A u \in Relays : connectionPromise'[u] \in Nat
      BY <1>5
    <3> QED BY <1>2, <3>1
  <2>3. UNCHANGED <<connected, incomingMessageQueue>>
    BY DEF QuerySync
  <2> QED BY <1>5, <2>1, <2>2, <2>3 DEF NostrInv, RelayOK
<1> HIDE DEF fresh, attempt
<1>7. /\ \A u \in Addresses : at[u] = "none" <=> u \notin urls
      /\ \A u \in refused : at[u] = "refused"
      /\ at \in [Addresses -> Stages]
  <2>1. \A u \in Addresses : u \in Relays \/ u \in BadUrls
    BY DEF Addresses
  <2> HIDE DEF Awaited
  <2>2. \A u \in Relays : u \in urls => Awaited(u) \in {"pending", "resolved", "rejected"}
    BY <1>5
  <2> QED BY <1>3, <2>1, <2>2 DEF Stages
<1>8. waits \in [Relays -> Nat]
  BY <1>5
<1>9. refused \subseteq urls
  OBVIOUS
<1> HIDE DEF at, waits, refused, Awaited
<1>10. /\ asked \in QueryRecord /\ asked.author = author /\ asked.at = at
       /\ asked.eosesReceived = refused /\ asked.closesReceived = refused
       /\ asked.events = <<>> /\ asked.answered = (refused = urls)
  BY <1>3, <1>7, <1>8, <1>9, EmptySeq DEF Unasked, QueryRecord
<1> HIDE DEF asked
<1>11. Requests(asked) = urls
  BY <1>3, <1>7, <1>10 DEF Requests
<1>12. ClosedOK(asked) /\ EventsOK(asked)
  <2>1. ClosedOK(asked)
    BY <1>7, <1>10, <1>11 DEF ClosedOK
  <2>2. DOMAIN asked.events = {}
    BY <1>10
  <2> QED BY <2>1, <2>2 DEF EventsOK
<1>13. QueryOK(asked)
  BY <1>3, <1>10, <1>11, <1>12 DEF QueryOK
<1>14. QueryOK(Finish(asked)) /\ Requests(Finish(asked)) = urls /\ Finish(asked).author = author
  BY <1>10, <1>11, <1>13, FinishMoves DEF Moves
<1>15. Finish(asked) # Unasked
  BY <1>3, <1>14, UnaskedOK
<1>16. query[q] = Unasked
  BY DEF QuerySync
<1> QED BY <1>2, <1>6, <1>14, <1>15, <1>16 DEF NostrInv

----------------------------------------------------------------------------
(* An answered query is about an author.                                   *)
LEMMA AnsweredAuthor ==
  ASSUME NEW r, QueryOK(r), r.answered
  PROVE  r # Unasked /\ r.author \in Authors
BY UnaskedOK DEF QueryOK

(* What a query is about is kept by the tasks that move it.                *)
LEMMA MovedAsked ==
  ASSUME NEW r, NEW s, QueryOK(r), Moves(r, s)
  PROVE  (s # Unasked <=> r # Unasked) /\ s.author = r.author
BY UnaskedOK DEF Moves, QueryOK

(* What the look-ups that a task answers leave in the cache: what the last *)
(* of them had read, and its name.                                         *)
LEMMA StoreFacts ==
  ASSUME NostrInv, StoreNames
  PROVE  \E n \in Nat, order \in Seq(Queries) :
           /\ Len(order) = n
           /\ \A k \in 1 .. n : order[k] \in Queries /\ query'[order[k]].answered
                                                    /\ ~query[order[k]].answered
           /\ writes' = writes \o order /\ writes' \in Seq(Queries)
           /\ Len(writes') = Len(writes) + n
           /\ \A i \in DOMAIN writes : i \in DOMAIN writes' /\ writes'[i] = writes[i]
           /\ \A i \in DOMAIN writes' :
                i \in DOMAIN writes \/ (i - Len(writes) \in 1 .. n /\ writes'[i] = order[i - Len(writes)])
           /\ n # 0 => /\ Len(writes') \in DOMAIN writes' /\ writes'[Len(writes')] = order[n]
                       /\ names' = snapshot[order[n]] \cup ({query'[order[n]].author} \ Nameless)
           /\ n = 0 => names' = names
<1>0. PICK n \in 0 .. Cardinality(Found) : \E order \in Injection(1 .. n, Found) :
        /\ writes' = writes \o order
        /\ names' = IF n = 0 THEN names
                    ELSE snapshot[order[n]] \cup ({query'[order[n]].author} \ Nameless)
  BY DEF StoreNames
<1>1. PICK order \in Injection(1 .. n, Found) :
        /\ writes' = writes \o order
        /\ names' = IF n = 0 THEN names
                    ELSE snapshot[order[n]] \cup ({query'[order[n]].author} \ Nameless)
  BY <1>0
<1>2. n \in Nat /\ order \in [1 .. n -> Found]
  BY <1>1 DEF Injection
<1>3. \A k \in 1 .. n : order[k] \in Queries /\ query'[order[k]].answered /\ ~query[order[k]].answered
  BY <1>2 DEF Found
<1>4. order \in Seq(Queries) /\ Len(order) = n
  BY <1>2, <1>3
<1>5. writes \in Seq(Queries)
  BY DEF NostrInv, NamesOK
<1>6. /\ writes' \in Seq(Queries) /\ Len(writes') = Len(writes) + n
      /\ \A i \in 1 .. Len(writes) + n :
           writes'[i] = IF i <= Len(writes) THEN writes[i] ELSE order[i - Len(writes)]
  <2>1. writes' = writes \o order
    BY <1>1
  <2> QED BY <1>4, <1>5, <2>1, ConcatProperties
<1>7. /\ \A i \in DOMAIN writes : i \in DOMAIN writes' /\ writes'[i] = writes[i]
      /\ \A i \in DOMAIN writes' :
           i \in DOMAIN writes \/ (i - Len(writes) \in 1 .. n /\ writes'[i] = order[i - Len(writes)])
      /\ n # 0 => Len(writes') \in DOMAIN writes' /\ writes'[Len(writes')] = order[n]
  BY <1>2, <1>5, <1>6
<1>8. n # 0 => names' = snapshot[order[n]] \cup ({query'[order[n]].author} \ Nameless)
  BY <1>1
<1>9. n = 0 => names' = names
  BY <1>1
<1>10. n \in Nat /\ order \in Seq(Queries)
  BY <1>2, <1>4
<1> WITNESS n \in Nat, order \in Seq(Queries)
<1> QED
  BY <1>1, <1>3, <1>4, <1>6, <1>7, <1>8, <1>9

(* The cache holds names, and so does every copy of it.                    *)
LEMMA StoreKeepsNames ==
  ASSUME NostrInv, UNCHANGED reads, StoreNames,
         \A q \in Queries : QueryOK(query'[q]) /\ (query[q].answered => query'[q].answered)
  PROVE  NamesOK'
<1>1. PICK n \in Nat, order \in Seq(Queries) :
        /\ \A k \in 1 .. n : order[k] \in Queries /\ query'[order[k]].answered
        /\ writes' \in Seq(Queries) /\ Len(writes') = Len(writes) + n
        /\ \A i \in DOMAIN writes : i \in DOMAIN writes' /\ writes'[i] = writes[i]
        /\ \A i \in DOMAIN writes' :
             i \in DOMAIN writes \/ (i - Len(writes) \in 1 .. n /\ writes'[i] = order[i - Len(writes)])
        /\ n # 0 => names' = snapshot[order[n]] \cup ({query'[order[n]].author} \ Nameless)
        /\ n = 0 => names' = names
  BY StoreFacts
<1>2. names' \subseteq Authors \ Nameless
  <2>1. CASE n = 0
    BY <1>1, <2>1 DEF NostrInv, NamesOK
  <2>2. CASE n # 0
    <3>1. order[n] \in Queries /\ query'[order[n]].author \in Authors
      BY <1>1, <2>2, AnsweredAuthor
    <3>2. snapshot[order[n]] \subseteq Authors \ Nameless
      BY <3>1 DEF NostrInv, NamesOK
    <3> QED BY <1>1, <2>2, <3>1, <3>2
  <2> QED BY <2>1, <2>2
<1>3. \A q \in Queries : seen'[q] \in Nat /\ seen'[q] <= Len(writes')
  BY <1>1 DEF NostrInv, NamesOK, reads
<1>4. \A i \in DOMAIN writes' : query'[writes'[i]].answered
  <2>1. \A i \in DOMAIN writes : writes[i] \in Queries /\ query'[writes[i]].answered
    BY DEF NostrInv, NamesOK
  <2> QED BY <1>1, <2>1
<1> QED BY <1>1, <1>2, <1>3, <1>4 DEF NostrInv, NamesOK, reads

(* The invariant holds at the start.                                       *)
LEMMA NostrInvInit == NamesInit => NostrInv
<1> SUFFICES ASSUME NamesInit PROVE NostrInv
  OBVIOUS
<1>1. RelayOK
  <2>1. <<>> \in Seq(Attempt) /\ <<>> \in Seq(Messages) /\ Len(<<>>) = 0
    BY EmptySeq
  <2> QED BY <2>1 DEF NamesInit, Init, RelayOK
<1>2. NamesOK
  <2>1. <<>> \in Seq(Queries) /\ Len(<<>>) = 0 /\ DOMAIN <<>> = {}
    OBVIOUS
  <2> QED BY <2>1 DEF NamesInit, NamesOK
<1>3. DOMAIN query = Queries /\ \A q \in Queries : QueryOK(query[q])
  BY UnaskedOK DEF NamesInit, Init
<1> QED BY <1>1, <1>2, <1>3 DEF NostrInv

(* The invariant holds after every step, and a step asks at most one query *)
(* while it moves the others.                                              *)
LEMMA NostrStep ==
  ASSUME NostrInv, [Next]_vars
  PROVE  /\ NostrInv'
         /\ \/ QueriesMove
            \/ \E q \in Queries, a \in Authors :
                 /\ query[q] = Unasked
                 /\ query'[q] # Unasked /\ query'[q].author = a
                 /\ \A p \in Queries \ {q} : Moves(query[p], query'[p])
<1>1. ASSUME NEW q \in Queries, NEW a \in Authors, NEW urls \in UseRelays,
             ResolveNostrName(q, a, urls)
      PROVE  /\ NostrInv'
             /\ query[q] = Unasked /\ query'[q] # Unasked /\ query'[q].author = a
             /\ \A p \in Queries \ {q} : Moves(query[p], query'[p])
  <2>1. QuerySync(q, a, urls)
    BY <1>1 DEF ResolveNostrName
  <2>2. /\ RelayOK'
        /\ query[q] = Unasked /\ DOMAIN query' = Queries
        /\ QueryOK(query'[q]) /\ query'[q] # Unasked /\ query'[q].author = a
        /\ \A p \in Queries \ {q} : query'[p] = query[p]
    BY <2>1, AskMoves
  <2>3. \A p \in Queries \ {q} : Moves(query[p], query'[p])
    BY <2>2, StayMoves DEF NostrInv
  <2>4. \A p \in Queries : QueryOK(query'[p])
    BY <2>2 DEF NostrInv
  <2>5. NamesOK'
    <3>1. /\ snapshot' \in [Queries -> SUBSET (Authors \ Nameless)]
          /\ seen' \in [Queries -> Nat] /\ \A p \in Queries : seen'[p] <= Len(writes)
          /\ UNCHANGED <<names, writes>> /\ writes \in Seq(Queries)
      BY <1>1 DEF ResolveNostrName, NostrInv, NamesOK
    <3>2. \A i \in DOMAIN writes : query[writes[i]].answered /\ writes[i] \in Queries
      BY <3>1 DEF NostrInv, NamesOK
    <3>3. \A i \in DOMAIN writes : query'[writes[i]].answered
      BY <2>2, <3>2, UnaskedOK
    <3> QED BY <3>1, <3>3 DEF NostrInv, NamesOK
  <2> QED BY <2>2, <2>3, <2>4, <2>5 DEF NostrInv
<1>2. ASSUME PoolStep, UNCHANGED reads, StoreNames
      PROVE  NostrInv' /\ QueriesMove
  <2>1. QueriesMove /\ RelayOK'
    BY <1>2, PoolMoves
  <2>2. DOMAIN query' = Queries /\ \A p \in Queries : QueryOK(query'[p])
    BY <2>1 DEF QueriesMove, Moves
  <2>3. NamesOK'
    BY <1>2, <2>1, <2>2, StoreKeepsNames DEF QueriesMove, Moves
  <2> QED BY <2>1, <2>2, <2>3 DEF NostrInv
<1>3. CASE UNCHANGED vars
  <2>1. RelayOK'
    BY <1>3 DEF vars, poolVars, relayVars, NostrInv, RelayOK
  <2>2. NamesOK' /\ query' = query
    BY <1>3 DEF vars, poolVars, reads, NostrInv, NamesOK
  <2>3. QueriesMove
    BY <2>2, StayMoves DEF QueriesMove, NostrInv
  <2> QED BY <2>1, <2>2, <2>3 DEF NostrInv
<1> QED BY <1>1, <1>2, <1>3 DEF Next

(* The invariant of the pool and the names, in every reachable state.      *)
LEMMA NostrInvariant == Spec => []NostrInv
<1>1. NostrInv /\ [Next]_vars => NostrInv'
  BY NostrStep
<1> QED BY <1>1, NostrInvInit, PTL DEF Spec

(* No subscription of a query is left at a relay once it has been          *)
(* answered, and none is made later (subscribeManyEose closes what it      *)
(* opened, and a connection that comes late subscribes to nothing).        *)
THEOREM AnsweredQueriesAreClosed == Spec => []AnsweredIsClosed
<1>1. NostrInv => TypeOK
  <2> SUFFICES ASSUME NostrInv PROVE TypeOK
    OBVIOUS
  <2>1. \A u \in Relays :
          /\ attempts[u] \in Seq(Attempt)
          /\ connectionPromise[u] \in 0 .. Len(attempts[u])
          /\ incomingMessageQueue[u] \in Seq(Messages)
    BY DEF NostrInv, RelayOK
  <2>2. \A q \in Queries :
          /\ query[q].at \in [Addresses -> Stages]
          /\ query[q].closesReceived \subseteq query[q].eosesReceived
          /\ query[q].events \in Seq(Events)
    BY DEF NostrInv, QueryOK, QueryRecord, ClosedOK
  <2>3. seen \in [Queries -> 0 .. Len(writes)] /\ writes \in Seq(Queries)
    BY DEF NostrInv, NamesOK
  <2> QED BY <2>1, <2>2, <2>3 DEF TypeOK, NostrInv, RelayOK, NamesOK, Attempt, Stages
<1>2. NostrInv => AnsweredIsClosed
  BY <1>1, AnsweredShut DEF AnsweredIsClosed, NostrInv
<1> QED BY <1>2, NostrInvariant, PTL

(* What has been asked stays so, with the cache its look-up read.          *)
LEMMA AskedStays ==
  ASSUME NostrInv, [Next]_vars, NEW q \in Queries, query[q] # Unasked
  PROVE  /\ query'[q] # Unasked /\ query'[q].author = query[q].author
         /\ snapshot'[q] = snapshot[q] /\ seen'[q] = seen[q]
<1>1. QueryOK(query[q]) /\ Moves(query[q], query'[q])
  BY NostrStep DEF QueriesMove, NostrInv
<1>2. query'[q] # Unasked /\ query'[q].author = query[q].author
  BY <1>1, MovedAsked
<1>3. snapshot'[q] = snapshot[q] /\ seen'[q] = seen[q]
  <2>1. ASSUME NEW p \in Queries, NEW a \in Authors, NEW urls \in UseRelays,
               ResolveNostrName(p, a, urls)
        PROVE  snapshot'[q] = snapshot[q] /\ seen'[q] = seen[q]
    <3>1. query[p] = Unasked
      BY <2>1 DEF ResolveNostrName, QuerySync
    <3> QED BY <2>1, <3>1 DEF ResolveNostrName, NostrInv, NamesOK
  <2> QED BY <2>1 DEF Next, vars, reads
<1> QED BY <1>2, <1>3

(* Who has written has been asked.                                         *)
LEMMA WritersAsked ==
  ASSUME NostrInv, NEW i \in DOMAIN writes
  PROVE  i \in Nat \ {0} /\ i <= Len(writes) /\ writes[i] \in Queries /\ query[writes[i]] # Unasked
<1>1. i \in Nat \ {0} /\ i <= Len(writes) /\ writes[i] \in Queries /\ query[writes[i]].answered
  BY DEF NostrInv, NamesOK
<1> QED BY <1>1, UnaskedOK

(* A name once overwritten was overwritten.                                *)
LEMMA StaysOverwritten ==
  ASSUME NostrInv, [Next]_vars, NEW i \in DOMAIN writes, Overwritten(i),
         \A k \in DOMAIN writes : k \in DOMAIN writes' /\ writes'[k] = writes[k]
  PROVE  Overwritten(i)'
<1>1. PICK j \in DOMAIN writes :
        /\ seen[writes[j]] < i /\ i < j
        /\ query[writes[i]].author \notin snapshot[writes[j]] \cup {query[writes[j]].author}
  BY DEF Overwritten
<1>2. /\ query'[writes[i]].author = query[writes[i]].author
      /\ query'[writes[j]].author = query[writes[j]].author
      /\ snapshot'[writes[j]] = snapshot[writes[j]] /\ seen'[writes[j]] = seen[writes[j]]
  BY WritersAsked, AskedStays
<1> QED BY <1>1, <1>2 DEF Overwritten

(* Writes are only added.                                                  *)
LEMMA WritesStay ==
  ASSUME NostrInv, [Next]_vars
  PROVE  \A k \in DOMAIN writes : k \in DOMAIN writes' /\ writes'[k] = writes[k]
<1>1. CASE StoreNames
  BY <1>1, StoreFacts
<1>2. CASE UNCHANGED writes
  BY <1>2
<1> QED BY <1>1, <1>2 DEF Next, ResolveNostrName, vars

(* A look-up reads every name there is; those that are not there have been *)
(* overwritten before.                                                     *)
LEMMA SnapshotsStep ==
  ASSUME NostrInv, NamesAreRemembered, SnapshotsOK, [Next]_vars
  PROVE  SnapshotsOK'
<1> SUFFICES ASSUME NEW i \in DOMAIN writes', NEW p \in Queries, query'[p] # Unasked, i <= seen'[p]
             PROVE  \/ query'[writes'[i]].author \in snapshot'[p] \cup Nameless
                    \/ Overwritten(i)'
  BY DEF SnapshotsOK
<1>1. CASE query[p] # Unasked
  <2>1. seen'[p] = seen[p] /\ snapshot'[p] = snapshot[p]
    BY <1>1, AskedStays
  <2>2. i \in DOMAIN writes
    <3>1. i \in Nat \ {0} /\ seen[p] <= Len(writes) /\ seen[p] \in Nat /\ writes \in Seq(Queries)
      <4>1. NostrInv'
        BY NostrStep
      <4> QED BY <4>1 DEF NostrInv, NamesOK
    <3> QED BY <2>1, <3>1
  <2>3. writes'[i] = writes[i] /\ query'[writes[i]].author = query[writes[i]].author
    BY <2>2, WritesStay, WritersAsked, AskedStays
  <2>4. query[writes[i]].author \in snapshot[p] \cup Nameless \/ Overwritten(i)
    BY <1>1, <2>1, <2>2 DEF SnapshotsOK
  <2> QED BY <2>1, <2>2, <2>3, <2>4, StaysOverwritten, WritesStay
<1>2. CASE query[p] = Unasked
  <2>1. PICK a \in Authors, urls \in UseRelays : ResolveNostrName(p, a, urls)
    <3>1. ASSUME NEW q \in Queries, NEW a \in Authors, NEW urls \in UseRelays, ResolveNostrName(q, a, urls)
          PROVE  q = p
      <4>1. \A r \in Queries \ {q} : query'[r] = query[r]
        BY <3>1, AskMoves DEF ResolveNostrName
      <4> QED BY <1>2, <4>1
    <3>2. CASE PoolStep
      <4>1. QueriesMove
        BY <3>2, PoolMoves
      <4> QED BY <1>2, <4>1, MovedAsked DEF QueriesMove, NostrInv
    <3>3. CASE UNCHANGED vars
      BY <1>2, <3>3 DEF vars, poolVars
    <3> QED BY <3>1, <3>2, <3>3 DEF Next
  <2>2. snapshot'[p] = names /\ UNCHANGED <<names, writes>>
    BY <2>1 DEF ResolveNostrName, NostrInv, NamesOK
  <2>3. query'[writes[i]].author = query[writes[i]].author /\ i \in DOMAIN writes
    BY <2>2, WritersAsked, AskedStays
  <2>4. query[writes[i]].author \in names \cup Nameless \/ Overwritten(i)
    BY <2>3 DEF NamesAreRemembered, Overwritten
  <2> QED BY <2>2, <2>3, <2>4, StaysOverwritten, WritesStay
<1> QED BY <1>1, <1>2

(* A name found stays in the cache unless a look-up of another author read *)
(* the cache before the name was written, without it, and wrote that copy  *)
(* afterwards (resolveNostrName keeps the copy it read across the question *)
(* to the relays).                                                         *)
THEOREM NamesAreLostToOverlapsOnly == Spec => []NamesAreRemembered
<1>1. NamesInit => NamesAreRemembered /\ SnapshotsOK
  <2>1. DOMAIN <<>> = {}
    OBVIOUS
  <2> QED BY <2>1 DEF NamesInit, NamesAreRemembered, SnapshotsOK
<1>2. NostrInv /\ NamesAreRemembered /\ SnapshotsOK /\ [Next]_vars => NamesAreRemembered' /\ SnapshotsOK'
  <2> SUFFICES ASSUME NostrInv, NamesAreRemembered, SnapshotsOK, [Next]_vars
               PROVE  NamesAreRemembered'
    BY SnapshotsStep
  <2> SUFFICES ASSUME NEW i \in DOMAIN writes', query'[writes'[i]].author \notin names' \cup Nameless
               PROVE  Overwritten(i)'
    BY DEF NamesAreRemembered, Overwritten
  <2>1. CASE UNCHANGED <<names, writes>>
    <3>1. i \in DOMAIN writes /\ query'[writes[i]].author = query[writes[i]].author
      BY <2>1, WritersAsked, AskedStays
    <3>2. Overwritten(i)
      BY <2>1, <3>1 DEF NamesAreRemembered, Overwritten
    <3> QED BY <3>1, <3>2, WritesStay, StaysOverwritten
  <2>2. CASE StoreNames /\ UNCHANGED reads
    <3>1. PICK n \in Nat, order \in Seq(Queries) :
            /\ Len(order) = n
            /\ \A k \in 1 .. n : order[k] \in Queries /\ query'[order[k]].answered
                                                     /\ ~query[order[k]].answered
            /\ writes' \in Seq(Queries) /\ Len(writes') = Len(writes) + n
            /\ \A k \in DOMAIN writes' :
                 k \in DOMAIN writes \/ (k - Len(writes) \in 1 .. n /\ writes'[k] = order[k - Len(writes)])
            /\ n # 0 => /\ Len(writes') \in DOMAIN writes' /\ writes'[Len(writes')] = order[n]
                        /\ names' = snapshot[order[n]] \cup ({query'[order[n]].author} \ Nameless)
            /\ n = 0 => names' = names
            /\ writes' = writes \o order
      BY <2>2, StoreFacts
    <3>2. CASE n = 0
      BY <2>1, <3>1, <3>2
    <3>3. CASE n # 0
      <4> DEFINE j == Len(writes')
                 p == order[n]
                 author == query'[writes'[i]].author
      <4>1. /\ j \in DOMAIN writes' /\ writes'[j] = p /\ p \in Queries
            /\ query'[p].answered /\ query'[p].author \in Authors
        BY <3>1, <3>3, NostrStep, AnsweredAuthor DEF NostrInv
      <4>2. author \notin snapshot'[p] \cup {query'[p].author}
        BY <2>2, <3>1, <3>3 DEF reads
      <4>3. i < j
        <5>1. i # j
          BY <4>1, <4>2
        <5> QED BY <3>1, <5>1
      <4>4. seen'[p] = seen[p] /\ seen[p] \in Nat /\ seen[p] <= Len(writes)
        BY <2>2, <4>1 DEF reads, NostrInv, NamesOK
      <4>5. CASE seen[p] < i
        BY <4>1, <4>2, <4>3, <4>4, <4>5 DEF Overwritten
      <4>6. CASE i <= seen[p]
        <5>1. i \in DOMAIN writes
          BY <3>1, <4>4, <4>6 DEF NostrInv, NamesOK
        <5>2. query'[p] # Unasked
          BY <4>1, NostrStep, AnsweredAuthor DEF NostrInv
        <5>3. SnapshotsOK'
          BY SnapshotsStep
        <5>4. author \in snapshot'[p] \cup Nameless \/ Overwritten(i)'
          BY <4>1, <4>4, <4>6, <5>2, <5>3 DEF SnapshotsOK
        <5> QED BY <4>2, <5>4
      <4>7. i \in Nat
        BY <3>1
      <4> QED BY <4>4, <4>5, <4>6, <4>7
    <3> QED BY <3>2, <3>3
  <2> QED BY <2>1, <2>2 DEF Next, ResolveNostrName, vars
<1> QED BY <1>1, <1>2, NostrInvariant, PTL DEF Spec

(* querySync implements ProfileQuery: a query is asked once, its answer    *)
(* never changes, and the answer is the profile asked for at most once.    *)
THEOREM QuerySyncKeepsItsPromise == Spec => Answers
<1> DEFINE askedBar == [q \in {x \in Queries : query[x] # Unasked} |-> query[q].author]
           answersBar == [q \in {x \in Queries : query[x].answered} |-> query[q].events]
<1>1. NamesInit => Promised!Init
  <2> SUFFICES ASSUME NamesInit PROVE askedBar = <<>> /\ answersBar = <<>>
    BY DEF Promised!Init
  <2>1. \A q \in Queries : query[q] = Unasked /\ ~query[q].answered
    BY UnaskedOK DEF NamesInit, Init
  <2> QED BY <2>1
<1>2. NostrInv /\ [Next]_vars => [Promised!Next]_<<askedBar, answersBar>>
  <2> SUFFICES ASSUME NostrInv, [Next]_vars PROVE Promised!Next
    OBVIOUS
  <2>1. NostrInv'
    BY NostrStep
  <2>2. Promised!Kept
    <3>1. ASSUME NEW q \in Queries, query[q].answered
          PROVE  query'[q].answered /\ query'[q].events = query[q].events
      <4>1. query[q] # Unasked
        BY <3>1, UnaskedOK
      <4> QED BY <3>1, <4>1, NostrStep DEF QueriesMove, Moves
    <3> QED BY <3>1 DEF Promised!Kept
  <2>3. ASSUME NEW q \in DOMAIN answersBar'
        PROVE  Promised!Answer(q)
    <3>1. q \in Queries /\ query'[q].answered /\ QueryOK(query'[q])
      BY <2>1, <2>3 DEF NostrInv
    <3>2. query'[q] # Unasked /\ EventsOK(query'[q])
      BY <3>1, AnsweredAuthor DEF QueryOK
    <3> QED BY <3>1, <3>2 DEF Promised!Answer, EventsOK, Genuine
  <2>4. askedBar' = askedBar \/ \E q \in Queries, a \in Authors : Promised!Ask(q, a)
    <3>1. CASE QueriesMove
      <4>1. \A q \in Queries : (query'[q] # Unasked <=> query[q] # Unasked)
                               /\ query'[q].author = query[q].author
        BY <3>1, MovedAsked DEF QueriesMove, NostrInv
      <4> QED BY <4>1
    <3>2. ASSUME NEW q \in Queries, NEW a \in Authors,
                 query[q] = Unasked, query'[q] # Unasked, query'[q].author = a,
                 \A p \in Queries \ {q} : Moves(query[p], query'[p])
          PROVE  Promised!Ask(q, a)
      <4>1. \A p \in Queries \ {q} : (query'[p] # Unasked <=> query[p] # Unasked)
                                     /\ query'[p].author = query[p].author
        BY <3>2, MovedAsked DEF NostrInv
      <4>2. {x \in Queries : query'[x] # Unasked} = {x \in Queries : query[x] # Unasked} \cup {q}
        BY <3>2, <4>1
      <4> QED BY <3>2, <4>1, <4>2 DEF Promised!Ask
    <3> QED BY <3>1, <3>2, NostrStep
  <2> QED BY <2>2, <2>3, <2>4 DEF Promised!Next
<1> QED BY <1>1, <1>2, NostrInvariant, PTL DEF Answers, Spec, Promised!Spec
=============================================================================
