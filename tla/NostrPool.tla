----------------------------- MODULE NostrPool ------------------------------
(***************************************************************************)
(* The relay pool of webroot/script/nostr.bundle.js as the boost page uses *)
(* it: SimplePool.querySync, which asks several relays for the profile of  *)
(* an author and answers once with what they sent.  AbstractRelay keeps a  *)
(* websocket, a timeout for its connection and the open subscriptions;     *)
(* each subscription has a timeout for its end of stored events (EOSE).    *)
(*                                                                         *)
(* An action is a task of the browser with the promise callbacks that run  *)
(* at its end.  Relays send anything at any time, or nothing.  Publishing, *)
(* counting and AUTH, which the page never asks for, are left out, as is   *)
(* the CLOSE a relay is sent; a frame is compact JSON, never empty.        *)
(***************************************************************************)
EXTENDS Integers, FiniteSets, SequencesExt

CONSTANTS
  Relays,        \* relay addresses, as normalizeURL spells them
  BadUrls,       \* addresses that normalizeURL throws on
  UseRelays,     \* the sets of addresses the page asks together
  Authors,
  Events,        \* the events that relays have: an author and a kind each
  MaxQueries,    \* bound: calls of querySync
  MaxAttempts,   \* bound: connections tried
  MaxMessages    \* bound: messages sent by the relays

ASSUME PoolAssumption ==
  /\ Relays \cap BadUrls = {}
  /\ UseRelays \subseteq (SUBSET (Relays \cup BadUrls)) \ {{}}
  /\ Events \subseteq Authors \X Nat
  /\ {MaxQueries, MaxAttempts, MaxMessages} \subseteq Nat

VARIABLES
  attempts,            \* of each relay: its calls of new WebSocket
  connectionPromise,   \* the attempt a relay's promise is about, or 0
  connected,           \* _connected
  incomingMessageQueue,
  query,               \* what each call of querySync keeps in its closures
  sent                 \* messages sent so far

relayVars == <<attempts, connectionPromise, connected>>
poolVars  == <<relayVars, incomingMessageQueue, query, sent>>

Addresses == Relays \cup BadUrls
Queries   == 1..MaxQueries

(* Of an event relays have, a copy may be damaged on its way, its id kept: *)
(* verifyEvent rejects it.                                                 *)
Messages ==
  [tag : {"EVENT"}, q : Queries, event : Events, intact : BOOLEAN]
    \cup [tag : {"EOSE"}, q : Queries]
    \cup [tag : {"CLOSED"}, q : Queries, reason : BOOLEAN]

(* at: how far the subscription at an address has come: none was wanted, a *)
(* bad address, waiting for a connection (which one: waits), in openSubs,  *)
(* shut again, or refused for want of a connection.                        *)
Unasked == [author |-> "none", at |-> [u \in Addresses |-> "none"],
            waits |-> [u \in Relays |-> 0], eosesReceived |-> {}, closesReceived |-> {},
            knownIds |-> {}, events |-> <<>>, answered |-> FALSE]

Init ==
  /\ attempts = [u \in Relays |-> <<>>]
  /\ connectionPromise = [u \in Relays |-> 0]
  /\ connected = [u \in Relays |-> FALSE]
  /\ incomingMessageQueue = [u \in Relays |-> <<>>]
  /\ query = [q \in Queries |-> Unasked]
  /\ sent = 0

----------------------------------------------------------------------------
(* One query: the closures of subscribeManyMap and querySync *)

Requests(r) == {u \in Addresses : r.at[u] # "none"}

HandleEose(r, u) == [r EXCEPT !.eosesReceived = @ \cup {u}]

(* Mutant of HandleClose: a close is not taken for the end of events too.  *)
HandleCloseOnly(r, u, reason) ==
  LET closes == IF reason THEN r.closesReceived \cup {u} ELSE r.closesReceived
  IN  [r EXCEPT !.closesReceived = closes, !.answered = @ \/ closes = Requests(r)]

(* A reason that is empty is not counted; the last close answers.          *)
HandleClose(r, u, reason) ==
  LET closes == IF reason THEN r.closesReceived \cup {u} ELSE r.closesReceived
  IN  [HandleEose(r, u) EXCEPT !.closesReceived = closes,
                               !.answered = @ \/ closes = Requests(r)]

Refuse(r, u) == HandleClose([r EXCEPT !.at[u] = "refused"], u, TRUE)
Subscribe(r, u) == [r EXCEPT !.at[u] = "open"]

(* Subscription.close *)
Shut(r, u, reason) == HandleClose([r EXCEPT !.at[u] = "shut"], u, reason)

Subs(r) == {u \in Addresses : r.at[u] \in {"open", "shut"}}

(* Mutant of Finish: the query is answered at once, nothing being closed.  *)
FinishOpen(r) ==
  [r EXCEPT !.answered = @ \/ (r # Unasked /\ Requests(r) \subseteq r.eosesReceived)]

(* The end of stored events has been seen, or a close, at every address,   *)
(* so every subscription has been made: the closer closes them all, those  *)
(* that were shut without a reason too.                                    *)
Finish(r) ==
  LET closes == r.closesReceived \cup Subs(r)
  IN  IF Requests(r) \subseteq r.eosesReceived
      THEN [r EXCEPT !.at = [u \in Addresses |-> IF u \in Subs(r) THEN "shut" ELSE @[u]],
                     !.closesReceived = closes,
                     !.answered = @ \/ (Subs(r) # {} /\ closes = Requests(r))]
      ELSE r

(* Every query is looked at after a task, Changed(r) being what the task   *)
(* itself did to it.                                                       *)
Settle(Changed(_)) == query' = [q \in Queries |-> Finish(Changed(query[q]))]

Waits(r, u, k) == r.at[u] = "connecting" /\ r.waits[u] = k

(* The promise of an attempt resolves or rejects, and ensureRelay goes on  *)
(* or throws where it is awaited.                                          *)
Resume(u, k, resolved) ==
  Settle(LAMBDA r : IF ~Waits(r, u, k) THEN r ELSE IF resolved THEN Subscribe(r, u) ELSE Refuse(r, u))

(* closeAllSubscriptions of a relay whose attempt k is given up.           *)
CloseAllSubscriptions(u, k) ==
  Settle(LAMBDA r : IF Waits(r, u, k) THEN Refuse(r, u)
                    ELSE IF r.at[u] = "open" THEN Shut(r, u, TRUE) ELSE r)

----------------------------------------------------------------------------
(* querySync and connect *)

Total(made) == FoldFunction(LAMBDA s, n : Len(s) + n, 0, made)

(* querySync(urls, author): ensureRelay for each.  A relay without a       *)
(* promise makes an attempt, its timer first; new WebSocket may throw, and *)
(* the rejected promise then stands until the timer fires.                 *)
QuerySync(q, author, urls) ==
  LET fresh == {u \in urls \cap Relays : connectionPromise[u] = 0}
  IN
  /\ query[q] = Unasked /\ \A p \in 1..(q - 1) : query[p] # Unasked
  /\ Total(attempts) + Cardinality(fresh) <= MaxAttempts
  /\ \E thrown \in SUBSET fresh :
       LET attempt(u) == IF u \in thrown THEN [socket |-> "dead", promise |-> "rejected", timer |-> TRUE]
                         ELSE [socket |-> "opening", promise |-> "pending", timer |-> TRUE]
           Awaited(u) == attempts'[u][connectionPromise'[u]].promise
           refused == {u \in urls \cap Relays : Awaited(u) = "rejected"}
           asked == [Unasked EXCEPT
             !.author = author,
             !.at = [u \in Addresses |->
                      IF u \notin urls THEN "none" ELSE IF u \in BadUrls THEN "bad"
                      ELSE CASE Awaited(u) = "rejected" -> "refused"
                             [] Awaited(u) = "resolved" -> "open"
                             [] Awaited(u) = "pending"  -> "connecting"],
             !.waits = [u \in Relays |-> IF u \in urls THEN connectionPromise'[u] ELSE 0],
             !.eosesReceived = refused, !.closesReceived = refused, !.answered = (refused = urls)]
       IN
       /\ attempts' = [u \in Relays |-> IF u \in fresh THEN Append(attempts[u], attempt(u))
                                        ELSE attempts[u]]
       /\ connectionPromise' = [u \in Relays |-> IF u \in fresh THEN Len(attempts[u]) + 1
                                                 ELSE connectionPromise[u]]
       /\ query' = [query EXCEPT ![q] = Finish(asked)]
  /\ UNCHANGED <<connected, incomingMessageQueue, sent>>

Settled(a, result) == [a EXCEPT !.promise = IF @ = "pending" THEN result ELSE @]

(* onopen: it clears the timer of the latest attempt, whichever opened.    *)
OnOpen(u, k) ==
  LET opened == [attempts[u] EXCEPT ![k] = Settled([@ EXCEPT !.socket = "open"], "resolved")]
  IN
  /\ k \in DOMAIN attempts[u]
  /\ attempts[u][k].socket = "opening"
  /\ attempts' = [attempts EXCEPT ![u] = [opened EXCEPT ![Len(opened)].timer = FALSE]]
  /\ connected' = [connected EXCEPT ![u] = TRUE]
  /\ Resume(u, k, TRUE)
  /\ UNCHANGED <<connectionPromise, incomingMessageQueue, sent>>

(* onerror and onclose of a socket. *)
OnClose(u, k) ==
  /\ k \in DOMAIN attempts[u]
  /\ attempts[u][k].socket # "dead"
  /\ attempts' = [attempts EXCEPT ![u][k] = Settled([@ EXCEPT !.socket = "dead"], "rejected")]
  /\ connected' = [connected EXCEPT ![u] = FALSE]
  /\ IF connected[u]
     THEN /\ connectionPromise' = [connectionPromise EXCEPT ![u] = 0]
          /\ CloseAllSubscriptions(u, k)
     ELSE UNCHANGED connectionPromise /\ Resume(u, k, FALSE)
  /\ UNCHANGED <<incomingMessageQueue, sent>>

ConnectionTimeout(u, k) ==
  /\ k \in DOMAIN attempts[u]
  /\ attempts[u][k].timer
  /\ attempts' = [attempts EXCEPT ![u][k] = Settled([@ EXCEPT !.timer = FALSE], "rejected")]
  /\ connectionPromise' = [connectionPromise EXCEPT ![u] = 0]
  /\ CloseAllSubscriptions(u, k)
  /\ UNCHANGED <<connected, incomingMessageQueue, sent>>

----------------------------------------------------------------------------
(* Messages and the timer of a subscription *)

(* The linked list of class Queue. *)
Enqueue(queue, value) == Append(queue, value)
First(queue)   == Head(queue)
Dequeue(queue) == Tail(queue)

verifyEvent(m) == m.intact

(* A message for a subscription never made would be dropped: left out.     *)
OnMessage(u, m) ==
  /\ sent < MaxMessages
  /\ query[m.q].at[u] \in {"open", "shut"}
  /\ \E k \in DOMAIN attempts[u] : attempts[u][k].socket = "open"
  /\ incomingMessageQueue' = [incomingMessageQueue EXCEPT ![u] = Enqueue(@, m)]
  /\ sent' = sent + 1
  /\ UNCHANGED <<relayVars, query>>

(* {authors: [author], kinds: [0]}, the one filter of a query. *)
MatchFilter(r, e) == e[1] = r.author /\ e[2] = 0

AlreadyHaveEvent(r, e) == e \in r.knownIds

(* Mutant of ReceiveEvent: the copies of an event are not told apart. *)
ReceiveEveryCopy(r, m) ==
  [r EXCEPT !.events = IF verifyEvent(m) /\ MatchFilter(r, m.event) THEN Append(@, m.event) ELSE @]

(* An id counts as known from its first copy on, before that is verified.  *)
ReceiveEvent(r, m) ==
  IF AlreadyHaveEvent(r, m.event) THEN r
  ELSE [r EXCEPT !.knownIds = @ \cup {m.event},
                 !.events = IF verifyEvent(m) /\ MatchFilter(r, m.event)
                            THEN Append(@, m.event) ELSE @]

(* handleNext; a message for a subscription that is not open is dropped.   *)
HandleNext(u) ==
  LET m == First(incomingMessageQueue[u])
      Handled(r) == IF r.at[u] # "open" THEN r
                    ELSE CASE m.tag = "EVENT"  -> ReceiveEvent(r, m)
                           [] m.tag = "EOSE"   -> HandleEose(r, u)
                           [] m.tag = "CLOSED" -> Shut(r, u, m.reason)
  IN
  /\ incomingMessageQueue[u] # <<>>
  /\ incomingMessageQueue' = [incomingMessageQueue EXCEPT ![u] = Dequeue(@)]
  /\ query' = [query EXCEPT ![m.q] = Finish(Handled(@))]
  /\ UNCHANGED <<relayVars, sent>>

(* receivedEose called by the timer; it is cleared by an earlier EOSE.     *)
EoseTimeout(q, u) ==
  /\ query[q].at[u] = "open" /\ u \notin query[q].eosesReceived
  /\ query' = [query EXCEPT ![q] = Finish(HandleEose(@, u))]
  /\ UNCHANGED <<relayVars, incomingMessageQueue, sent>>

----------------------------------------------------------------------------
Network ==
  \E u \in Relays : (\E k \in 1..MaxAttempts : OnOpen(u, k) \/ OnClose(u, k))
                    \/ \E m \in Messages : OnMessage(u, m)

Timers == \E u \in Relays : (\E k \in 1..MaxAttempts : ConnectionTimeout(u, k))
                            \/ \E q \in Queries : EoseTimeout(q, u)

PoolStep == Network \/ Timers \/ \E u \in Relays : HandleNext(u)
=============================================================================
