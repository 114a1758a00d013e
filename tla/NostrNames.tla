----------------------------- MODULE NostrNames -----------------------------
(***************************************************************************)
(* The names of Nostr profiles on the boost page (resolveNostrName of      *)
(* webroot/script/helipad.js): each profile a message mentions is looked   *)
(* up in a cache in localStorage, and asked of the relays if it is not     *)
(* there.  The cache is read before the relays are asked and written as a  *)
(* whole after their answer, so look-ups that overlap undo each other.     *)
(***************************************************************************)
EXTENDS NostrPool

CONSTANT Nameless    \* the authors whose profile gives no name

ASSUME NamesAssumption == Nameless \subseteq Authors

VARIABLES
  names,      \* "nostrNames" in localStorage: the authors with a name there
  snapshot,   \* the cache as the look-up behind each query read it
  (* history *)
  writes,     \* the look-ups that have written the cache, in their order
  seen        \* of each look-up: how many writes there were when it read the cache

reads == <<snapshot, seen>>
vars  == <<poolVars, names, reads, writes>>

NamesInit ==
  /\ Init
  /\ names = {} /\ snapshot = [q \in Queries |-> {}]
  /\ writes = <<>> /\ seen = [q \in Queries |-> 0]

(* The look-ups to which a task has answered with a profile.               *)
Found == {q \in Queries : query'[q].answered /\ ~query[q].answered /\ query'[q].events # <<>>}

(* Mutant of StoreNames: a name found is written without the others. *)
StoreName ==
  \E n \in 0 .. Cardinality(Found) : \E order \in Injection(1 .. n, Found) :
    /\ writes' = writes \o order
    /\ names' = IF n = 0 THEN names ELSE {query'[order[n]].author} \ Nameless

(* They write the cache one after the other, what each had read and its    *)
(* name, if the profile gives one; but a profile that is no JSON throws,   *)
(* and so may setItem, and that look-up writes nothing.                    *)
StoreNames ==
  \E n \in 0 .. Cardinality(Found) : \E order \in Injection(1 .. n, Found) :
    /\ writes' = writes \o order
    /\ names' = IF n = 0 THEN names
                ELSE snapshot[order[n]] \cup ({query'[order[n]].author} \ Nameless)

(* A look-up that is answered at once has found nothing.                   *)
ResolveNostrName(q, author, useRelays) ==
  /\ author \notin names
  /\ QuerySync(q, author, useRelays)
  /\ snapshot' = [snapshot EXCEPT ![q] = names]
  /\ seen' = [seen EXCEPT ![q] = Len(writes)]
  /\ UNCHANGED <<names, writes>>

Next ==
  \/ \E q \in Queries, a \in Authors, urls \in UseRelays : ResolveNostrName(q, a, urls)
  \/ PoolStep /\ UNCHANGED reads /\ StoreNames

Spec == NamesInit /\ [][Next]_vars

(* The browser's timers fire, in no order that is assumed; the page asks,  *)
(* and relays answer, as they like.                                        *)
FairSpec == Spec /\ WF_vars(Timers /\ UNCHANGED reads /\ StoreNames)

----------------------------------------------------------------------------
(* Properties *)

TypeOK ==
  /\ \A u \in Relays :
       /\ attempts[u] \in Seq([socket : {"opening", "open", "dead"},
                               promise : {"pending", "resolved", "rejected"}, timer : BOOLEAN])
       /\ connectionPromise[u] \in 0..Len(attempts[u])
       /\ incomingMessageQueue[u] \in Seq(Messages)
  /\ connected \in [Relays -> BOOLEAN]
  /\ \A q \in Queries :
       /\ query[q].at \in [Addresses -> {"none", "bad", "connecting", "open", "shut", "refused"}]
       /\ query[q].closesReceived \subseteq query[q].eosesReceived
       /\ query[q].events \in Seq(Events)
  /\ names \subseteq Authors \ Nameless
  /\ snapshot \in [Queries -> SUBSET (Authors \ Nameless)]
  /\ writes \in Seq(Queries) /\ seen \in [Queries -> 0 .. Len(writes)]

(* No subscription of a query is left at a relay once it has been          *)
(* answered, and none is made later: the array handed to the page would go *)
(* on growing behind its back, and the relay on sending (subscribeManyEose *)
(* closes by waiting for all connections).                                 *)
AnsweredIsClosed ==
  /\ TypeOK
  /\ \A q \in Queries : query[q].answered =>
       \A u \in Addresses : query[q].at[u] \in {"none", "shut", "refused"}

(* The names found stay in the cache: one is lost only to a look-up of     *)
(* another author that read the cache before the name was written, did not *)
(* find it there, and wrote what it had read afterwards.                   *)
NamesAreRemembered ==
  \A i \in DOMAIN writes :
    LET author == query[writes[i]].author
    IN  author \notin names \cup Nameless =>
          \E j \in DOMAIN writes :
            /\ seen[writes[j]] < i /\ i < j
            /\ author \notin snapshot[writes[j]] \cup {query[writes[j]].author}

Genuine(author) == {<<author, 0>>}

(* querySync keeps what it promises: it answers once, with genuine events, *)
(* none twice, and what it has answered does not change (the same id from  *)
(* two relays, damaged copies, late messages).                             *)
Promised == INSTANCE ProfileQuery WITH
  asked   <- [q \in {x \in Queries : query[x] # Unasked} |-> query[q].author],
  answers <- [q \in {x \in Queries : query[x].answered} |-> query[q].events]

Answers == Promised!Spec

(* A query waits for a connection that is neither made nor given up: an    *)
(* older socket of the relay opened late and took the timer of this        *)
(* attempt, then the latest, with it.                                      *)
Forgotten(r, u) ==
  LET attempt == attempts[u][r.waits[u]]
  IN  r.at[u] = "connecting" /\ attempt.promise = "pending" /\ ~attempt.timer

(* Every query is answered in the end, by its timers if by nothing else,   *)
(* unless one address is no URL (its exception is lost in the promise that *)
(* nobody awaits) or it waits for a connection whose timer was cleared.    *)
EventuallyAnswered ==
  \A q \in Queries :
    []<>(\/ query[q] = Unasked
         \/ query[q].answered
         \/ \E u \in BadUrls : query[q].at[u] = "bad"
         \/ \E u \in Relays : Forgotten(query[q], u))
=============================================================================
