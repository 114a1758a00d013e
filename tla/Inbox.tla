------------------------------- MODULE Inbox -------------------------------
(***************************************************************************)
(* One open boosts, streams or sent page: webroot/script/helipad.js with   *)
(* the list and index calls of handler.rs and the websocket of main.rs.    *)
(* A boost reaches the page in three ways that nothing orders: the events  *)
(* of the websocket, a poll every seven seconds, and the answers to what   *)
(* the user asks for.  All of them share the list on the page, the array   *)
(* messageIds and the cursor currentInvoiceIndex.                          *)
(*                                                                         *)
(* A boost is its index.  Effects are only counted; every boost is recent  *)
(* enough (ten minutes) for them, and none is hidden by the settings.      *)
(***************************************************************************)
EXTENDS Integers, SequencesExt

CONSTANTS
  MaxIndex,    \* bound: indexes are 1 .. MaxIndex
  Others,      \* indexes of rows on other lists, which count for the index call
  Matching,    \* boosts of the podcast a user may filter by
  FirstPage,   \* count of a list the user asks for (100 in the code)
  PollPage,    \* count of a poll (20 in the code)
  MaxUpsets    \* bound: requests that fail, sockets that break and changes of
               \* the filter, together

Ids == 1 .. MaxIndex

ASSUME InboxAssumption ==
  /\ MaxIndex \in Nat \ {0, 1} /\ Others \subseteq Ids /\ Matching \subseteq Ids
  /\ FirstPage \in Nat \ {0} /\ PollPage \in Nat \ {0}
  /\ MaxUpsets \in Nat

VARIABLES
  stored,      \* indexes in the table
  unsent,      \* stored, the event not broadcast, or not received yet
  open,        \* the websocket is connected
  (* the page *)
  shown,       \* the list on the page, from top to bottom
  messageIds,
  nodata,      \* "No data to show yet" is on the page
  more,        \* the "Show older" link is on the page
  currentInvoiceIndex,   \* 0: null
  filter,      \* filters.podcast is set
  requests,    \* what the timer and the user are waiting for
  (* history *)
  played,      \* how often a boost's effects were queued
  missed,      \* boosts whose event this page does not get
  emptied,     \* the filter emptied the list, and getBoosts has not run since
  faults, changes

serverVars == <<stored, unsent, open>>
listVars   == <<shown, messageIds, nodata, more, played>>
histVars   == <<missed, emptied, faults, changes>>
vars == <<serverVars, listVars, currentInvoiceIndex, filter, requests, histVars>>

Cursor == currentInvoiceIndex

(* Each has at most one request under way, its getIndex and the getBoosts  *)
(* that follows it counting as one: a bound on the timer's, which may      *)
(* overlap in the code when an answer takes more than seven seconds.       *)
Askers == {"timer", "user"}

None  == [at |-> "none"]
Index == [at |-> "sent", kind |-> "index"]
List(index, max, old, pew) ==
  [at |-> "sent", kind |-> "list", index |-> index, max |-> max, old |-> old,
   pew |-> pew \/ (nodata /\ index = 1), filter |-> filter]

----------------------------------------------------------------------------
(* Server side *)

(* get_boosts_from_db, get_streams_from_db, get_payments_from_db.          *)
Listed(q) ==
  LET found == {i \in stored \ Others :
                  (IF q.old THEN i <= q.index ELSE i >= q.index)
                  /\ (q.filter => i \in Matching)}
      all == CHOOSE s \in [1 .. Cardinality(found) -> found] :
               \A j, k \in DOMAIN s : j < k => s[j] > s[k]
  IN  SubSeq(all, 1, IF Len(all) < q.max THEN Len(all) ELSE q.max)

(* handle_boost of a writer: the row first. *)
Store(i) ==
  /\ stored' = stored \cup {i}
  /\ unsent' = unsent \cup ({i} \ Others)
  /\ UNCHANGED <<open, listVars, Cursor, filter, requests, histVars>>

(* The connection is lost, or the receiver has fallen behind the broadcast *)
(* channel and handle_websocket returns.                                   *)
BreakSocket ==
  /\ open
  /\ faults + changes < MaxUpsets /\ faults' = faults + 1
  /\ open' = FALSE
  /\ UNCHANGED <<stored, unsent, listVars, Cursor, filter, requests, missed, emptied, changes>>

(* HelipadWebsocket connects, five seconds after a close. *)
Connect ==
  /\ ~open
  /\ open' = TRUE
  /\ UNCHANGED <<stored, unsent, listVars, Cursor, filter, requests, histVars>>

----------------------------------------------------------------------------
(* The page's list *)

(* Of two ids as close the code takes the one that is earlier in its      *)
(* array; the array is a set here, and which of the two is left open.      *)
Distance(c, i)  == IF c < i THEN i - c ELSE c - i
Closest(ids, i) == CHOOSE c \in ids : \A d \in ids : Distance(c, i) <= Distance(d, i)

(* Mutant of Placed: always before the closest. *)
PlacedBefore(s, ids, i) ==
  IF s = <<>> THEN <<i>>
  ELSE IF Closest(ids, i) \notin ToSet(s) THEN s
  ELSE InsertAt(s, CHOOSE k \in DOMAIN s : s[k] = Closest(ids, i), i)

(* The element goes before or after the one with the closest id; jQuery    *)
(* drops it if that one is not on the page.                                *)
Placed(s, ids, i) ==
  LET c == Closest(ids, i)
      k == CHOOSE k \in DOMAIN s : s[k] = c
  IN  IF s = <<>> THEN <<i>>
      ELSE IF c \notin ToSet(s) THEN s
      ELSE InsertAt(s, IF i < c THEN k + 1 ELSE k, i)

(* The effects of element i go to the queue, if the caller wants them to;  *)
(* counted up to two.                                                      *)
Played(played2, i, pew) == [played2 EXCEPT ![i] = @ + IF pew /\ @ < 2 THEN 1 ELSE 0]

(* Mutant of Rendered: the effects come before the check for a double. *)
RenderedLoud(page, i, pew) ==
  IF i \in page.ids THEN [page EXCEPT !.played = Played(@, i, pew)]
  ELSE [shown |-> Placed(page.shown, page.ids, i), ids |-> page.ids \cup {i},
        played |-> Played(page.played, i, pew)]

(* One element. *)
Rendered(page, i, pew) ==
  IF i \in page.ids THEN page
  ELSE [shown |-> Placed(page.shown, page.ids, i), ids |-> page.ids \cup {i},
        played |-> Played(page.played, i, pew)]

(* renderBoosts: the page after so many elements of data.                  *)
Pages(data, pew) ==
  LET page[k \in 0 .. Len(data)] ==
        IF k = 0 THEN [shown |-> shown, ids |-> messageIds, played |-> played]
        ELSE Rendered(page[k - 1], data[k], pew)
  IN  page

RenderBoosts(data, max, pew) ==
  LET page == Pages(data, pew)[Len(data)]
  IN  /\ shown' = page.shown
      /\ messageIds' = page.ids
      /\ played' = page.played
      /\ nodata' = (page.shown = <<>>)
      /\ more' = (more \/ (Len(data) = max /\ page.shown # <<>>))

(* Mutant of GetBoosts: the array is only ever added to. *)
GetBoostsKeeping(who, index, max, old, pew) ==
  /\ requests' = [requests EXCEPT ![who] =
                    List(IF index = 0 THEN shown[1] ELSE index, max, old, pew)]
  /\ emptied' = FALSE
  /\ UNCHANGED messageIds

(* getBoosts reads the ids off the page and asks. *)
GetBoosts(who, index, max, old, pew) ==
  /\ requests' = [requests EXCEPT ![who] =
                    List(IF index = 0 THEN shown[1] ELSE index, max, old, pew)]
  /\ messageIds' = ToSet(shown)
  /\ emptied' = FALSE

GetIndex(who) == requests' = [requests EXCEPT ![who] = Index]

----------------------------------------------------------------------------
(* What happens to the page *)

(* The page is opened, with no filter saved in the session. *)
Init ==
  /\ stored \in {{}, {1}, {1, 2}}
  /\ unsent = {} /\ open = FALSE
  /\ shown = <<>> /\ messageIds = {} /\ nodata = FALSE /\ more = FALSE
  /\ currentInvoiceIndex = 0
  /\ filter = FALSE
  /\ requests = [who \in Askers |-> IF who = "user" THEN Index ELSE None]
  /\ played = [i \in Ids |-> 0]
  /\ missed = stored /\ emptied = FALSE /\ faults = 0 /\ changes = 0

(* The writer has run the triggers and broadcasts the event; the page gets *)
(* it if its websocket is connected all the way.                           *)
Publish(i) ==
  /\ unsent' = unsent \ {i}
  /\ IF open THEN RenderBoosts(<<i>>, 0, TRUE) ELSE UNCHANGED listVars
  /\ missed' = IF open /\ ~emptied THEN missed ELSE missed \cup {i}
  /\ UNCHANGED <<stored, open, Cursor, filter, requests, emptied, faults, changes>>

(* Mutant of Tick: the poll asks for what it has. *)
TickOld ==
  /\ requests["timer"] = None
  /\ IF shown = <<>> THEN GetIndex("timer") /\ UNCHANGED <<messageIds, emptied>>
     ELSE GetBoosts("timer", Cursor, PollPage, TRUE, TRUE)
  /\ UNCHANGED <<serverVars, shown, nodata, more, played, Cursor, filter,
                 missed, faults, changes>>

(* The boost checker, every seven seconds. *)
Tick ==
  /\ requests["timer"] = None
  /\ IF shown = <<>> THEN GetIndex("timer") /\ UNCHANGED <<messageIds, emptied>>
     ELSE GetBoosts("timer", Cursor, PollPage, FALSE, TRUE)
  /\ UNCHANGED <<serverVars, shown, nodata, more, played, Cursor, filter,
                 missed, faults, changes>>

(* "Show older boosts..." *)
LoadMore ==
  /\ requests["user"] = None
  /\ more /\ shown # <<>>
  /\ GetBoosts("user", Last(shown), FirstPage, TRUE, FALSE)
  /\ UNCHANGED <<serverVars, shown, nodata, more, played, Cursor, filter,
                 missed, faults, changes>>

(* A podcast is chosen in the filter, or the filter cleared. *)
ChangeFilter ==
  /\ requests["user"] = None
  /\ faults + changes < MaxUpsets /\ changes' = changes + 1
  /\ filter' = ~filter
  /\ shown' = <<>> /\ nodata' = FALSE /\ more' = FALSE
  /\ GetIndex("user")
  /\ missed' = missed \cup (stored \ unsent)
  /\ emptied' = TRUE
  /\ UNCHANGED <<serverVars, messageIds, played, Cursor, faults>>

(* api_v1_index or api_v1_boosts, _streams, _sent. *)
Answer(who) ==
  LET q == requests[who]
  IN
  /\ q.at = "sent"
  /\ requests' = [requests EXCEPT ![who] =
       IF q.kind = "index" THEN [at |-> "index", data |-> Max(stored \cup {0})]
       ELSE [at |-> "list", data |-> Listed(q), max |-> q.max, pew |-> q.pew]]
  /\ UNCHANGED <<serverVars, listVars, Cursor, filter, histVars>>

(* getIndex succeeds and goes on to the newest boosts. *)
ReceiveIndex(who) ==
  LET n == Max({requests[who].data, 1})
  IN
  /\ requests[who].at = "index"
  /\ currentInvoiceIndex' = n
  /\ GetBoosts(who, n, FirstPage, TRUE, FALSE)
  /\ UNCHANGED <<serverVars, shown, nodata, more, played, filter,
                 missed, faults, changes>>

(* getBoosts succeeds. *)
ReceiveList(who) ==
  LET q == requests[who]
  IN
  /\ q.at = "list"
  /\ RenderBoosts(q.data, q.max, q.pew)
  /\ currentInvoiceIndex' = Max({Cursor} \cup ToSet(q.data))
  /\ requests' = [requests EXCEPT ![who] = None]
  /\ UNCHANGED <<serverVars, filter, histVars>>

(* A request fails, and nothing on the page changes. *)
RequestFails(who) ==
  /\ requests[who] # None
  /\ faults + changes < MaxUpsets /\ faults' = faults + 1
  /\ requests' = [requests EXCEPT ![who] = None]
  /\ UNCHANGED <<serverVars, listVars, Cursor, filter, missed, emptied, changes>>

Receive(who) == ReceiveIndex(who) \/ ReceiveList(who)

Next ==
  \/ \E i \in Ids \ stored : Store(i)
  \/ \E i \in unsent : Publish(i)
  \/ BreakSocket \/ Connect
  \/ Tick \/ LoadMore \/ ChangeFilter
  \/ \E who \in Askers : Answer(who) \/ Receive(who) \/ RequestFails(who)

Spec == Init /\ [][Next]_vars

(* The timer, the socket's reconnect and the server run for as long as the *)
(* page is open; nothing obliges the user, or new boosts to arrive.        *)
FairSpec ==
  /\ Spec
  /\ WF_vars(Tick) /\ WF_vars(Connect)
  /\ WF_vars(\E i \in unsent : Publish(i))
  /\ \A who \in Askers : WF_vars(Answer(who) \/ Receive(who))

----------------------------------------------------------------------------
TypeOK ==
  /\ unsent \subseteq stored /\ stored \subseteq Ids
  /\ open \in BOOLEAN
  /\ shown \in Seq(Ids \ Others) /\ messageIds \subseteq Ids
  /\ nodata \in BOOLEAN /\ more \in BOOLEAN /\ filter \in BOOLEAN /\ emptied \in BOOLEAN
  /\ Cursor \in 0 .. MaxIndex
  /\ played \in [Ids -> 0 .. 2] /\ missed \subseteq Ids

(* Whatever the order in which events, polls and pages of older boosts     *)
(* come in, the list is in the order of the indexes, newest first, and     *)
(* shows nothing twice.                                                    *)
ListIsOrdered == TypeOK /\ \A j, k \in DOMAIN shown : j < k => shown[j] > shown[k]

(* messageIds, which every render trusts to know what is on the page, is   *)
(* right about it between any two handlers; the one window is the one a    *)
(* filter opens by emptying the list before getBoosts reads it again.      *)
TrackingIsExact == ~emptied => messageIds = ToSet(shown)

(* A boost that comes by event and by poll sets off its effects once, in   *)
(* whichever order they arrive, until the filter builds the list anew.     *)
EffectsPlayOnce == changes = 0 => \A i \in Ids : played[i] <= 1

Expected(i) == i \in stored \ Others /\ (filter => i \in Matching)

Overlooked(i) == i \in missed /\ i < Cursor

(* However long the page is open, there is always a later moment when a    *)
(* stored boost that the filter lets through is on the page, by event or   *)
(* by poll and without a reload.  The exception is one that the page was   *)
(* not told of and whose index its cursor has already passed.              *)
StoredIsShown ==
  \A i \in Ids \ Others : []<>(Expected(i) => i \in ToSet(shown) \/ Overlooked(i))

(* README.md:62-63: without old, the boosts returned start at index and    *)
(* ascend by count, so that none is passed over.                           *)
NewerPagesAscend ==
  LET q    == requests["timer"]
      page == ToSet(Listed(q))
  IN
  q.at = "sent" /\ q.kind = "list" =>
    \A i \in {i \in Ids : Expected(i) /\ i >= q.index /\ filter = q.filter} :
      i \in page \/ \A j \in page : j < i
============================================================================
