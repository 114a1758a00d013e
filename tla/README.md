# Helipad in TLA+

Helipad (version 0.2.2) watches a Lightning node (LND) for podcasting boosts,
stores them in SQLite, runs webhooks and other triggers for them, and shows
them on web pages that follow along over a websocket. These modules model the
parts of it whose correctness depends on the order of things: two tasks and
many request handlers share one database in which nothing is a transaction, LND,
Nostr relays and the browser come and go, and the process may be killed between
any two effects and started again. A second, smaller part are the algorithms the
page runs on what it receives, each checked against a definition of what it
should come to.

Run a check with `tlc -config MCInbox.cfg MCInbox`, a proof with
`tlapm InvoiceFeedProofs.tla`.

## The system

| part | source | its state | what it does |
|---|---|---|---|
| Invoice task | `src/poller.rs` `lnd_subscribe_invoices`, `src/boost.rs` | the cursor `current_index` | scans LND's invoices above the last stored one at start, then subscribes; each boost goes through `handle_boost` |
| Payment task | `src/poller.rs` `lnd_poller` | `current_payment`, `catchup`, `current_balance` | every 9 s: node info, balance, completed payments above the cursor |
| `handle_boost` | `src/poller.rs` | none | insert the row, run triggers, broadcast the event, in this order, errors printed |
| Reply handlers | `src/handler.rs`, `src/lightning.rs` | the request | pay a reply by keysend, store it with a link, mark the boost; mark by hand; fetch metadata |
| Database | `dbif/src/*.rs` | SQLite file | each function opens a connection, each statement commits on its own |
| Start-up | `dbif/src/lib.rs`, `src/main.rs` | schema | create tables, migrate older files; any error ends the process, which is restarted |
| Triggers | `src/triggers.rs`, `dbif/src/triggers.rs` | the triggers table, sound files | match a boost, send webhooks and OSC, keep the status of the last call |
| Settings pages | `src/handler.rs` | general settings, numerology, triggers | forms and drag-and-drop over these tables |
| Boost list page | `webroot/script/helipad.js` | the list, `messageIds`, `currentInvoiceIndex`, the filter | polls every 7 s, receives events, loads older pages |
| Reply dialog | `webroot/script/helipad.js` | one dialog, one button, each row's reply link | pays by node or by the browser's wallet, fetches metadata |
| Info dialog | `webroot/script/helipad.js` | one table and one download link | asks for a boost's TLV again |
| Effects queue | `webroot/script/common.js` | `queue`, `playing`, the MIDI output | plays sounds and MIDI one after the other |
| Confetti | `webroot/script/confetti.js` | particles, `animationTimer` | an animation, frame by frame |
| Balance display | `src/poller.rs`, `webroot/script/common.js` | stored balance, displayed balance | an event at a change, and a request every 7 s |
| Nostr client | `webroot/script/nostr.bundle.js`, `helipad.js` | relays' sockets, subscriptions, the cache of names | looks up the names of profiles mentioned in messages |
| Text of a boost | `webroot/script/helipad.js`, `utils.js` | none | numerology of the amount, age, Nostr references |
| Login | `src/handler.rs`, `dbif/src/jwt.rs` | one secret | signed cookie |
| Look-ups | `src/metadata.rs`, `src/lnaddress.rs`, `src/podcastindex.rs` | a small cache | HTTP |
| Reports | `src/handler.rs` | none | CSV of the stored boosts |

They interact in five ways. LND's streams and lists feed the two tasks. Tasks
and handlers share the database and never lock more than one statement of it.
`ws_tx`, a broadcast channel of 100 events, carries what the tasks and reply
handlers did to every open page. The page calls the JSON API, and its answers
race with the events and with each other. The page asks relays directly.

What is hard to test in it: settlements that arrive late, out of order or during
a disconnect; a crash between insert, webhook and broadcast; two writers of the
same sent boost; statements of two settings requests in each other's way;
migrations cut in half; a page fed by events, polls and user requests at once;
one dialog serving rows whose requests outlive its being open; sockets, timers
and promises of several relays in any order; rounding, carries and boundaries in
arithmetic that is seldom wrong. `PROJECT.json` lists these hazards at their lines, with the
properties that watch them.

## The modules

    Positions ──> TriggerStore ··implements··> OrderedList
        └───────> Database
    NostrPool ──> NostrNames ··implements··> ProfileQuery
    InvoiceFeed, PaymentFeed, Inbox, ReplyDialog
    EffectsQueue, Confetti, Balance, BoostInfo ──> PageEffects
    Sha2, BoostText ──> PageReading
    Secp256k1, Nip19, PageReading ──> Computations

The proofs about a component are in a module that extends it:

    InvoiceFeedProofs, PaymentFeedProofs, InboxProofs, DatabaseProofs,
    TriggerStoreProofs, NostrProofs                    one component each
    PageProofs                                         PageEffects, ReplyDialog, PageReading
    OrderFacts                                         facts several of them need

`MC*.tla` are the instances TLC checks. A definition that begins with "Mutant
of" is not part of a specification: it is the form an operator would have with
a plausible mistake in it, and each property is known to fail under one of them.

### InvoiceFeed

`Lnd` adds and settles invoices and breaks connections. The task's program
counter is `phase` (down, catchup, subscribing, listening, dead) with `step` for the
position in `handle_boost`; the page of `list_invoices` and the messages of the
stream are queues of invoices as they were when LND sent them, so a stale state
is possible. `Take` is the common body of both loops, `Insert`, `RunTriggers`
and `Publish` are the three effects of `handle_boost`. A failed insert or list
call and a crash at every step are actions, bounded by `MaxFaults`. So is a
`Panic`: nobody awaits the spawned task (`src/main.rs`), so after an `unwrap` of an
error it is gone for good (`dead`) while the process serves the pages without it.
`StartPanics` is the panic that needs no fault: the last boost of the table has no
`list_type` (`untyped`; `Database` shows how it comes to that), and the query for
the last index unwraps the row.

LND is modelled from how Helipad calls it (`subscribe_invoices(current_index,
0)`): it first sends invoices above a non-zero `add_index` in their present
state, then live events; settle events are not repeated. A cancelled invoice is
one that stays open.

### PaymentFeed

The poller and one or more reply requests write `sent_boosts`. A reply is
`ReplySend` (the keysend starts), `ReplyPaid` (LND reports success to the
handler), `ReplyStore` (the upsert) and `ReplyMark` (`mark_boost_as_replied`, a
second statement); the client can go away (`ReplyDropped`). `ended` says that the
poller has died of a panic; reply requests go on. `before` is what was paid when the
process started, for `HistoryIsSilent`. `FetchRead` and
`FetchWrite` are the two ends of `api_v1_fetch_metadata`, whose HTTP exchange
lies between them.

### TriggerStore, Positions, OrderedList

The `triggers` table is a function from `idx`. A request is a record of the
statement it has reached and the record it holds; `Load`, `SoundFile`,
`ReadPosition`, `Shift`, `Upsert`, `Delete` and `Renumber` are the statements of
`trigger_settings_save`, `_patch` and `_delete`. `Renumbered` follows SQLite's row by row
execution of the `UPDATE` with its subquery on the table being updated: `after[k]`
is the table with the rows up to `idx` k done. `trigger`
and `status` in a row are identities the code does not have; they let a property
say *whose* row or call it is when `idx` has been given out again.

`OrderedList` says what a user believes the table is: a list, and requests that
put an item in front, move it or remove it. `KeepsOrder` is the refinement: `Listed`
reads the list off the rows, also in mid-request. It is the rows sorted by `Rank`:
their positions, but of two rows that the room made for a third has put on one
position the one that is being moved comes where it was.

### Database

`create_database` statement by statement: `at` is the statement to come.
`Init` is every shape of file an older release can have left (columns and tables
present or not, sounds in the numerology, webhooks in a table of their own).
`Restart` ends the process before any statement, whether it is killed or the
statement fails and `main` exits with 3. Two kinds of failure do not end it:
an `ALTER TABLE` of the boosts table is asked only whether it `is_ok`
(`Swallowed`), and `SELECT MAX(position)` is read with `unwrap_or(0)` (`Reads`), so
that the copied rows are numbered from 1. `FromAction` is `ListType::from_action`,
from which `BoostsAreListed` takes the list a boost should be in; the migration's
`UPDATE`s put a boost of an unknown action with the streams. After the start come numerology requests, one
at a time: their statements are those of `TriggerStore`, where they overlap.

### Inbox

One open page. `shown` is the list in the document, `requests` what the timer
and the user wait for; an answer is computed when the server handles the
request and applied later, and events are applied in between. `RenderBoosts`, `Placed`
and `Closest` are `renderBoosts` of `helipad.js`. `emptied` marks the window in
which a filter has emptied the list and `messageIds` is still the old one.

Left out: boosts hidden by the settings and the age limit of effects (every
boost is recent), a second poll started while one is unanswered for more than
seven seconds (bound: one request of the timer and one of the user), a filter
kept from an earlier visit, and the test event of a trigger (boost 99999).

### NostrPool, NostrNames, ProfileQuery

`NostrPool` is `SimplePool.querySync` with the relays it uses. Each call of
`new WebSocket` is an attempt with its socket, its promise and its timer;
`connectionPromise`, `_connected` and `incomingMessageQueue` are the relay's
fields. A query is the record of what its closures hold: how far the
subscription has come at each address (`at`), which ends of stored events and
closes have been counted, the ids known, the events collected. An action is one
task of the browser with the promise callbacks that run at its end, so
`Settle` looks at every query after each of them. `OnOpen` clears the timer of
the *latest* attempt, whichever socket opened, as the code does.

`NostrNames` adds `resolveNostrName`: the cache in localStorage, read when the
question is asked and written as a whole after the answer; `writes` and `seen` are
history and say in which order look-ups wrote and which writes each had read. `ProfileQuery` is the
promise `querySync` makes to its caller, and `Answers` the refinement.

### ReplyDialog

Each row has its button (`fetch`, `reply`, `replied`) or is not on the page
(`gone`); there is one dialog. A reply is a record with the row and the opening it
was sent from, which the click handlers keep, and goes on when the dialog is
closed or opened elsewhere: `SendReply`, `AddressFails`, `BrowserPays`,
`MarkReplied`, `NodePays`, `Replied`. `NodePays` has every end of `api_v1_reply`: not
paid, paid and stored or not, and in either case an answer that gets lost. `hides` counts
the timers that close the dialog one second after a success, whatever it shows by then.

Rows are drawn anew by two kinds of requests, `fetches`: the metadata of a row,
and a list, which fills the page after `ChangeFilter` has emptied it. Both say of a
row what the server read (`ReadBoosts`, `Offered`), which may be before a reply was
stored, while the answer may come after it. `paid`, `stray`, `unstored` (paid, and
the insert failed), `told` and `over` (of which replies the page knew at the request
and at the drawing) are history.

### PageEffects with EffectsQueue, Confetti, Balance, BoostInfo

Four small machines that the page's events and clicks start. They share no state,
so a behaviour of `PageEffects` follows one of them (`watched`) and leaves the
others as they began; that keeps the instance a sum and not a product.

- `EffectsQueue`: `TriggerQueue`, `SoundPew` and `MidiPew`. A trigger that is
  started is a record in `plays` with the state of each part; `playing` is the
  code's flag, cleared when the promise of the parts is settled, which one
  rejection does.
- `Confetti`: `Frame` is `runAnimation`, `ShootConfetti` a start with its timeout,
  `StopConfetti` that timeout. A particle is its height.
- `Balance`: from the node through the poller, the table and the event or the
  page's request to the display. `getBalance` does not wait for its last answer.
- `BoostInfo`: `renderBoostInfo` and the query it makes of the list of its page.

### Computations with Secp256k1, Nip19, and PageReading with Sha2, BoostText

One task and its arguments per behaviour; the properties compare what the
translated code returns with a definition of its own. `PageReading` is the part
whose loops go over what the page receives (a message, an amount, an age): they are
recursive functions, which the provers can reason about, and `Found`, `AllFound`
and `Said` belong to its properties. `Computations` adds the algorithms with
recursive operators or operations on bits.

- `Secp256k1`: verification of a Schnorr signature: `lift_x`, complete projective
  addition, the endomorphism's split of a scalar, wNAF with its carries and
  precomputed windows (of the generator; a key equal to it is multiplied by
  windows of one bit), Euclid's inverse. The curve is `y² = x³ + 7` over 43
  elements, with the same endomorphism. What is checked for it is the control
  and the formulas, not the constants of secp256k1.
- `Sha2`: `update` with its buffer and `digestInto` with its padding; the
  compression function is the list of the blocks it is given.
- `Nip19`: bech32 with its checksum (the real polynomial) and its limit of length,
  `fromWords`, TLV, and the replacing of references in a message, whose letters
  stand for the rest. `parseReferences` returns, throws or never ends. A look-up of a
  name (one outcome for each key) finds none, finds one, which may hold a pattern
  that `String.replace` interprets, or is rejected, and with it the whole message.
- `BoostText`: `parseNumerology`, `prettyDate` and `dateFormat`. The text of an amount
  is the sequence of its digits; the page is looked at on day `Today`, between 1980
  and 2099, so that a boost of ten years before is of a day after 1 January 1970.

## The runs

| run | instance | what it shows |
|---|---|---|
| `invoice_feed` | 3 invoices, pages of 2, 3 faults | no transmitted settlement is mislaid, only paid boosts are stored, stored boosts are announced, triggers repeat only after a retreat of the cursor, the task gets back to a live subscription unless it has panicked |
| `invoice_paid_is_stored` | 1 invoice, no fault | violated: a boost that the scan lists while it is open and that is settled before the subscription is not stored |
| `payment_feed` | 2 payments, pages of 1, 1 boost, 1 reply, 2 faults | links are true, links and marks permanent, triggers run once and not for history, completed payments are stored but for the four cases named |
| `trigger_store` | 2 overlapping requests, 2 triggers, 3 requests, 1 fault | what survives overlapping: no trigger lost, no foreign status; what holds without: dense positions, sound files there |
| `trigger_order` | 4 triggers, 2 requests, 1 at a time | the table implements `OrderedList` |
| `database` | 2 defaults, 2 old rows of each kind, 2 requests, 2 faults | nothing old is lost, copies and missing lists arise only from a cut in the windows named or an `ALTER` that failed, restarts insert no defaults |
| `inbox` | indexes 1..3, one of another list, lists of 2, polls of 1, one upset | the list is ordered and without doubles, `messageIds` is right, effects play once, every stored boost gets onto the page unless it was not told and its cursor had passed |
| `newer_pages_ascend` | 3 boosts, polls of 1 | violated: a poll with more newer boosts than its count gets the newest and skips those next to its index |
| `nostr_names` | 2 relays and a bad URL, 2 authors, 2 queries, 2 attempts, 2 messages | answered queries are closed, answers are genuine and final, which names the cache may lose, every query is answered but for the two cases named |
| `reply_dialog` | 2 rows, 2 openings, 2 replies, 2 fetches | "Replied" is true, when a paid boost may not say so, when a second reply can be sent |
| `page_effects` | 4 effects, 3 particles, 3 shots, balances 1 and 2, 2 requests under way, 3 openings | effects in turn, none waits for ever, one animation that ends, the display gets to the node's balance, the info dialog tells of its row |
| `computations` | see below | verification, padding, references, numerology and ages come to what they should |

Why these bounds are enough for what they are for. Three invoices are the least
for a settle event below, at and above the cursor on two pages. Two payments
let one overtake the other and a reply overtake the poller; pages of one make the
catch-up take several. Two requests are the least that interleave; three in
sequence let one act on the leavings of two. Four triggers let a move pass over
two others in either direction. Two old rows have two orders, and two faults let
a second start be cut too. Two queries share a relay's connection and the cache;
two attempts at one relay let an old socket open after its successor was made, so
that a query may be forgotten though no address of its is bad. Two rows and two openings let the dialog go to the other row while a
reply is under way, and two fetches let a list and the metadata of one of its rows
be on their way at once. Page sizes are smaller than the number of items in each case, so truncation
happens; the code's values are 1000, 500, 100 and 20. `computations` takes every
key and every pair of scalar and challenge in which one is from a small set, on
a curve of 31 points; messages around each length at which SHA-256's padding
needs another block, in two parts; messages of up to three parts with eight
references of five kinds, of which one is longer than `Bech32MaxSize` allows and one hangs the
page, each outcome of the look-ups, and each reference with one letter wrong, swapped,
lost or in capitals; amounts of up to five digits with lists of up to three rows; ages
on both sides of every boundary, and every day of two years.

`CHECK_DEADLOCK FALSE` is set where a bounded instance comes to rest: every
invoice settled and handled, every request made, every boost played.

### Exceptions in the properties

Several properties name exceptions, and each is a behaviour of the code that was
met while checking, not a convenience:

- `EventuallyCaughtUp` and `CompletedIsStored`: a task that has died of a panic.
- `HistoryIsSilent`: a `list_payments` that failed ends the catch-up
  (`src/poller.rs:121`), and what is read after it is treated as new.
- `CompletedIsStored`: `overtaken` payments (in flight when a later one was
  listed), those below a row stored `ahead` of the poller by a reply, from which
  a restart resumes, and those whose insert failed.
- `RepeatsNeedRetreat`: a cursor that moved back (`src/poller.rs:228`), and a failed insert.
- `TriggersAreKept`: a save puts back a deleted row under an `idx` given out again.
- `PositionsAreDense` (triggers): overlapping or interrupted requests; a position
  may even become negative, which `row.get` into `u64` refuses, and the list of
  triggers then fails to load. `PositionsAreDense` (numerology): a save cut between
  its statements; two rows may share a place and the renumbering keeps them there.
- `SoundFilesExist`: overlapping or interrupted requests.
- `MigratedInOrder`: one more copy of the sounds (webhooks) for each start cut
  between the `INSERT` and the `ALTER`; no claim about positions once a
  `MAX(position)` was misread.
- `BoostsAreListed`: a start cut between `ALTER TABLE` and the `UPDATE`s, or within
  the `execute_batch`, which no later start repairs; and a column whose `ALTER` failed,
  without which the program comes up.
- `StoredIsShown`: a boost whose event the page missed and whose index the cursor
  has passed. `EffectsPlayOnce`: until the filter builds the list anew.
- `NamesAreRemembered`: a look-up that read the cache before another one wrote it
  and writes after it writes the name of the other away.
- `EventuallyAnswered`: an address that is no URL throws in a promise nobody awaits;
  a socket that opens late clears the timer of the attempt that replaced it.
- `OncePerOpening`: a reply of an earlier opening that fails enables the button
  the dialog now shows for another reply (`stray`).
- `PaidIsShown`: the user was shown an error though the payment was made; or a row
  was redrawn from an answer, metadata or a list, that was under way when the reply was;
  or the reply could not be stored (`src/handler.rs:685`, printed only) and the row was
  redrawn later: it then offers a second payment.
- `PlayedInTurn`: one part failed while the other still sounds. `EffectsArePlayed`:
  a part that never ends, or a question for MIDI the user never answers.
- `InfoIsOfItsRow`: the answer of an earlier opening comes after that of a later.
- `ReferencesAreLinked`: messages without a tag `#[n]` (`parseReferences` throws),
  without the same reference twice (`String.replace` finds the first of them again, in
  its own link), without a reference whose TLV ends in a single byte (`parseTLV` never
  returns) and without names in which `$` stands before `$`, `&`, a backtick or `'`.
  If the look-up of one name is rejected, it says that no reference is linked.
- `AgesAreTold`: a boost less than a second ahead of the page's clock is told as
  "-1 seconds ago"; ages are 0 or more there.

### Fairness

`InvoiceFeed` and `PaymentFeed` assume weak fairness of the tasks (tokio tasks
that wait only for LND, SQLite and webhooks, in a process that is restarted:
`umbrel/docker-compose.yml:7`) and of a reply's handler. LND owes nothing: no
settlement, no stream. That a webhook is answered or fails is part of the
assumption; the client has no timeout (`src/triggers.rs:481`), and without it the
task can wait for ever. `Inbox` assumes the timer, the socket's reconnection, the
server's answers and the writer that is about to broadcast; nothing of the user.
`NostrNames` assumes the timers of the browser alone, nothing of a relay nor of the
queue of its messages: a query must be answered by its timeouts alone. `PageEffects` assumes the
timers, frames, and the sounds and notes that are playing (one may hang by an action
of its own, which the property names), the balance poller, the reconnection and the server's answers.
Liveness is checked for these five. For `ReplyDialog`, `TriggerStore` and
`Database` none is claimed: nothing of theirs goes on without a user or a start.

### Disagreements with the documentation

`README.md:7` ("Invoices are checked for every 9 seconds, parsed and stored"):
the code subscribes and never lists again; run `invoice_paid_is_stored`.
`README.md:62-63` (without `old`, boosts "ascend by `count`"): `ORDER BY idx DESC
LIMIT` takes the other end; run `newer_pages_ascend`.

## The proofs

Each theorem holds for every value of the constants, and nothing is assumed but
the named assumptions about them in the module of the component: of `PageReading`,
that blocks have room for the length and the byte before it (`BlockAssumption`),
that the page is looked at between 1980 and 2099 (`ClockAssumption`), and what
kinds of values amounts and ages are (`ReadingAssumption`). Each component has
one inductive invariant.

| module | theorem | property |
|---|---|---|
| `InvoiceFeedProofs` | `FeedTypeCorrect`, `OnlyPaidBoostsAreStored`, `NoSettlementIsMislaid`, `StoredBoostsAreAnnounced`, `RepeatsFollowARetreat` | `TypeOK`, `StoredWerePaid`, `NothingMislaid`, `StoredIsAnnounced`, `RepeatsNeedRetreat` |
| `PaymentFeedProofs` | `LinksStayTrue`, `MarksAreBacked`, `SentTriggersRunOnce`, `LinksAndMarksStay`, `HistoryStaysSilent` | `LinksAreTrue`, `RepliedIsBacked` (stated with the proof only), `TriggersRunOnce`, `RepliesArePermanent` and `HistoryIsSilent` (action properties) |
| `InboxProofs` | `ListStaysOrdered`, `TrackingStaysExact`, `EffectsStayOnce` | `ListIsOrdered`, `TrackingIsExact`, `EffectsPlayOnce` |
| `TriggerStoreProofs` | `TriggersStay`, `StatusStaysOwn`, `SoundFilesStay`, `PositionsStayDense`, `TableKeepsOrder` | `TriggersAreKept`, `StatusIsOwn`, `SoundFilesExist`, `PositionsAreDense`, `KeepsOrder` (the refinement of `OrderedList`) |
| `DatabaseProofs` | `BoostsStayListed`, `NumerologyStaysDense`, `SourcesStay`, `StaysMigratedInOrder` | `BoostsAreListed`, `PositionsAreDense`, `SourcesSurvive`, `MigratedInOrder` |
| `NostrProofs` | `AnsweredQueriesAreClosed`, `NamesAreLostToOverlapsOnly`, `QuerySyncKeepsItsPromise` | `AnsweredIsClosed`, `NamesAreRemembered`, `Answers` (the refinement of `ProfileQuery`) |
| `PageProofs` | `ShownRepliesWerePaid`, `OneReplyPerOpening`, `PaidRepliesAreShown` | `RepliedWasPaid`, `OncePerOpening`, `PaidIsShown` |
| `PageProofs` | `TriggersTakeTurns`, `DialogShowsItsRow`, `OneAnimationRuns`, `PageKeepsOrder` | `PlayedInTurn`, `InfoIsOfItsRow`; `OneAnimation`, the safety half of `ConfettiEnds`; all three for `PageEffects` |
| `PageProofs` | `DigestsStayPadded`, `AmountsStayRead`, `AgesStayTold` | `DigestsArePadded`, `AmountsAreRead`, `AgesAreTold` |

`TableKeepsOrder` is about one request at a time and no fault, which is what
`KeepsOrder` promises and `trigger_order` checks: `Requests = {r}` and
`MaxFaults = 0`. All the others are about any number of requests, faults and crashes.

Why the invariants need strengthening:

- `FeedInv`: `Truthful(page)` and `Truthful(stream)` say that an invoice in a
  queue that says it is settled is settled, and its index has been given out;
  without this a stale queue could store an unpaid boost. `HandOK` says that what
  `handle_boost` has in hand is a paid boost, and past the insert it is stored or its
  insert failed. `PhaseOK` says which queues can be non-empty in which phase,
  so that a retreat to an earlier phase drops nothing silently.
- `RepeatInv`, on top of it: no queue holds one settlement twice, nor the one in
  hand (`QueuesOnce`); and a stored boost whose triggers ran is behind the cursor
  and in neither queue, unless the cursor has moved back (`RepeatsOK`).
- `PaymentInv`: what a reply request holds is its own payment, of the boost it
  answers, and once it is to be stored a completed one (`RequestsOK`); every link is of a
  stored payment and to the boost it was made for (`LinksOK`); the poller works its page
  off upwards and its cursor stays below (`PollerOK`); and a payment whose triggers
  ran is stored, and the cursor has passed it or is about to (`TriggersOK`). `RepliesArePermanent` is an
  action property and follows from the same invariant; so does `HistoryIsSilent` with
  `HistoryInv` on top of it: once the catch-up has ended the cursor is past all that was
  paid before the start, and triggers run only after that.
- `Inbox`: what `messageIds` holds is never less than the page, also in the window in
  which a filter has emptied it (`TrackingOK`); a boost whose effect was played is in
  it, so the check for a double finds it. One boost put next to the closest of a list
  in order leaves it in order (`PlacedFacts`), and so, by induction on the boosts of
  an answer, does all of `RenderBoosts`.
- `TriggerStore`, as `IInv` in parts. `HomesOK`: a trigger has one `idx` for good, and rows,
  calls and the rows requests hold are about the trigger whose home it is; no `idx`
  is above the number of triggers ever stored, so `NewIdx` has room. `KeptOK`: two triggers
  with one home only come about by a delete. `SoundsOK`: sound files are never shared,
  so a removal takes nobody else's. `PlacesOK`: between the statements of a request the
  positions are such that the renumbering to come makes them dense (`Renumberable`):
  there is a place for each row in whose order the positions are, and the places
  already given out count like the positions they replaced (`Ranks`).
- `TableKeepsOrder`, on top of it: what a request holds is what it was asked
  (`OrderOK`), and once room has been made there are places the table had before, from
  which its positions tell (`Disturbed`). A list is determined by the places
  of its items (`OneList`); adding, moving and deleting do to the places what they do to
  the list (`AddLists`, `MoveLists`, `DeleteLists`), and the statements of a request do
  the same to the positions (`AddedInFront`, `PutInPlace`, `TakenOut`,
  `RenumberedAlike`). The list changes at `Upsert` or `Delete` and at no other statement.
- `Database`: what the schema has by the time a statement is reached (`SchemaOK`, `BoostsOK`);
  that the rows the first start has inserted are the defaults before `next` and no two
  rows say the same (`RowsOK`); `PlacesOK` as above; and that the triggers hold every
  old sound and webhook as often as it was copied, in the old order, with the
  sounds still to be read where `sound_file` is still there (`CopiesOK`).
- `DialogInv`: a reply that has succeeded, and an answer that says so, have a payment
  behind them (`PaidOK`); the present opening has one reply at most that did not fail,
  and none while its button can be clicked (`OpeningOK`); a reply goes only to rows that
  need no metadata, so a list never takes a paid row back to `fetch` (`AddressedOK`);
  what the page was told of is in the table or could not be stored, and so is in every
  answer read for a request made later (`ToldOK`); and the answer a row was drawn
  from is one that has come (`ShownOK`).
- `QueueInv`: each trigger is in the queue or among the plays under its own number
  (`Numbered`); all but the last of the plays are settled; the flag is that of the last.
- `InfoInv`: requests are about rows of the list of the page, and the link and
  the row shown go together (`TableOK`). That the query finds the very row it is
  asked for is `QueriedIsRow`.
- `NostrInv`: a close is counted only where a subscription is shut or was refused,
  and a query is answered only once that is everywhere it asked (`ClosedOK`); each
  event it has collected is its author's profile and has its id among the known
  ones (`EventsOK`), so that a second copy is recognised; the promise of a relay is
  about an attempt there was (`RelayOK`). Every task relates each query to what it
  was by `Moves`, and the refinement follows from that: who was asked about and
  what was answered stay. `NamesAreRemembered` rests on `SnapshotsOK`: a look-up that
  read the cache after a name was written has the name, or the name had been overwritten.

In `PageReading` a state holds a task and its arguments, and the invariant
(`ReadingInv`) says of which kind they are. What there is to prove is what the
loops come to, for a message of any length, an amount of any number of digits and a list of any
number of rows; each is a function computed step by step, and what holds of it at
each step is shown by induction on the steps (`Recursion`, `UpTo` of `OrderFacts`).

- `DigestsStayPadded`: after any part of a message the blocks and the buffer
  together hold what has come so far, and nothing else counts (`Reached`); each
  turn of `update` keeps that up, whichever of its branches takes a whole block or
  fills the buffer (`Ahead`, `UpdateReached`). The mark and zeros then overwrite
  what the buffer held before (`MarkedIs`), with one block more where the length has no
  room, and the blocks are those of the padded message (`BlocksAre`).
- `AmountsStayRead`: `Matches` finds the greedy choice of places that do not overlap
  (`Greedy`), and crossing out the first occurrence is crossing out the match
  (`CrossedIs`), since what is before it has been crossed out or does not match. So
  after k rows the text is the amount with what they matched crossed out
  (`TextsAre`), what all rows matched solves the condition of `Found`
  (`MatchedSolves`), and there is one solution (`OneSolution`). The substitutions
  hold each match once at its place (`SubstitutionsAre`), the list has a gap for
  each (`NumerologiesAre`), and filling the gaps tells them from left to
  right (`GapFilled`).
- `AgesStayTold`: the rows of `formats` leave no age out and none to two rows that
  disagree (`ShortAgeTold`); a year has the length the calendar gives it
  (`YearLength`), so each day is in one year and one month (`YearFound`, `MonthFound`),
  and what is told leads back to it (`DateTold`).

The proof that a step preserves an invariant has a lemma for each action or group of
actions. `OrderFacts` has what several need: the greatest and least of a set of numbers
(`SELECT MAX`), enumerations and their cardinality, functions computed in n steps,
sequences with an element put in or taken out, and what the statements of `Positions`
do to a table of any kind of rows: that the renumbering, which reads rows it has already
changed, puts them at 1 .. n in their order (`RenumberedDense`), and that an insert,
a move and a delete each leave an order it can tell (`AddRenumberable`,
`MoveRenumberable`, `DeleteRenumberable`). Facts about queues are lemmas of the modules.

In `PageEffects` each step is one of `EffectsQueue`, `Confetti`, `Balance` or `BoostInfo`
and leaves the others alone; `PageRunsItsParts` says so, and carries what is proved
of the parts over to the page.

Only model-checked:

- liveness, as fairness and `ENABLED` are beyond the prover: `EventuallyCaughtUp`,
  `CompletedIsStored`, `StoredIsShown`, `EventuallyAnswered`, `EffectsArePlayed`,
  `BalanceIsCurrent`, and that the animation of `ConfettiEnds` ends;
- `SignaturesAreChecked`: it is algebra over a field, for which there is no backend,
  and `Euclid`, `Power`, `Ladder` and the wNAF are recursive operators, out of the
  prover's reach;
- `ReferencesAreLinked`: the checksum of bech32 is computed with `Bitwise`, and
  `Number` and `Checked` of `Nip19` are recursive operators.

## Not modelled

- Which triggers match a boost (`src/triggers.rs:246-298`): a conjunction of
  comparisons without state, which a second definition could only repeat; and the
  test of a trigger, which is sent as boost 99999.
- General settings: a load, a save and a write of the shared copy without a lock
  across them. Two saves that overlap may leave table and copy different; nothing
  else hangs on it.
- What a boost's fields say (`src/boost.rs`, `src/deserializers.rs`), metadata
  decoding, Lightning address and Podcast Index look-ups: stateless, or a cache
  whose entries can be asked for again.
- Formatting, templates, styles and vendored scripts other than the Nostr client;
  of that, whatever the page never calls (signing, encryption, publishing, AUTH, the
  other NIPs), and the compression function of SHA-2, which is a table of constants.
- TLS, macaroons and configuration look-up; login (no state between requests);
  reports and CSV (they read only).
- What makes a task panic on one boost or payment alone: a route without hops
  (`src/boost.rs:140`), a comment cut within a character (`src/lnaddress.rs:119`), a report whose end is before its start
  (`src/handler.rs:1423`). Each is one expression of its input; no order of steps leads there.
  Panics of the two tasks on errors of the database and of metadata are in the models.

`PROJECT.json` lists every part with its status.

## Plan

Done, the most important behaviour first: InvoiceFeed, PaymentFeed, TriggerStore
with OrderedList, Inbox, Database; then the page: NostrPool with NostrNames,
ReplyDialog, PageEffects, Computations; then the proofs: every invariant, action
property and refinement that a run of a state machine checks is a theorem, and so
are three of the five properties of the computations.

What would come next: a composition of `InvoiceFeed` with `Inbox`, whose `Store`
and `Publish` stand for it today; and the regrouping of bits in `Nip19` as a
function of the words done, in a module of its own without the checksum, so that
it can be proved about.
