---------------------------- MODULE TriggerStore ----------------------------
(***************************************************************************)
(* The triggers table and the requests that work on it: dbif/triggers.rs   *)
(* with trigger_settings_save, _patch and _delete of handler.rs, the sound *)
(* files a trigger names, and the webhook calls of src/triggers.rs that    *)
(* write their outcome into the table when they are answered.              *)
(*                                                                         *)
(* Every function of dbif opens its own connection and no transaction, so  *)
(* each SQL statement is a step, and statements of different requests      *)
(* interleave.  Of a row only what is not simply typed in is kept: its     *)
(* position, sound file and last webhook status.  Identities that the code *)
(* does not have are added to tell rows apart that share an idx: trigger   *)
(* says which trigger a row holds, status which trigger's call it reports. *)
(***************************************************************************)
EXTENDS Integers, SequencesExt, Positions

CONSTANTS
  Requests,     \* requests that can be in progress at once
  MaxTriggers,  \* bound: idx, and triggers ever created
  MaxRequests,  \* bound: requests made
  MaxFaults     \* bound: statements that fail, and crashes

ASSUME StoreAssumption ==
  MaxTriggers \in Nat \ {0} /\ MaxRequests \in Nat /\ MaxFaults \in Nat

VARIABLES
  rows,      \* the table: a function from its idx column
  files,     \* sound files on disk
  req,       \* the requests in progress
  calls,     \* webhook calls not yet answered: idx and trigger
  (* history, read by no guard except the bounds *)
  created,   \* triggers created
  uploaded,  \* sound files created
  made,      \* requests made
  home,      \* the idx a trigger was given when it was first stored, or 0
  deleted,   \* triggers whose row a DELETE removed
  mixed,     \* two requests have overlapped, or one was cut short
  faults

histVars == <<created, uploaded, made, home, deleted, mixed, faults>>
vars     == <<rows, files, req, calls, histVars>>

Idx   == 1 .. MaxTriggers
Row   == [position : Int, trigger : Idx, sound : Nat, status : 0 .. MaxTriggers]
Blank == [position |-> 0, trigger |-> 0, sound |-> 0, status |-> 0]

(* at: the statement to come; row: the record in the handler's memory;     *)
(* place: the position asked for; from: the position read back.            *)
Idle == [at |-> "idle", op |-> "none", idx |-> 0, row |-> Blank, place |-> 0,
         from |-> 0, sound |-> "keep"]

Quiet == \A r \in Requests : req[r] = Idle

----------------------------------------------------------------------------
(* The tables a user can have arrived at one request after the other. *)
InitialTables ==
  UNION {{[i \in 1 .. n |-> [position |-> p[i], trigger |-> i, sound |-> i, status |-> 0]]
            : p \in Injection(1 .. n, 1 .. n)} : n \in 0 .. MaxTriggers - 1}

Init ==
  /\ rows \in InitialTables
  /\ files = DOMAIN rows
  /\ req = [r \in Requests |-> Idle]
  /\ calls = {}
  /\ created = Cardinality(DOMAIN rows)
  /\ uploaded = Cardinality(DOMAIN rows)
  /\ made = 0
  /\ home = [t \in Idx |-> IF t \in DOMAIN rows THEN t ELSE 0]
  /\ deleted = {} /\ mixed = FALSE /\ faults = 0

(* A request arrives. *)
Begin(r, request) ==
  /\ req[r] = Idle
  /\ made < MaxRequests
  /\ made' = made + 1
  /\ mixed' = (mixed \/ ~Quiet)
  /\ req' = [req EXCEPT ![r] = request]
  /\ UNCHANGED <<rows, files, calls, uploaded, home, deleted, faults>>

Go(r, at) == req' = [req EXCEPT ![r].at = at]
End(r)    == req' = [req EXCEPT ![r] = Idle]

----------------------------------------------------------------------------
(* trigger_settings_save for "add": position is the index, 0. *)
AskAdd(r, sound) ==
  /\ created < MaxTriggers
  /\ created' = created + 1
  /\ Begin(r, [Idle EXCEPT !.at = "file", !.op = "add", !.sound = sound,
                           !.row = [Blank EXCEPT !.trigger = created']])

(* trigger_settings_save for a trigger: an upload, the old sound, or none. *)
AskSave(r, i, sound) ==
  /\ Begin(r, [Idle EXCEPT !.at = "load", !.op = "keep", !.idx = i, !.sound = sound])
  /\ UNCHANGED created

(* trigger_settings_patch: dragged to place k. *)
AskMove(r, i, k) ==
  /\ Begin(r, [Idle EXCEPT !.at = "load", !.op = "move", !.idx = i, !.place = k])
  /\ UNCHANGED created

AskDelete(r, i) ==
  /\ Begin(r, [Idle EXCEPT !.at = "delete", !.op = "delete", !.idx = i])
  /\ UNCHANGED created

(* load_trigger_from_db in the handler: an error if the row is gone.  A    *)
(* save keeps position, sound and status of the row as it is now; a move   *)
(* keeps everything but the position.                                      *)
Load(r) ==
  LET i == req[r].idx
  IN
  /\ req[r].at = "load"
  /\ IF i \notin DOMAIN rows THEN End(r)
     ELSE IF req[r].op = "move"
       THEN req' = [req EXCEPT ![r].at = "place",
                               ![r].row = [rows[i] EXCEPT !.position = req[r].place]]
       ELSE req' = [req EXCEPT ![r].at = "file", ![r].row = rows[i],
                               ![r].place = rows[i].position]
  /\ UNCHANGED <<rows, files, calls, histVars>>

(* Mutant of SoundFile: removing the file leaves sound_file as it was. *)
SoundFileKept(r) ==
  /\ req[r].at = "file"
  /\ files' = IF req[r].sound = "clear" THEN files \ {req[r].row.sound} ELSE files
  /\ Go(r, "place")
  /\ UNCHANGED <<rows, calls, histVars>>

(* The sound file.  An upload goes to the name the row has, or to a new    *)
(* uuid, and names nothing if the copy fails; without "existing" the file  *)
(* is removed.                                                             *)
SoundFile(r) ==
  LET old  == req[r].row.sound
      name == IF old # 0 THEN old ELSE uploaded + 1
  IN
  /\ req[r].at = "file"
  /\ \/ /\ req[r].sound = "upload"
        /\ uploaded' = IF old # 0 THEN uploaded ELSE uploaded + 1
        /\ \E written \in {0, name} :
             /\ files' = IF written # 0 THEN files \cup {name} ELSE files
             /\ req' = [req EXCEPT ![r].at = "place", ![r].row.sound = written]
     \/ /\ req[r].sound = "keep"
        /\ Go(r, "place")
        /\ UNCHANGED <<files, uploaded>>
     \/ /\ req[r].sound = "clear"
        /\ files' = files \ {old}
        /\ req' = [req EXCEPT ![r].at = "place", ![r].row.sound = 0]
        /\ UNCHANGED uploaded
  /\ UNCHANGED <<rows, calls, created, made, home, deleted, mixed, faults>>

(* set_trigger_position_in_db, its read: the row's position now. *)
ReadPosition(r) ==
  LET i == req[r].idx
  IN
  /\ req[r].at = "place"
  /\ IF i = 0 THEN Go(r, "shift")
     ELSE IF i \notin DOMAIN rows THEN End(r)
     ELSE IF rows[i].position = req[r].row.position THEN Go(r, "upsert")
     ELSE req' = [req EXCEPT ![r].at = "shift", ![r].from = rows[i].position]
  /\ UNCHANGED <<rows, files, calls, histVars>>

(* ... and its update: room is made between the old and the new position,  *)
(* or, for a new trigger, from its position on.                            *)
Shift(r) ==
  LET i   == req[r].idx
      new == req[r].row.position
      old == req[r].from
  IN
  /\ req[r].at = "shift"
  /\ rows' = IF i = 0 THEN Shifted(rows, new, Highest(rows, new), 1, 0)
             ELSE IF new < old THEN Shifted(rows, new, old, 1, i)
             ELSE Shifted(rows, old, new, -1, i)
  /\ Go(r, "upsert")
  /\ UNCHANGED <<files, calls, histVars>>

(* INSERT ... ON CONFLICT(idx) DO UPDATE, every column. *)
Upsert(r) ==
  LET i == IF req[r].idx = 0 THEN NewIdx(rows) ELSE req[r].idx
  IN
  /\ req[r].at = "upsert"
  /\ rows' = With(rows, i, req[r].row)
  /\ home' = [home EXCEPT ![req[r].row.trigger] = IF @ = 0 THEN i ELSE @]
  /\ Go(r, "renumber")
  /\ UNCHANGED <<files, calls, created, uploaded, made, deleted, mixed, faults>>

(* Mutant of Delete: the positions are not renumbered. *)
DeleteOnly(r) ==
  /\ req[r].at = "delete"
  /\ rows' = [j \in DOMAIN rows \ {req[r].idx} |-> rows[j]]
  /\ End(r)
  /\ UNCHANGED <<files, calls, histVars>>

(* Mutant of Delete: WHERE names the position instead of the idx. *)
DeleteAtPosition(r) ==
  LET i == req[r].idx
  IN
  /\ req[r].at = "delete"
  /\ rows' = [j \in {k \in DOMAIN rows : rows[k].position # i} |-> rows[j]]
  /\ deleted' = IF i \in DOMAIN rows THEN deleted \cup {rows[i].trigger} ELSE deleted
  /\ Go(r, "renumber")
  /\ UNCHANGED <<files, calls, created, uploaded, made, home, mixed, faults>>

(* delete_trigger_from_db; the sound file stays behind. *)
Delete(r) ==
  LET i == req[r].idx
  IN
  /\ req[r].at = "delete"
  /\ rows' = [j \in DOMAIN rows \ {i} |-> rows[j]]
  /\ deleted' = IF i \in DOMAIN rows THEN deleted \cup {rows[i].trigger} ELSE deleted
  /\ Go(r, "renumber")
  /\ UNCHANGED <<files, calls, created, uploaded, made, home, mixed, faults>>

Renumber(r) ==
  /\ req[r].at = "renumber"
  /\ rows' = Renumbered(rows)
  /\ End(r)
  /\ UNCHANGED <<files, calls, histVars>>

(* A statement fails, and the handler gives up where it is. *)
StatementFails(r) ==
  /\ faults < MaxFaults /\ faults' = faults + 1
  /\ req[r] # Idle
  /\ End(r)
  /\ mixed' = TRUE
  /\ UNCHANGED <<rows, files, calls, created, uploaded, made, home, deleted>>

----------------------------------------------------------------------------
(* process_triggers has read the table and sends a trigger's webhook. *)
CallWebhook(i) ==
  /\ i \in DOMAIN rows
  /\ calls = {}    \* bound: one call under way
  /\ calls' = {[idx |-> i, trigger |-> rows[i].trigger]}
  /\ UNCHANGED <<rows, files, req, histVars>>

(* Mutant of WebhookAnswered: WHERE names the position instead of the idx. *)
AnsweredAtPosition(c) ==
  /\ calls' = calls \ {c}
  /\ rows' = [i \in DOMAIN rows |->
                IF rows[i].position = c.idx THEN [rows[i] EXCEPT !.status = c.trigger]
                ELSE rows[i]]
  /\ UNCHANGED <<files, req, histVars>>

(* handle_webhook_effect: an answer is recorded under the idx, a call that *)
(* fails is not.                                                           *)
WebhookAnswered(c) ==
  /\ calls' = calls \ {c}
  /\ \/ rows' = [i \in DOMAIN rows |->
                   IF i = c.idx THEN [rows[i] EXCEPT !.status = c.trigger] ELSE rows[i]]
     \/ UNCHANGED rows
  /\ UNCHANGED <<files, req, histVars>>

(* The process is killed and started again. *)
Crash ==
  /\ faults < MaxFaults /\ faults' = faults + 1
  /\ req' = [r \in Requests |-> Idle]
  /\ calls' = {}
  /\ mixed' = (mixed \/ ~Quiet)
  /\ UNCHANGED <<rows, files, created, uploaded, made, home, deleted>>

----------------------------------------------------------------------------
Ask(r) ==
  \/ \E sound \in {"upload", "keep"} : AskAdd(r, sound)
  \/ \E i \in Idx : \/ \E sound \in {"upload", "keep", "clear"} : AskSave(r, i, sound)
                    \/ \E k \in Idx : AskMove(r, i, k)
                    \/ AskDelete(r, i)

Step(r) == \/ Load(r) \/ SoundFile(r) \/ ReadPosition(r) \/ Shift(r) \/ Upsert(r)
           \/ Delete(r) \/ Renumber(r)

Next ==
  \/ \E r \in Requests : Ask(r) \/ Step(r) \/ StatementFails(r)
  \/ \E i \in Idx : CallWebhook(i)
  \/ \E c \in calls : WebhookAnswered(c)
  \/ Crash

Spec == Init /\ [][Next]_vars

----------------------------------------------------------------------------
TypeOK ==
  /\ DOMAIN rows \subseteq Idx /\ \A i \in DOMAIN rows : rows[i] \in Row
  /\ files \subseteq 1 .. uploaded
  /\ \A r \in Requests : req[r].idx \in 0 .. MaxTriggers /\ req[r].row \in Row \cup {Blank}
  /\ calls \subseteq [idx : Idx, trigger : Idx]
  /\ home \in [Idx -> 0 .. MaxTriggers]
  /\ deleted \subseteq 1 .. created
  /\ mixed \in BOOLEAN

(* However many requests have been made one after the other, the positions *)
(* are 1 .. n again when the last one is done: the place the page asks for *)
(* (its newIndex + 1) means what its user sees.                            *)
PositionsAreDense ==
  /\ TypeOK
  /\ Quiet /\ ~mixed =>
       {rows[i].position : i \in DOMAIN rows} = 1 .. Cardinality(DOMAIN rows)

(* A trigger leaves the table by a DELETE only.  The exception: a request  *)
(* still has a row in its hands whose trigger was deleted, and puts it     *)
(* back over a newer trigger that was given the same idx.                  *)
TriggersAreKept ==
  \A t \in Idx \ deleted :
    home[t] # 0 =>
      \/ \E i \in DOMAIN rows : rows[i].trigger = t
      \/ \E d \in deleted : home[d] = home[t]

(* The webhook status of a row never reports a call that was made for      *)
(* another trigger of the table, though idx is all a call carries and idx  *)
(* is given out again.                                                     *)
StatusIsOwn ==
  \A i, j \in DOMAIN rows : rows[i].status = rows[j].trigger => i = j

(* A trigger between requests names a sound file that exists: no order of  *)
(* file and database effects, upload, failed copy or removal leaves a name *)
(* behind, unless requests overlap or one is cut short.                    *)
SoundFilesExist ==
  Quiet /\ ~mixed => \A i \in DOMAIN rows : rows[i].sound \in files \cup {0}

(* The list a page shows, with rows that a shift has put on one position   *)
(* in the order they will have when request q is done.                     *)
Rank(tbl, q) ==
  [i \in DOMAIN tbl |->
     IF q.at # "upsert" \/ q.idx # i THEN 2 * tbl[i].position
     ELSE IF q.row.position < q.from THEN 2 * tbl[i].position + 1
     ELSE 2 * tbl[i].position - 1]

(* The domain of rank, sorted by it.                                       *)
Sorted(rank) ==
  [m \in 1 .. Cardinality(DOMAIN rank) |->
     CHOOSE i \in DOMAIN rank : Cardinality({j \in DOMAIN rank : rank[j] < rank[i]}) = m - 1]

(* What request q still has to do.                                         *)
Wish(q) ==
  IF q.at \in {"load", "file", "place", "shift", "upsert", "delete"}
    THEN [op |-> q.op, item |-> q.idx, place |-> IF q.op = "move" THEN q.place ELSE 0]
    ELSE [op |-> "none", item |-> 0, place |-> 0]

Only   == req[CHOOSE r \in Requests : TRUE]
Listed == Sorted(Rank(rows, Only))
Asked  == Wish(Only)

Ordered == INSTANCE OrderedList WITH Items <- Idx, list <- Listed, asked <- Asked

(* One request at a time, the statements of a save, a move or a delete     *)
(* amount to exactly what was asked: a new trigger in front, a moved one   *)
(* in the place asked for and the others in the order they were in.        *)
KeepsOrder == Ordered!Spec
============================================================================
