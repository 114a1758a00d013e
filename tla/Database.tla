------------------------------ MODULE Database ------------------------------
(***************************************************************************)
(* Start-up of the database and the numerology table: create_database of   *)
(* dbif/lib.rs with the tables and migrations it runs, and the requests of *)
(* handler.rs that edit the numerology afterwards.                         *)
(*                                                                         *)
(* Nothing runs in a transaction, so every SQL statement is a step, at     *)
(* names the one to come, and the process can end before each of them: it  *)
(* is killed, or the statement fails and main exits or panics.  It is then *)
(* started again and create_database runs from its top on the file as it   *)
(* is left.  But an ALTER TABLE boosts that fails is not reported, and a   *)
(* MAX(position) that cannot be read is taken for 0: the start goes on.    *)
(* A row keeps its position, what it says (name) and whether it has a      *)
(* sound.  Numerology requests come one at a time here: TriggerStore lets  *)
(* the same statements, on triggers, overlap.                              *)
(***************************************************************************)
EXTENDS Integers, SequencesExt, Positions

CONSTANTS
  Defaults,     \* rows insert_default_numerology inserts
  MaxOld,       \* bound: rows of a table an older release has left
  MaxRequests,  \* bound: requests made
  MaxFaults     \* bound: crashes and failed statements

ASSUME DatabaseAssumption ==
  Defaults \in Nat \ {0} /\ MaxOld \in Nat /\ MaxRequests \in Nat /\ MaxFaults \in Nat

VARIABLES
  at,          \* the statement to come, or "up"
  schema,      \* tables and columns of the file that not every release has
  listType,    \* list_type of the boosts rows with an action; empty without boosts
  numerology,  \* tables: functions from idx
  triggers,
  next,        \* the default row to insert
  asked,       \* the numerology request in progress
  (* history, read by no guard except the bounds *)
  old,         \* the sounds, webhooks and lists found by the first start
  made,        \* requests made
  faults,
  cut,         \* times a statement was not carried out that is not retried
  failed,      \* the statements of this start that failed without ending it
  misread,     \* rows were numbered from 1 though there were triggers
  gap          \* a save that ended early left positions that stay uneven

tables  == <<listType, numerology, triggers>>
history == <<old, made, faults, cut, failed, misread, gap>>
vars    == <<at, schema, tables, next, asked, history>>

Actions  == 0 .. 5  \* Unknown, Stream, Boost, Invalid, Auto, Invoice
BoostLike == {2, 4, 5}
Null     == -1

(* ListType::from_action: 1 is the boosts, 2 the streams, 0 in neither.    *)
FromAction == [a \in Actions |-> IF a \in BoostLike THEN 1 ELSE IF a = 1 THEN 2 ELSE 0]

(* The lists in a file whose boosts have a list_type: as a migration has   *)
(* left them, or as from_action_and_comment gave them, to an invoice by    *)
(* its comment.                                                            *)
StoredLists == {[a \in Actions |-> IF a \in BoostLike THEN 1 ELSE 2],
                FromAction, [FromAction EXCEPT ![5] = 2]}

Startup  == {"boosts", "customKey", "customValue", "listType", "typeBoosts", "typeStreams",
             "numerology", "defaults", "sounds", "dropSounds", "webhooks", "archive"}
Request  == {"place", "upsert", "delete", "renumber", "clear", "redefault"}
Columns  == {"custom_key", "custom_value", "list_type"}

Windows  == {"customValue", "typeBoosts", "typeStreams", "dropSounds", "archive"}

NoOne == [idx |-> 0, name |-> 0, place |-> 0, from |-> 0]

WithSound(tbl) == {i \in DOMAIN tbl : tbl[i].sound}

(* Rows of a table in the order of their idx, and of their positions. *)
ByIdx(S) ==
  CHOOSE s \in Surjection(1 .. Cardinality(S), S) : \A j, k \in DOMAIN s : j < k => s[j] < s[k]
InPlaces(tbl, s) ==
  \A j, k \in DOMAIN s : j < k => tbl[s[j]].position < tbl[s[k]].position
ByPosition(tbl, S) == CHOOSE s \in Surjection(1 .. Cardinality(S), S) : InPlaces(tbl, s)

----------------------------------------------------------------------------
(* What older releases leave: each column, and each table, came with one   *)
(* of them; sounds and webhooks belonged to other tables than triggers.    *)
OldRows(p, S) == [i \in DOMAIN p |-> [position |-> p[i], name |-> Defaults + i, sound |-> i \in S]]
OldNumerology ==
  UNION {{OldRows(p, S) : p \in Injection(1 .. n, 1 .. n), S \in SUBSET (1 .. n)} : n \in 0 .. MaxOld}

Init ==
  /\ at = "boosts"
  /\ \E columns \in {{}, Columns \ {"list_type"}, Columns},
        others \in SUBSET {"numerology", "sound_file", "webhooks"} :
       /\ schema \in {{}, {"boosts"} \cup columns \cup others}
       /\ "sound_file" \in schema => "numerology" \in schema
  /\ listType \in IF "boosts" \notin schema THEN {<<>>}
                   ELSE IF "list_type" \in schema THEN StoredLists
                   ELSE {[a \in Actions |-> Null]}
  /\ numerology \in OldNumerology
  /\ "numerology" \notin schema => numerology = <<>>
  /\ "sound_file" \notin schema => WithSound(numerology) = {}
  /\ triggers = <<>>
  /\ next = 1
  /\ asked = NoOne
  /\ \E n \in 0 .. MaxOld :
       /\ "webhooks" \notin schema => n = 0
       /\ old = [sounds |-> [k \in 1 .. Cardinality(WithSound(numerology)) |->
                    numerology[ByPosition(numerology, WithSound(numerology))[k]].name],
                 webhooks |-> [k \in 1 .. n |-> k],
                 lists |-> listType]
  /\ made = 0
  /\ faults = 0
  /\ cut = [a \in Windows |-> 0]
  /\ failed = {}
  /\ misread = FALSE
  /\ gap = FALSE

(* A statement that adds a table or a column, if it is not there. *)
Adds(from, new, there, done) ==
  /\ at = from
  /\ schema' = schema \cup new
  /\ at' = IF new \subseteq schema THEN there ELSE done
  /\ UNCHANGED <<tables, next, asked, history>>

(* An ALTER TABLE boosts that fails, like one whose column is there.       *)
Swallowed(from, column, there) ==
  /\ at = from /\ at' = there
  /\ column \notin schema
  /\ faults < MaxFaults /\ faults' = faults + 1
  /\ failed' = failed \cup {from}
  /\ cut' = [w \in Windows |-> IF w = from THEN cut[w] + 1 ELSE cut[w]]
  /\ UNCHANGED <<schema, tables, next, asked, old, made, misread, gap>>

----------------------------------------------------------------------------
(* create_boosts_table; the columns that nothing depends on are left out.  *)
CreateBoosts == Adds("boosts", IF "boosts" \in schema THEN {} ELSE {"boosts"} \cup Columns,
                     "customKey", "customKey")

(* execute_batch stops at the statement that fails, so custom_value is     *)
(* added only by the start that has added custom_key.                      *)
AddCustomKey ==
  \/ Adds("customKey", {"custom_key"}, "listType", "customValue")
  \/ Swallowed("customKey", "custom_key", "listType")
AddCustomValue ==
  \/ Adds("customValue", {"custom_value"}, "listType", "listType")
  \/ Swallowed("customValue", "custom_value", "listType")
AddListType ==
  \/ Adds("listType", {"list_type"}, "numerology", "typeBoosts")
  \/ Swallowed("listType", "list_type", "numerology")

TypeBoosts ==
  /\ at = "typeBoosts" /\ at' = "typeStreams"
  /\ listType' = [a \in DOMAIN listType |-> IF a \in BoostLike THEN 1 ELSE listType[a]]
  /\ UNCHANGED <<schema, numerology, triggers, next, asked, history>>

(* Mutant of TypeStreams: only action 1 is a stream. *)
TypeOnlyStreams ==
  /\ at = "typeStreams" /\ at' = "numerology"
  /\ listType' = [listType EXCEPT ![1] = 2]
  /\ UNCHANGED <<schema, numerology, triggers, next, asked, history>>

TypeStreams ==
  /\ at = "typeStreams" /\ at' = "numerology"
  /\ listType' = [a \in DOMAIN listType |-> IF a \notin BoostLike THEN 2 ELSE listType[a]]
  /\ UNCHANGED <<schema, numerology, triggers, next, asked, history>>

(* Mutant of NumerologyTable: the defaults are inserted at every start. *)
NumerologyTableAlways == Adds("numerology", {"numerology"}, "defaults", "defaults")

(* create_numerology_table: a new table gets the default rows. *)
NumerologyTable == Adds("numerology", {"numerology"}, "sounds", "defaults")

(* insert_default_numerology, one INSERT, at a start and for a reset. *)
InsertDefault ==
  /\ at \in {"defaults", "redefault"}
  /\ numerology' = With(numerology, NewIdx(numerology),
                         [position |-> next, name |-> next, sound |-> FALSE])
  /\ IF next < Defaults
       THEN next' = next + 1 /\ at' = at
       ELSE next' = 1 /\ at' = IF at = "defaults" THEN "sounds" ELSE "up"
  /\ UNCHANGED <<schema, listType, triggers, asked, history>>

----------------------------------------------------------------------------
(* INSERT INTO triggers ... SELECT: rows are appended in the order of idx. *)
LastPosition == Highest(triggers, 0)

WithRows(new) ==
  LET last == NewIdx(triggers) - 1
  IN  [i \in DOMAIN triggers \cup (last + 1 .. last + Len(new)) |->
         IF i \in DOMAIN triggers THEN triggers[i] ELSE new[i - last]]

(* The position that the migrations read with .unwrap_or(0).               *)
Reads(base) ==
  \/ base = LastPosition /\ UNCHANGED <<faults, misread>>
  \/ /\ base = 0 /\ LastPosition # 0
     /\ faults < MaxFaults /\ faults' = faults + 1
     /\ misread' = TRUE

(* migrate_numerology_sounds_to_triggers. *)
CopySounds ==
  LET rows     == ByIdx(WithSound(numerology))
      place(i) == 1 + Cardinality({j \in WithSound(numerology) :
                                     numerology[j].position < numerology[i].position})
  IN
  /\ at = "sounds"
  /\ IF "sound_file" \in schema
       THEN \E base \in {0, LastPosition} :
              /\ Reads(base)
              /\ at' = "dropSounds"
              /\ triggers' = WithRows([k \in DOMAIN rows |->
                   [position |-> base + place(rows[k]),
                    source |-> <<"sound", numerology[rows[k]].name>>]])
       ELSE at' = "webhooks" /\ UNCHANGED <<triggers, faults, misread>>
  /\ UNCHANGED <<schema, listType, numerology, next, asked, old, made, cut, failed, gap>>

DropSounds ==
  /\ at = "dropSounds" /\ at' = "webhooks"
  /\ schema' = schema \ {"sound_file"}
  /\ numerology' = [i \in DOMAIN numerology |-> [numerology[i] EXCEPT !.sound = FALSE]]
  /\ UNCHANGED <<listType, triggers, next, asked, history>>

(* Mutants of CopyWebhooks: triggers that are there are taken for the work *)
(* of an earlier start; ?1 is left out.                                    *)
CopyWebhooksOnce ==
  /\ at = "webhooks"
  /\ at' = IF "webhooks" \in schema THEN "archive" ELSE "up"
  /\ triggers' = IF "webhooks" \in schema /\ triggers = <<>>
                   THEN [k \in DOMAIN old.webhooks |->
                           [position |-> k, source |-> <<"webhook", k>>]]
                   ELSE triggers
  /\ UNCHANGED <<schema, listType, numerology, next, asked, history>>
CopyWebhooksFromOne ==
  /\ at = "webhooks"
  /\ at' = IF "webhooks" \in schema THEN "archive" ELSE "up"
  /\ triggers' = IF "webhooks" \in schema
                   THEN WithRows([k \in DOMAIN old.webhooks |->
                           [position |-> k, source |-> <<"webhook", k>>]])
                   ELSE triggers
  /\ UNCHANGED <<schema, listType, numerology, next, asked, history>>

(* migrate_webhooks_to_triggers. *)
CopyWebhooks ==
  /\ at = "webhooks"
  /\ IF "webhooks" \in schema
       THEN \E base \in {0, LastPosition} :
              /\ Reads(base)
              /\ at' = "archive"
              /\ triggers' = WithRows([k \in DOMAIN old.webhooks |->
                   [position |-> base + k, source |-> <<"webhook", k>>]])
       ELSE at' = "up" /\ UNCHANGED <<triggers, faults, misread>>
  /\ UNCHANGED <<schema, listType, numerology, next, asked, old, made, cut, failed, gap>>

ArchiveWebhooks ==
  /\ at = "archive" /\ at' = "up"
  /\ schema' = schema \ {"webhooks"}
  /\ UNCHANGED <<tables, next, asked, history>>

----------------------------------------------------------------------------
Ask(request, statement) ==
  /\ at = "up" /\ at' = statement
  /\ made < MaxRequests /\ made' = made + 1
  /\ asked' = request
  /\ UNCHANGED <<schema, tables, next, old, faults, cut, failed, misread, gap>>

(* numerology_settings_save for "add", at the place typed into the form. *)
AskAdd(k) ==
  Ask([idx |-> 0, name |-> Defaults + MaxOld + made + 1, place |-> k, from |-> 0], "place")

(* numerology_settings_save and _patch: an error if the row is not there.  *)
AskPlace(i, k) ==
  /\ i \in DOMAIN numerology
  /\ Ask([idx |-> i, name |-> numerology[i].name, place |-> k,
          from |-> numerology[i].position], "place")

AskDelete(i) == Ask([NoOne EXCEPT !.idx = i], "delete")
AskReset     == Ask(NoOne, "clear")

(* set_numerology_position_in_db. *)
Place ==
  LET new == asked.place
      from == asked.from
  IN
  /\ at = "place" /\ at' = "upsert"
  /\ numerology' = IF asked.idx = 0 THEN Shifted(numerology, new, Highest(numerology, new), 1, 0)
                   ELSE IF new < from THEN Shifted(numerology, new, from, 1, asked.idx)
                   ELSE IF new > from THEN Shifted(numerology, from, new, -1, asked.idx)
                   ELSE numerology
  /\ UNCHANGED <<schema, listType, triggers, next, asked, history>>

Upsert ==
  LET i == IF asked.idx = 0 THEN NewIdx(numerology) ELSE asked.idx
  IN
  /\ at = "upsert" /\ at' = "renumber"
  /\ numerology' = With(numerology, i,
                         [position |-> asked.place, name |-> asked.name, sound |-> FALSE])
  /\ UNCHANGED <<schema, listType, triggers, next, asked, history>>

(* Mutant of Delete: the positions are not renumbered. *)
DeleteOnly ==
  /\ at = "delete" /\ at' = "up"
  /\ numerology' = [j \in DOMAIN numerology \ {asked.idx} |-> numerology[j]]
  /\ asked' = NoOne
  /\ UNCHANGED <<schema, listType, triggers, next, history>>

(* delete_numerology_from_db. *)
Delete ==
  /\ at = "delete" /\ at' = "renumber"
  /\ numerology' = [j \in DOMAIN numerology \ {asked.idx} |-> numerology[j]]
  /\ UNCHANGED <<schema, listType, triggers, next, asked, history>>

Renumber ==
  /\ at = "renumber" /\ at' = "up"
  /\ numerology' = Renumbered(numerology)
  /\ asked' = NoOne
  /\ UNCHANGED <<schema, listType, triggers, next, history>>

(* reset_numerology_in_db, its DELETE; the defaults follow. *)
Clear ==
  /\ at = "clear" /\ at' = "redefault"
  /\ numerology' = <<>> /\ next' = 1
  /\ gap' = FALSE
  /\ UNCHANGED <<schema, listType, triggers, asked, old, made, faults, cut, failed, misread>>

----------------------------------------------------------------------------
Cut ==
  /\ faults < MaxFaults /\ faults' = faults + 1
  /\ cut' = [w \in Windows |-> IF w = at THEN cut[w] + 1 ELSE cut[w]]
  /\ gap' = (gap \/ at \in {"upsert", "renumber"})
  /\ asked' = NoOne /\ next' = 1
  /\ UNCHANGED <<schema, tables, old, made, misread>>

(* The process is killed, or a statement of create_database fails and is   *)
(* not passed over; main exits and the supervisor starts it again.         *)
Restart == Cut /\ at' = "boosts" /\ failed' = {}

(* A statement of a request fails, and its handler answers with an error.  *)
RequestFails == at \in Request /\ Cut /\ at' = "up" /\ UNCHANGED failed

Requested ==
  \/ \E k \in 0 .. Defaults + MaxOld : AskAdd(k) \/ \E i \in DOMAIN numerology : AskPlace(i, k)
  \/ \E i \in DOMAIN numerology : AskDelete(i)
  \/ AskReset
  \/ Place \/ Upsert \/ Delete \/ Renumber \/ Clear

Started ==
  \/ CreateBoosts \/ AddCustomKey \/ AddCustomValue \/ AddListType \/ TypeBoosts \/ TypeStreams
  \/ NumerologyTable \/ InsertDefault \/ CopySounds \/ DropSounds
  \/ CopyWebhooks \/ ArchiveWebhooks

Next == Started \/ Requested \/ Restart \/ RequestFails

Spec == Init /\ [][Next]_vars

----------------------------------------------------------------------------
Names == 1 .. Defaults + MaxOld + MaxRequests

TypeOK ==
  /\ at \in Startup \cup Request \cup {"up"}
  /\ schema \subseteq {"boosts", "numerology", "sound_file", "webhooks"} \cup Columns
  /\ listType \in [DOMAIN old.lists -> Null .. 2]
  /\ \A i \in DOMAIN numerology :
       i \in Nat \ {0} /\ numerology[i] \in [position : Int, name : Names, sound : BOOLEAN]
  /\ \A i \in DOMAIN triggers :
       i \in Nat \ {0} /\ triggers[i].position \in Nat \ {0}
  /\ next \in 1 .. Defaults
  /\ asked \in [idx : Nat, name : Names \cup {0}, place : Nat, from : Int]
  /\ failed \subseteq {"customKey", "customValue", "listType"}
  /\ misread \in BOOLEAN /\ gap \in BOOLEAN

NamesAreUnique ==
  \A i, j \in DOMAIN numerology : numerology[i].name = numerology[j].name => i = j

(* Whatever was added, dragged, deleted or reset, and however often the    *)
(* start or a reset was cut short, the positions are 1 .. n when the       *)
(* program is up: "numerologies with lower positions are applied first".   *)
(* Only a save that ends between its UPDATEs leaves gaps, or two rows in   *)
(* one place, and then until the numerology is reset.  And no start puts   *)
(* the default rows beside the ones there are, nor does a reset.           *)
PositionsAreDense ==
  /\ TypeOK /\ NamesAreUnique
  /\ at = "up" /\ ~gap =>
       {numerology[i].position : i \in DOMAIN numerology} = 1 .. Cardinality(DOMAIN numerology)

(* Wherever a start that migrates is cut, each old sound and each old      *)
(* webhook is still in the table it came from or already among the         *)
(* triggers.                                                               *)
SourcesSurvive ==
  LET migrated == {triggers[i].source : i \in DOMAIN triggers}
      sounds   == {numerology[i].name : i \in WithSound(numerology)}
  IN
  /\ \A k \in DOMAIN old.sounds :
       (old.sounds[k] \in sounds /\ "sound_file" \in schema) \/ <<"sound", old.sounds[k]>> \in migrated
  /\ \A k \in DOMAIN old.webhooks : "webhooks" \in schema \/ <<"webhook", k>> \in migrated

(* When the program is up the triggers are the old sounds in the order of  *)
(* the numerology, then the old webhooks, in positions without a gap: each *)
(* once, and once more for every start that was cut between the INSERT and *)
(* the ALTER that keeps it from being run again.  If a MAX(position) could *)
(* not be read the positions may coincide, but no trigger is missing, and  *)
(* none is there more often.                                               *)
MigratedInOrder ==
  LET sounds   == Len(old.sounds)
      webhooks == Len(old.webhooks)
      first    == (1 + cut["dropSounds"]) * sounds  \* where the webhooks begin
      Is(i, position, source) ==
        /\ i \in DOMAIN triggers /\ triggers[i].source = source
        /\ ~misread => triggers[i].position = position
  IN
  at = "up" =>
    /\ Cardinality(DOMAIN triggers) = first + (1 + cut["archive"]) * webhooks
    /\ \A c \in 0 .. cut["dropSounds"], k \in 1 .. sounds :
         \E i \in c * sounds + 1 .. c * sounds + sounds :
           Is(i, c * sounds + k, <<"sound", old.sounds[k]>>)
    /\ \A c \in 0 .. cut["archive"], k \in 1 .. webhooks :
         Is(first + c * webhooks + k, first + c * webhooks + k, <<"webhook", k>>)

(* When the program is up the boosts table has the columns its queries     *)
(* name, except one whose ALTER failed in this start, and every boost is   *)
(* in a list: the one it was found in, or that of its action if from_action*)
(* has one.  If custom_value's ALTER, or an UPDATE of the lists, was not   *)
(* carried out when its turn came, it is never made up for: the next start *)
(* finds the column before it and skips it.                                *)
BoostsAreListed ==
  at = "up" =>
    /\ "customKey" \notin failed => "custom_key" \in schema
    /\ "customKey" \notin failed /\ cut["customValue"] = 0 => "custom_value" \in schema
    /\ "listType" \notin failed => "list_type" \in schema
    /\ "listType" \notin failed /\ cut["typeBoosts"] + cut["typeStreams"] = 0 =>
         \A a \in DOMAIN old.lists :
           IF old.lists[a] # Null THEN listType[a] = old.lists[a]
           ELSE listType[a] \in IF FromAction[a] = 0 THEN {1, 2} ELSE {FromAction[a]}
============================================================================
