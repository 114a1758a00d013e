------------------------- MODULE TriggerStoreProofs -------------------------
(***************************************************************************)
(* Proofs about TriggerStore, for any number of requests under way, of     *)
(* triggers, requests and faults: no trigger is lost, no status is told of *)
(* another trigger's call, and as long as requests do not overlap the      *)
(* positions are dense and the sound files named exist.  With one request  *)
(* at a time the table implements OrderedList.                             *)
(***************************************************************************)
EXTENDS TriggerStore, OrderFacts, TLAPS

(* A request that holds a row, and one that has written its sound file.    *)
Holding == {"file", "place", "shift", "upsert"}
Filed   == {"place", "shift", "upsert"}

Homed == {t \in Idx : home[t] # 0}

(* Where a request is going to put its row.                                *)
Target(q) == IF q.idx = 0 THEN NewIdx(rows) ELSE q.idx

----------------------------------------------------------------------------
Request ==
  [at : {"idle", "load", "delete", "renumber"} \cup Holding,
   op : {"none", "add", "keep", "move", "delete"},
   idx : 0 .. MaxTriggers, row : Row \cup {Blank}, place : Int, from : Int,
   sound : {"keep", "upload", "clear"}]

RequestOK(q) ==
  /\ q.at = "idle" => q = Idle
  /\ q.at = "load" => q.idx # 0 /\ q.place \in Nat
  /\ q.at \in Holding => q.row \in Row

(* The row of a new trigger is stored nowhere yet; any other row belongs   *)
(* to the idx it was read from, and so does the call its status tells of.  *)
RowIsOwn(q) ==
  q.at \in Holding =>
    IF q.idx = 0 THEN q.row.trigger <= created /\ home[q.row.trigger] = 0 /\ q.row.status = 0
    ELSE home[q.row.trigger] = q.idx /\ (q.row.status # 0 => home[q.row.status] = q.idx)

(* A row is in its trigger's home, and the call its status tells of was    *)
(* made for that idx.                                                      *)
RowHomes ==
  \A i \in DOMAIN rows :
    /\ home[rows[i].trigger] = i
    /\ rows[i].status # 0 => home[rows[i].status] = i

CallHomes == \A c \in calls : home[c.trigger] = c.idx

(* No idx is above the number of triggers that have ever had one.          *)
HomeBounds == \A t \in Homed : t <= created /\ home[t] <= Cardinality(Homed)

RequestHomes == \A r \in Requests : RowIsOwn(req[r])

New(r) == req[r].at \in Holding /\ req[r].idx = 0

NewOnesDiffer ==
  \A r, s \in Requests :
    New(r) /\ New(s) /\ req[r].row.trigger = req[s].row.trigger => r = s

(* A trigger has one home for good.                                        *)
HomesOK == RowHomes /\ CallHomes /\ HomeBounds /\ RequestHomes /\ NewOnesDiffer

NamesOK ==
  /\ \A i \in DOMAIN rows : rows[i].sound <= uploaded
  /\ \A r \in Requests : req[r].row.sound <= uploaded

TypesOK ==
  /\ TypeOK /\ NamesOK
  /\ rows = [i \in DOMAIN rows |-> rows[i]]
  /\ req \in [Requests -> Request] /\ \A r \in Requests : RequestOK(req[r])
  /\ created \in 0 .. MaxTriggers /\ uploaded \in Nat
  /\ deleted \subseteq Homed

(* A trigger that was not deleted is in its home, unless the home is one   *)
(* that a deleted trigger had as well; two triggers with one home only     *)
(* come about so.                                                          *)
KeptOK ==
  /\ \A t \in Homed \ deleted :
       \/ home[t] \in DOMAIN rows /\ rows[home[t]].trigger = t
       \/ \E d \in deleted : home[d] = home[t]
  /\ \A t, u \in Homed : home[t] = home[u] /\ t # u => \E d \in deleted : home[d] = home[t]

OneAtATime ==
  ~mixed => \A r, s \in Requests : req[r].at # "idle" /\ req[s].at # "idle" => r = s

(* Each row has a sound file of its own; one that is being saved may have  *)
(* lost it, and its request names the one it is to have.                   *)
OwnSounds ==
  \A i, j \in DOMAIN rows : rows[i].sound = rows[j].sound /\ rows[i].sound # 0 => i = j

NamedSounds ==
  \A i \in DOMAIN rows :
    rows[i].sound \in files \cup {0} \/ \E r \in Requests : req[r].at \in Filed /\ req[r].idx = i

SoundIsOwn(q) ==
  /\ q.at = "file" => q.row.sound = IF q.idx = 0 THEN 0 ELSE rows[q.idx].sound
  /\ q.at \in Filed =>
       /\ q.row.sound \in files \cup {0}
       /\ \A j \in DOMAIN rows \ {q.idx} : rows[j].sound = q.row.sound => rows[j].sound = 0

SoundsOK == ~mixed => OwnSounds /\ NamedSounds /\ \A r \in Requests : SoundIsOwn(req[r])

(* The positions are dense until a request disturbs them, and then they    *)
(* are such that its renumbering makes them dense again.                   *)
Undisturbed == \A r \in Requests : req[r].at \notin {"upsert", "renumber"}

PlaceIsOK(q) ==
  /\ q.at \in Holding => q.row.position \in Nat /\ (q.idx # 0 => q.idx \in DOMAIN rows)
  /\ q.at = "shift" /\ q.idx # 0 => q.from = rows[q.idx].position
  /\ q.at = "upsert" => Renumberable(With(rows, Target(q), q.row))
  /\ q.at = "renumber" => Renumberable(rows)

PlacesOK == ~mixed => (Undisturbed => Dense(rows)) /\ \A r \in Requests : PlaceIsOK(req[r])

IInv == TypesOK /\ HomesOK /\ KeptOK /\ OneAtATime /\ SoundsOK /\ PlacesOK

----------------------------------------------------------------------------
(* Rows have positions as OrderFacts means it.                             *)
LEMMA RowPositions == HavePositions(Row)
  BY DEF HavePositions, Row

(* Records of the code that are requests and rows.                         *)
LEMMA IdleFacts ==
  /\ Idle \in Request /\ RequestOK(Idle)
  /\ Idle.at = "idle" /\ Idle.idx = 0 /\ Idle.row = Blank /\ Idle.place = 0
  BY StoreAssumption DEF Idle, Request, RequestOK, Holding

(* Request r is at q now, the others where they were.                      *)
Turns(r, q) ==
  /\ q \in Request /\ RequestOK(q) /\ req' \in [Requests -> Request] /\ req'[r] = q
  /\ \A s \in Requests : s # r => req'[s] = req[s]

(* A request that is given another record has turned to it.                *)
LEMMA TurnsStep ==
  ASSUME req \in [Requests -> Request], NEW r \in Requests, NEW q \in Request, RequestOK(q),
         req' = [req EXCEPT ![r] = q]
  PROVE  Turns(r, q)
  BY DEF Turns

(* A step that goes on to another statement.                               *)
LEMMA GoFacts ==
  ASSUME TypesOK, NEW r \in Requests, NEW at, Go(r, at), req[r].at \in Holding,
         at \in {"place", "shift", "upsert", "renumber"}
  PROVE  \E q : /\ Turns(r, q) /\ q.at = at /\ q.idx = req[r].idx /\ q.row = req[r].row
                /\ q.from = req[r].from
  <1> DEFINE q == [req[r] EXCEPT !.at = at]
  <1>1. req \in [Requests -> Request] /\ req[r] \in Request /\ RequestOK(req[r])
    BY DEF TypesOK
  <1>2. /\ q \in Request /\ q.at = at /\ q.idx = req[r].idx /\ q.row = req[r].row
        /\ q.from = req[r].from
    BY <1>1 DEF Request, Holding
  <1>3. req' = [req EXCEPT ![r] = q]
    BY <1>1 DEF Go
  <1> HIDE DEF q
  <1>4. RequestOK(q)
    BY <1>1, <1>2 DEF RequestOK, Holding
  <1> QED
    BY <1>1, <1>2, <1>3, <1>4, TurnsStep

(* A request that is over, with or without an answer.                      *)
LEMMA EndFacts ==
  ASSUME TypesOK, NEW r \in Requests, End(r)
  PROVE  Turns(r, Idle)
  BY IdleFacts, TurnsStep DEF TypesOK, End

(* What a request that arrives is told, and when requests have overlapped. *)
Arrives(r, q) ==
  /\ Turns(r, q) /\ req[r] = Idle
  /\ mixed' = (mixed \/ ~Quiet)
  /\ UNCHANGED <<rows, files, calls, uploaded, home, deleted>>

(* What is asked for leaves the tables, and the history but the counters.  *)
LEMMA AskFrame ==
  ASSUME NEW r, Ask(r)
  PROVE  UNCHANGED <<rows, files, calls, home, deleted, faults>>
  <1>1. ASSUME NEW q, Begin(r, q)
        PROVE  UNCHANGED <<rows, files, calls, home, deleted, faults>>
    BY <1>1 DEF Begin
  <1>2. ASSUME NEW sound, AskAdd(r, sound)
        PROVE  \E q : Begin(r, q)
    BY <1>2 DEF AskAdd
  <1>3. ASSUME NEW i, NEW sound, AskSave(r, i, sound)
        PROVE  \E q : Begin(r, q)
    BY <1>3 DEF AskSave
  <1>4. ASSUME NEW i, NEW k, AskMove(r, i, k)
        PROVE  \E q : Begin(r, q)
    BY <1>4 DEF AskMove
  <1>5. ASSUME NEW i, AskDelete(r, i)
        PROVE  \E q : Begin(r, q)
    BY <1>5 DEF AskDelete
  <1>6. \E q : Begin(r, q)
    BY <1>2, <1>3, <1>4, <1>5, Zenon DEF Ask
  <1> QED
    BY <1>1, <1>6

(* A request that takes a step is under way, and mixes with no other.      *)
LEMMA StepFrame ==
  ASSUME NEW r, Step(r)
  PROVE  req[r].at # "idle" /\ mixed' = mixed /\ faults' = faults
  <1>1. CASE Load(r)
    BY <1>1 DEF Load, histVars
  <1>2. CASE SoundFile(r)
    BY <1>2 DEF SoundFile
  <1>3. CASE ReadPosition(r)
    BY <1>3 DEF ReadPosition, histVars
  <1>4. CASE Shift(r)
    BY <1>4 DEF Shift, histVars
  <1>5. CASE Upsert(r)
    BY <1>5 DEF Upsert, histVars
  <1>6. CASE Delete(r)
    BY <1>6 DEF Delete, histVars
  <1>7. CASE Renumber(r)
    BY <1>7 DEF Renumber, histVars
  <1> QED
    BY <1>1, <1>2, <1>3, <1>4, <1>5, <1>6, <1>7 DEF Step

(* A new trigger's request arrives with a trigger that has had no row.     *)
LEMMA AskAddFacts ==
  ASSUME TypesOK, NEW r \in Requests, NEW sound \in {"upload", "keep"}, AskAdd(r, sound)
  PROVE  /\ created' = created + 1 /\ created' \in Idx
         /\ \E q : /\ Arrives(r, q) /\ q.at = "file" /\ q.idx = 0
                   /\ q.row = [Blank EXCEPT !.trigger = created']
  <1> DEFINE row == [Blank EXCEPT !.trigger = created']
             q == [Idle EXCEPT !.at = "file", !.op = "add", !.sound = sound, !.row = row]
  <1>1. created' = created + 1 /\ created' \in Idx
    BY StoreAssumption DEF AskAdd, TypesOK, Idx
  <1>2. row \in Row
    BY <1>1, StoreAssumption DEF Row, Blank, Idx
  <1>3. /\ q \in Request /\ q.at = "file" /\ q.idx = 0 /\ q.row = row
    <2> HIDE DEF row
    <2> QED
      BY <1>2, IdleFacts DEF Request, Holding
  <1>4. Begin(r, q)
    BY DEF AskAdd
  <1> HIDE DEF q, row
  <1>5. RequestOK(q)
    BY <1>2, <1>3 DEF RequestOK, Holding
  <1>6. Arrives(r, q)
    BY <1>3, <1>4, <1>5, TurnsStep DEF Begin, Arrives, TypesOK
  <1> QED
    BY <1>1, <1>3, <1>6 DEF row

(* The requests about a row that should be there.                          *)
Names(r, i) ==
  \E q : Arrives(r, q) /\ q.at \in {"load", "delete"} /\ q.idx = i /\ q.row = Blank

(* Any other request arrives with the idx it is about, and nothing else.   *)
LEMMA AskFacts ==
  ASSUME TypesOK, NEW r \in Requests, NEW i \in Idx,
         \/ \E sound \in {"upload", "keep", "clear"} : AskSave(r, i, sound)
         \/ \E k \in Idx : AskMove(r, i, k)
         \/ AskDelete(r, i)
  PROVE  Names(r, i) /\ created' = created
  <1>1. SUFFICES ASSUME NEW q \in Request, q.at \in {"load", "delete"}, q.idx = i, q.row = Blank,
                        q.place \in Nat, Begin(r, q)
                 PROVE  Names(r, i)
    <2> DEFINE save(sound) == [Idle EXCEPT !.at = "load", !.op = "keep", !.idx = i, !.sound = sound]
               move(k) == [Idle EXCEPT !.at = "load", !.op = "move", !.idx = i, !.place = k]
               delete == [Idle EXCEPT !.at = "delete", !.op = "delete", !.idx = i]
    <2>1. i \in 0 .. MaxTriggers /\ \A k \in Idx : k \in Nat /\ k \in Int
      BY StoreAssumption DEF Idx
    <2>2. CASE \E sound \in {"upload", "keep", "clear"} : AskSave(r, i, sound)
      <3>1. PICK sound \in {"upload", "keep", "clear"} : Begin(r, save(sound)) /\ created' = created
        BY <2>2 DEF AskSave
      <3>2. /\ save(sound) \in Request /\ save(sound).at = "load" /\ save(sound).idx = i
            /\ save(sound).row = Blank
        BY <2>1, IdleFacts DEF Request, Holding
      <3>3. save(sound).place \in Nat
        BY IdleFacts DEF Request
      <3> HIDE DEF save
      <3> QED
        BY <1>1, <3>1, <3>2, <3>3
    <2>3. CASE \E k \in Idx : AskMove(r, i, k)
      <3>1. PICK k \in Idx : Begin(r, move(k)) /\ created' = created
        BY <2>3 DEF AskMove
      <3>2. /\ move(k) \in Request /\ move(k).at = "load" /\ move(k).idx = i
            /\ move(k).row = Blank
        BY <2>1, IdleFacts DEF Request, Holding
      <3>3. move(k).place \in Nat
        BY <2>1, IdleFacts DEF Request
      <3> HIDE DEF move
      <3> QED
        BY <1>1, <3>1, <3>2, <3>3
    <2>4. CASE AskDelete(r, i)
      <3>1. Begin(r, delete) /\ created' = created
        BY <2>4 DEF AskDelete
      <3>2. /\ delete \in Request /\ delete.at = "delete" /\ delete.idx = i
            /\ delete.row = Blank
        BY <2>1, IdleFacts DEF Request, Holding
      <3>3. delete.place \in Nat
        BY IdleFacts DEF Request
      <3> HIDE DEF delete
      <3> QED
        BY <1>1, <3>1, <3>2, <3>3
    <2> QED
      BY <2>2, <2>3, <2>4
  <1>2. RequestOK(q)
    BY <1>1 DEF RequestOK, Holding, Idx
  <1>3. Arrives(r, q)
    BY <1>1, <1>2, TurnsStep DEF Begin, Arrives, TypesOK
  <1> QED
    BY <1>1, <1>3 DEF Names

(* A row is read into the hands of its request, or the request is over.    *)
Loaded(r, q) ==
  LET i == req[r].idx
  IN  /\ Turns(r, q) /\ q.at \in {"file", "place"} /\ q.idx = i /\ q.row \in Row
      /\ q.row.trigger = rows[i].trigger /\ q.row.status = rows[i].status
      /\ q.row.sound = rows[i].sound
      /\ q.row.position \in {rows[i].position, req[r].place}

(* A load ends the request, or leaves it with the row as it is now.        *)
LEMMA LoadFacts ==
  ASSUME TypesOK, NEW r \in Requests, Load(r)
  PROVE  \/ req[r].idx \notin DOMAIN rows /\ Turns(r, Idle)
         \/ req[r].idx \in DOMAIN rows /\ \E q : Loaded(r, q)
  <1> DEFINE i == req[r].idx
             row == IF req[r].op = "move" THEN [rows[i] EXCEPT !.position = req[r].place] ELSE rows[i]
             q == IF req[r].op = "move" THEN [req[r] EXCEPT !.at = "place", !.row = row]
                  ELSE [req[r] EXCEPT !.at = "file", !.row = row, !.place = rows[i].position]
  <1>1. /\ req \in [Requests -> Request] /\ req[r] \in Request /\ RequestOK(req[r])
        /\ req[r].at = "load" /\ i # 0
    BY DEF Load, TypesOK, RequestOK
  <1>2. CASE i \notin DOMAIN rows
    BY <1>2, EndFacts DEF Load
  <1>3. ASSUME i \in DOMAIN rows
        PROVE  /\ req' = [req EXCEPT ![r] = q]
               /\ row \in Row /\ row.trigger = rows[i].trigger /\ row.status = rows[i].status
               /\ row.sound = rows[i].sound
               /\ row.position = rows[i].position \/ row.position = req[r].place
    <2>1. rows[i] \in Row /\ req[r].place \in Int
      BY <1>1, <1>3 DEF TypesOK, TypeOK, Request
    <2>2. req' = [req EXCEPT ![r] = q]
      BY <1>1, <1>3 DEF Load
    <2> QED
      BY <2>1, <2>2 DEF Row
  <1>4. ASSUME i \in DOMAIN rows
        PROVE  /\ q \in Request /\ q.at \in {"file", "place"} /\ q.idx = i /\ q.row = row
    <2>1. row \in Row /\ rows[i] \in Row /\ rows[i].position \in Int
      BY <1>3, <1>4 DEF TypesOK, TypeOK, Row
    <2> HIDE DEF row
    <2> QED
      BY <1>1, <2>1 DEF Request, Holding
  <1> HIDE DEF q, row
  <1> QED
    <2> SUFFICES ASSUME i \in DOMAIN rows
                 PROVE  \E p : Loaded(r, p)
      BY <1>1, <1>2
    <2>1. RequestOK(q)
      BY <1>3, <1>4 DEF RequestOK, Holding
    <2> QED
      BY <1>1, <1>3, <1>4, <2>1, TurnsStep DEF Loaded

(* The row that is deleted.                                                *)
LEMMA DeleteGoes ==
  ASSUME TypesOK, NEW r \in Requests, Delete(r)
  PROVE  \E q : Turns(r, q) /\ q.at = "renumber" /\ q.idx = req[r].idx /\ q.row = req[r].row
  <1> DEFINE q == [req[r] EXCEPT !.at = "renumber"]
  <1>1. req \in [Requests -> Request] /\ req[r] \in Request /\ RequestOK(req[r])
    BY DEF TypesOK
  <1>2. q \in Request /\ q.at = "renumber" /\ q.idx = req[r].idx /\ q.row = req[r].row
    BY <1>1 DEF Request, Holding
  <1>3. req' = [req EXCEPT ![r] = q]
    BY <1>1 DEF Delete, Go
  <1> HIDE DEF q
  <1>4. RequestOK(q)
    BY <1>2 DEF RequestOK, Holding
  <1> QED
    BY <1>1, <1>2, <1>3, <1>4, TurnsStep

(* What becomes of the sound file: an upload, the old one, or none.        *)
Filing(r, q) ==
  LET old  == req[r].row.sound
      name == IF old # 0 THEN old ELSE uploaded + 1
  IN
  \/ /\ q.row.sound \in {0, name}
     /\ uploaded' = IF old # 0 THEN uploaded ELSE uploaded + 1
     /\ files' = IF q.row.sound # 0 THEN files \cup {name} ELSE files
  \/ q.row.sound = old /\ UNCHANGED <<files, uploaded>>
  \/ q.row.sound = 0 /\ files' = files \ {old} /\ UNCHANGED uploaded

(* The row with its sound file, all else as it was.                        *)
Sounding(r, q, sound) ==
  /\ Turns(r, q) /\ q.at = "place" /\ q.idx = req[r].idx
  /\ q.row \in Row /\ q.row.trigger = req[r].row.trigger
  /\ q.row.status = req[r].row.status /\ q.row.position = req[r].row.position
  /\ q.row.sound = sound

(* What the sound file does to the row in hand and to the files: every     *)
(* branch, and a copy that fails.                                          *)
LEMMA SoundFileFacts ==
  ASSUME TypesOK, NEW r \in Requests, SoundFile(r)
  PROVE  \E q : Sounding(r, q, q.row.sound) /\ Filing(r, q)
  <1> DEFINE old == req[r].row.sound
             name == IF old # 0 THEN old ELSE uploaded + 1
  <1>1. /\ req \in [Requests -> Request] /\ req[r] \in Request /\ RequestOK(req[r])
        /\ req[r].at = "file" /\ req[r].row \in Row
    BY DEF SoundFile, TypesOK, RequestOK, Holding
  <1>2. uploaded \in Nat /\ old \in Nat /\ name \in Nat
    BY <1>1 DEF TypesOK, Row
  <1>3. ASSUME NEW written \in Nat,
               req' = [req EXCEPT ![r].at = "place", ![r].row.sound = written]
        PROVE  \E q : Sounding(r, q, written)
    <2> DEFINE row == [req[r].row EXCEPT !.sound = written]
               q == [req[r] EXCEPT !.at = "place", !.row = row]
    <2>1. /\ row \in Row /\ row.trigger = req[r].row.trigger /\ row.status = req[r].row.status
          /\ row.position = req[r].row.position /\ row.sound = written
      BY <1>1 DEF Row
    <2>2. req' = [req EXCEPT ![r] = q]
      BY <1>1, <1>3 DEF Request
    <2> HIDE DEF row
    <2>3. q \in Request /\ q.at = "place" /\ q.idx = req[r].idx /\ q.row = row
      BY <1>1, <2>1 DEF Request, Holding
    <2> HIDE DEF q
    <2>4. RequestOK(q)
      BY <2>1, <2>3 DEF RequestOK, Holding
    <2> QED
      BY <1>1, <2>1, <2>2, <2>3, <2>4, TurnsStep DEF Sounding
  <1>4. CASE req[r].sound = "upload"
    <2>1. PICK written \in {0, name} :
            /\ req' = [req EXCEPT ![r].at = "place", ![r].row.sound = written]
            /\ uploaded' = IF old # 0 THEN uploaded ELSE uploaded + 1
            /\ files' = IF written # 0 THEN files \cup {name} ELSE files
      BY <1>4 DEF SoundFile
    <2>2. PICK q : Sounding(r, q, written)
      BY <1>2, <1>3, <2>1
    <2>3. q.row.sound = written
      BY <2>2 DEF Sounding
    <2> QED
      BY <2>1, <2>2, <2>3 DEF Filing
  <1>5. CASE req[r].sound = "keep"
    <2>1. Go(r, "place") /\ UNCHANGED <<files, uploaded>>
      BY <1>5 DEF SoundFile
    <2> QED
      BY <1>1, <2>1, GoFacts DEF Filing, Holding, Sounding
  <1>6. CASE req[r].sound = "clear"
    <2>1. /\ req' = [req EXCEPT ![r].at = "place", ![r].row.sound = 0]
          /\ files' = files \ {old} /\ UNCHANGED uploaded
      BY <1>6 DEF SoundFile
    <2>2. PICK q : Sounding(r, q, 0)
      BY <1>3, <2>1
    <2>3. q.row.sound = 0
      BY <2>2 DEF Sounding
    <2> QED
      BY <2>1, <2>2, <2>3 DEF Filing
  <1> QED
    BY <1>4, <1>5, <1>6 DEF SoundFile

(* What the row's position is found to be.                                 *)
LEMMA ReadPositionFacts ==
  ASSUME TypesOK, NEW r \in Requests, ReadPosition(r)
  PROVE  LET i == req[r].idx
         IN  \/ i # 0 /\ i \notin DOMAIN rows /\ Turns(r, Idle)
             \/ \E q : /\ Turns(r, q) /\ q.idx = i /\ q.row = req[r].row
                       /\ \/ q.at = "shift" /\ (i # 0 => i \in DOMAIN rows /\ q.from = rows[i].position)
                          \/ q.at = "upsert" /\ i \in DOMAIN rows /\ rows[i].position = q.row.position
  <1> DEFINE i == req[r].idx
             q == [req[r] EXCEPT !.at = "shift", !.from = rows[i].position]
  <1>1. /\ req \in [Requests -> Request] /\ req[r] \in Request /\ RequestOK(req[r])
        /\ req[r].at = "place" /\ req[r].row \in Row
    BY DEF ReadPosition, TypesOK, RequestOK, Holding
  <1>2. CASE i = 0
    <2>1. Go(r, "shift")
      BY <1>2 DEF ReadPosition
    <2> QED
      BY <1>1, <1>2, <2>1, GoFacts DEF Holding
  <1>3. CASE i # 0 /\ i \notin DOMAIN rows
    BY <1>3, EndFacts DEF ReadPosition
  <1>4. CASE i # 0 /\ i \in DOMAIN rows /\ rows[i].position = req[r].row.position
    <2>1. Go(r, "upsert")
      BY <1>4 DEF ReadPosition
    <2> QED
      BY <1>1, <1>4, <2>1, GoFacts DEF Holding
  <1>5. CASE i # 0 /\ i \in DOMAIN rows /\ rows[i].position # req[r].row.position
    <2>1. rows[i].position \in Int
      BY <1>5 DEF TypesOK, TypeOK, Row
    <2>2. /\ q \in Request /\ q.at = "shift" /\ q.idx = i /\ q.row = req[r].row
          /\ q.from = rows[i].position
      BY <1>1, <2>1 DEF Request, Holding
    <2>3. req' = [req EXCEPT ![r] = q]
      BY <1>1, <1>5 DEF ReadPosition, Request
    <2> HIDE DEF q
    <2>4. RequestOK(q)
      BY <1>1, <2>2 DEF RequestOK, Holding
    <2> QED
      BY <1>1, <1>5, <2>2, <2>3, <2>4, TurnsStep
  <1> QED
    BY <1>2, <1>3, <1>4, <1>5

----------------------------------------------------------------------------
(* The statements that give rows another position change nothing else.     *)
OnlyMoved(t) ==
  /\ t \in [DOMAIN rows -> Row]
  /\ \A i \in DOMAIN rows : /\ t[i].trigger = rows[i].trigger /\ t[i].status = rows[i].status
                            /\ t[i].sound = rows[i].sound

(* The table is finite, a function from idx to rows.                       *)
LEMMA TableFacts ==
  ASSUME TypesOK
  PROVE  /\ DOMAIN rows \in SUBSET (1 .. MaxTriggers) /\ MaxTriggers \in Nat
         /\ IsFiniteSet(DOMAIN rows) /\ rows \in [DOMAIN rows -> Row]
  <1>1. DOMAIN rows \in SUBSET (1 .. MaxTriggers) /\ MaxTriggers \in Nat
    BY StoreAssumption DEF TypesOK, TypeOK, Idx
  <1>2. rows \in [DOMAIN rows -> Row]
    <2>1. rows = [i \in DOMAIN rows |-> rows[i]] /\ \A i \in DOMAIN rows : rows[i] \in Row
      BY DEF TypesOK, TypeOK
    <2> QED
      BY <2>1
  <1> QED
    BY <1>1, <1>2, Enumeration

(* A table whose rows differ in nothing but their positions.               *)
LEMMA MovedFacts ==
  ASSUME TypesOK, NEW t \in [DOMAIN rows -> Row],
         \A i \in DOMAIN rows : t[i] = rows[i] \/ \E p : t[i] = [rows[i] EXCEPT !.position = p]
  PROVE  OnlyMoved(t)
  BY TableFacts DEF OnlyMoved, Row

(* An UPDATE that makes room moves rows only.                              *)
LEMMA ShiftFacts ==
  ASSUME TypesOK, NEW r \in Requests, Shift(r)
  PROVE  /\ OnlyMoved(rows')
         /\ \E q : Turns(r, q) /\ q.at = "upsert" /\ q.idx = req[r].idx /\ q.row = req[r].row
  <1> DEFINE i == req[r].idx
             new == req[r].row.position
             old == req[r].from
             top == Highest(rows, new)
  <1>1. /\ req[r] \in Request /\ RequestOK(req[r]) /\ req[r].at = "shift" /\ req[r].row \in Row
    BY DEF Shift, TypesOK, RequestOK, Holding
  <1>2. new \in Int /\ old \in Int
    BY <1>1 DEF Request, Row
  <1>3. top \in Int
    <2> HIDE DEF new
    <2> QED
      BY <1>2, TableFacts, RowPositions, MaxOfPositions
  <1>4. PICK lo \in Int, hi \in Int, d \in Int, but \in {0, i} : rows' = Shifted(rows, lo, hi, d, but)
    <2>1. rows' = IF i = 0 THEN Shifted(rows, new, top, 1, 0)
                  ELSE IF new < old THEN Shifted(rows, new, old, 1, i)
                  ELSE Shifted(rows, old, new, -1, i)
      BY DEF Shift
    <2>2. 1 \in Int /\ -1 \in Int
      OBVIOUS
    <2> HIDE DEF new, old, top, i
    <2> QED
      BY <1>2, <1>3, <2>1, <2>2
  <1>5. rows' \in [DOMAIN rows -> Row] /\ MovedBy(rows, rows', lo, hi, d, but)
    BY <1>4, TableFacts, RowPositions, ShiftedRows
  <1>6. OnlyMoved(rows')
    BY <1>5, MovedFacts DEF MovedBy
  <1>7. Go(r, "upsert")
    BY DEF Shift
  <1> QED
    BY <1>1, <1>6, <1>7, GoFacts DEF Holding

(* The renumbering moves rows only, and makes the positions dense if the   *)
(* order of the table is one it can tell.                                  *)
LEMMA RenumberFacts ==
  ASSUME TypesOK, NEW r \in Requests, Renumber(r)
  PROVE  OnlyMoved(rows') /\ Turns(r, Idle) /\ (Renumberable(rows) => Dense(rows'))
  <1>1. rows' = Renumbered(rows) /\ End(r)
    BY DEF Renumber
  <1>2. /\ Renumbered(rows) \in [DOMAIN rows -> Row]
        /\ \A i \in DOMAIN rows : Renumbered(rows)[i] =
             [rows[i] EXCEPT !.position = PlaceOf(rows, Renumbered(rows), i)]
    BY TableFacts, RowPositions, RenumberedRows
  <1>3. OnlyMoved(rows')
    BY <1>1, <1>2, MovedFacts
  <1>4. Renumberable(rows) => Dense(rows')
    BY <1>1, TableFacts, RowPositions, RenumberedDense
  <1> QED
    BY <1>1, <1>3, <1>4, EndFacts

(* What an answer writes: the status of the row that has the idx now.      *)
LEMMA AnsweredFacts ==
  ASSUME TypesOK, NEW c \in calls, WebhookAnswered(c)
  PROVE  /\ rows' \in [DOMAIN rows -> Row]
         /\ \A i \in DOMAIN rows :
              /\ rows'[i].trigger = rows[i].trigger /\ rows'[i].position = rows[i].position
              /\ rows'[i].sound = rows[i].sound
              /\ rows'[i].status = rows[i].status \/ (i = c.idx /\ rows'[i].status = c.trigger)
  <1>1. rows \in [DOMAIN rows -> Row] /\ \A i \in DOMAIN rows : rows[i] \in Row
    BY TableFacts
  <1>2. c.trigger \in 0 .. MaxTriggers
    BY StoreAssumption DEF TypesOK, TypeOK, Idx
  <1>3. CASE UNCHANGED rows
    BY <1>1, <1>3
  <1>4. CASE rows' = [i \in DOMAIN rows |->
                        IF i = c.idx THEN [rows[i] EXCEPT !.status = c.trigger] ELSE rows[i]]
    <2>1. ASSUME NEW i \in DOMAIN rows
          PROVE  LET row == [rows[i] EXCEPT !.status = c.trigger]
                 IN  /\ row \in Row /\ row.trigger = rows[i].trigger /\ row.sound = rows[i].sound
                     /\ row.position = rows[i].position /\ row.status = c.trigger
      BY <1>1, <1>2, <2>1 DEF Row
    <2>2. ASSUME NEW i \in DOMAIN rows
          PROVE  rows'[i] = IF i = c.idx THEN [rows[i] EXCEPT !.status = c.trigger] ELSE rows[i]
      BY <1>4
    <2>3. rows' = [i \in DOMAIN rows |-> rows'[i]]
      BY <1>4
    <2>4. \A i \in DOMAIN rows : rows'[i] \in Row
      BY <1>1, <2>1, <2>2
    <2>5. rows' \in [DOMAIN rows -> Row]
      BY <2>3, <2>4
    <2>6. ASSUME NEW i \in DOMAIN rows
          PROVE  /\ rows'[i].trigger = rows[i].trigger /\ rows'[i].position = rows[i].position
                 /\ rows'[i].sound = rows[i].sound
                 /\ rows'[i].status = rows[i].status \/ (i = c.idx /\ rows'[i].status = c.trigger)
      <3>1. CASE i = c.idx
        BY <2>1, <2>2, <3>1
      <3>2. CASE i # c.idx
        BY <2>2, <3>2
      <3> QED
        BY <3>1, <3>2
    <2> QED
      BY <2>5, <2>6
  <1> QED
    BY <1>3, <1>4 DEF WebhookAnswered

(* A new idx is one that the triggers ever created leave room for.         *)
LEMMA NewHome ==
  ASSUME TypesOK, HomesOK, NEW r \in Requests, req[r].at \in Holding, req[r].idx = 0
  PROVE  /\ NewIdx(rows) \in Idx /\ NewIdx(rows) \notin DOMAIN rows
         /\ Cardinality(Homed) \in Nat /\ NewIdx(rows) <= Cardinality(Homed) + 1
  <1> DEFINE m == NewIdx(rows)
             t == req[r].row.trigger
  <1>1. /\ t \in Nat /\ t \in Idx /\ t <= created /\ home[t] = 0 /\ created \in Nat
        /\ created <= MaxTriggers
    BY StoreAssumption DEF TypesOK, HomesOK, RequestHomes, RowIsOwn, RequestOK, Row, Idx
  <1>2. m \in 1 .. MaxTriggers + 1 /\ \A i \in DOMAIN rows : i < m
    BY TableFacts, NewIdxFacts
  <1>3. IsFiniteSet(Homed) /\ Cardinality(Homed) \in Nat /\ Cardinality(Homed) <= created - 1
    <2> DEFINE S == (1 .. created) \ {t}
    <2>1. ASSUME NEW u \in Homed
          PROVE  u \in S
      <3>1. u \in 1 .. MaxTriggers /\ home[u] # 0 /\ u <= created
        BY DEF Homed, HomesOK, HomeBounds, Idx
      <3> QED
        BY <1>1, <3>1, StoreAssumption
    <2>2. IsFiniteSet(S) /\ Cardinality(S) = created - 1
      <3>1. IsFiniteSet(1 .. created) /\ Cardinality(1 .. created) = created /\ t \in 1 .. created
        <4>1. created \in Nat /\ t \in 1 .. created
          BY <1>1, StoreAssumption DEF Idx
        <4>2. IsFiniteSet(1 .. created)
          BY <4>1, FS_Interval
        <4>3. Cardinality(1 .. created) = created
          BY <4>1, FS_Interval
        <4> QED
          BY <4>1, <4>2, <4>3
      <3> QED
        BY <3>1, FS_RemoveElement
    <2>3. Homed \in SUBSET S
      BY <2>1
    <2> HIDE DEF S
    <2> QED
      BY <1>1, <2>2, <2>3, FS_Subset, FS_CardinalityType
  <1>4. m <= Cardinality(Homed) + 1
    <2>1. CASE DOMAIN rows = {}
      <3>1. DOMAIN rows \subseteq 1 .. 0
        BY <2>1
      <3>2. m \in 1 .. 0 + 1
        BY <3>1, NewIdxFacts
      <3> QED
        BY <1>3, <3>2
    <2>2. CASE DOMAIN rows # {}
      <3> DEFINE c == Cardinality(Homed)
      <3>1. \A i \in DOMAIN rows : i \in 1 .. c
        BY TableFacts, <1>3 DEF HomesOK, RowHomes, HomeBounds, Homed, Row
      <3>2. c \in Nat /\ DOMAIN rows \subseteq 1 .. c
        BY <1>3, <3>1
      <3> HIDE DEF c
      <3>3. m \in 1 .. c + 1
        BY <3>2, NewIdxFacts
      <3> QED
        BY <3>2, <3>3 DEF c
    <2> QED
      BY <2>1, <2>2
  <1>5. m \in Idx /\ m \notin DOMAIN rows
    BY <1>1, <1>2, <1>3, <1>4, StoreAssumption DEF Idx
  <1> QED
    BY <1>3, <1>4, <1>5

----------------------------------------------------------------------------
(* The types, in the parts that one action or another disturbs.            *)
TableTypes == DOMAIN rows \subseteq Idx /\ rows \in [DOMAIN rows -> Row]
RequestTypes == req \in [Requests -> Request] /\ \A r \in Requests : RequestOK(req[r])
FileTypes == files \subseteq 1 .. uploaded /\ uploaded \in Nat /\ NamesOK
OtherTypes ==
  /\ calls \subseteq [idx : Idx, trigger : Idx] /\ home \in [Idx -> 0 .. MaxTriggers]
  /\ deleted \subseteq 1 .. created /\ deleted \subseteq Homed /\ mixed \in BOOLEAN
  /\ created \in 0 .. MaxTriggers

(* TypesOK in parts, for the steps that touch one of them.                 *)
LEMMA TypesParts ==
  TypesOK <=> TableTypes /\ RequestTypes /\ FileTypes /\ OtherTypes
  <1>1. ASSUME TypesOK
        PROVE  TableTypes /\ RequestTypes /\ FileTypes /\ OtherTypes
    BY <1>1, TableFacts
       DEF TypesOK, TypeOK, TableTypes, RequestTypes, FileTypes, OtherTypes
  <1>2. ASSUME TableTypes, RequestTypes, FileTypes, OtherTypes
        PROVE  TypesOK
    <2>1. \A r \in Requests : req[r].idx \in 0 .. MaxTriggers /\ req[r].row \in Row \cup {Blank}
      BY <1>2 DEF RequestTypes, Request
    <2>2. rows = [i \in DOMAIN rows |-> rows[i]] /\ \A i \in DOMAIN rows : rows[i] \in Row
      BY <1>2 DEF TableTypes
    <2> QED
      BY <1>2, <2>1, <2>2
         DEF TypesOK, TypeOK, TableTypes, RequestTypes, FileTypes, OtherTypes
  <1> QED
    BY <1>1, <1>2

(* A request that turns to another record keeps the others' types.         *)
LEMMA TurnsTypes ==
  ASSUME RequestTypes, NEW r \in Requests, NEW q, Turns(r, q)
  PROVE  RequestTypes'
  BY DEF RequestTypes, Turns, RequestOK

(* A trigger that is given its home.                                       *)
LEMMA HomeFacts ==
  ASSUME TypesOK, NEW t \in Idx, NEW i \in Idx,
         home' = [home EXCEPT ![t] = IF @ = 0 THEN i ELSE @]
  PROVE  /\ home' \in [Idx -> 0 .. MaxTriggers]
         /\ home'[t] = IF home[t] = 0 THEN i ELSE home[t]
         /\ \A u \in Idx : u # t => home'[u] = home[u]
         /\ Homed' = Homed \cup {t}
  <1>1. home \in [Idx -> 0 .. MaxTriggers] /\ i \in 0 .. MaxTriggers /\ i # 0
    BY StoreAssumption DEF TypesOK, TypeOK, Idx
  <1>2. /\ home' \in [Idx -> 0 .. MaxTriggers]
        /\ home'[t] = IF home[t] = 0 THEN i ELSE home[t]
        /\ \A u \in Idx : u # t => home'[u] = home[u]
    BY <1>1
  <1>3. \A u \in Idx : home'[u] # 0 <=> home[u] # 0 \/ u = t
    BY <1>1, <1>2
  <1> QED
    BY <1>2, <1>3 DEF Homed

(* Upsert, seen from the table: at i, a new idx for a new trigger.         *)
LEMMA UpsertFacts ==
  ASSUME TypesOK, HomesOK, NEW r \in Requests, Upsert(r)
  PROVE  LET i == Target(req[r])
             row == req[r].row
         IN  /\ i \in Idx /\ row \in Row /\ rows' = With(rows, i, row)
             /\ home' = [home EXCEPT ![row.trigger] = IF @ = 0 THEN i ELSE @]
             /\ home'[row.trigger] = i /\ \A u \in Idx : u # row.trigger => home'[u] = home[u]
             /\ Homed' = Homed \cup {row.trigger} /\ home' \in [Idx -> 0 .. MaxTriggers]
             /\ \A u \in Homed : home'[u] = home[u]
             /\ \E q : Turns(r, q) /\ q.at = "renumber" /\ q.idx = req[r].idx /\ q.row = row
  <1> DEFINE i == Target(req[r])
             row == req[r].row
             t == row.trigger
  <1>1. /\ req[r] \in Request /\ RequestOK(req[r]) /\ req[r].at = "upsert" /\ row \in Row
        /\ req[r].at \in Holding /\ RowIsOwn(req[r])
    BY DEF Upsert, TypesOK, RequestOK, Holding, HomesOK, RequestHomes
  <1>2. t \in Idx
    BY <1>1 DEF Row
  <1>3. i \in Idx /\ (home[t] = 0 \/ home[t] = i)
    <2>1. CASE req[r].idx = 0
      BY <1>1, <2>1, NewHome DEF Target, RowIsOwn
    <2>2. CASE req[r].idx # 0
      <3>1. req[r].idx \in Idx
        BY <1>1, <2>2, StoreAssumption DEF Request, Idx
      <3> QED
        BY <1>1, <2>2, <3>1 DEF Target, RowIsOwn
    <2> QED
      BY <2>1, <2>2
  <1>4. rows' = With(rows, i, row) /\ home' = [home EXCEPT ![t] = IF @ = 0 THEN i ELSE @]
    BY DEF Upsert, Target
  <1>5. \E q : Turns(r, q) /\ q.at = "renumber" /\ q.idx = req[r].idx /\ q.row = row
    BY <1>1, GoFacts DEF Upsert
  <1> HIDE DEF i, row, t
  <1>6. /\ home' \in [Idx -> 0 .. MaxTriggers]
        /\ home'[t] = IF home[t] = 0 THEN i ELSE home[t]
        /\ \A u \in Idx : u # t => home'[u] = home[u]
        /\ Homed' = Homed \cup {t}
    BY <1>2, <1>3, <1>4, HomeFacts
  <1>7. home'[t] = i /\ \A u \in Homed : u \in Idx /\ home[u] # 0 /\ home'[u] = home[u]
    BY <1>3, <1>6 DEF Homed
  <1> QED
    BY <1>1, <1>3, <1>4, <1>5, <1>6, <1>7 DEF i, row, t

----------------------------------------------------------------------------
AllTypes == TableTypes /\ RequestTypes /\ FileTypes /\ OtherTypes

(* A step of a request that writes neither row nor file.                   *)
LEMMA QuietTypes ==
  ASSUME AllTypes, NEW r \in Requests, NEW q, Turns(r, q), q.row.sound <= uploaded,
         UNCHANGED <<rows, files, calls, uploaded, home>>,
         OtherTypes'
  PROVE  AllTypes'
  <1>1. RequestTypes'
    BY TurnsTypes DEF AllTypes
  <1>2. \A s \in Requests : req'[s].row.sound <= uploaded'
    BY DEF AllTypes, FileTypes, NamesOK, Turns
  <1> QED
    BY <1>1, <1>2 DEF AllTypes, TableTypes, FileTypes, NamesOK

(* A step that changes a table and no file.                                *)
LEMMA MovedTypes ==
  ASSUME AllTypes, OnlyMoved(rows'), UNCHANGED uploaded
  PROVE  TableTypes' /\ \A i \in DOMAIN rows' : rows'[i].sound <= uploaded'
  BY DEF AllTypes, TableTypes, FileTypes, NamesOK, OnlyMoved

(* Every step keeps the types.                                             *)
LEMMA TypesStep ==
  ASSUME TypesOK, HomesOK, [Next]_vars
  PROVE  TypesOK'
  <1>1. AllTypes
    BY TypesParts DEF AllTypes
  <1>2. SUFFICES AllTypes'
    BY TypesParts, PTL DEF AllTypes
  <1>a. \A r \in Requests : req[r].row.sound <= uploaded
    BY <1>1 DEF AllTypes, FileTypes, NamesOK
  <1>b. Idle.row.sound = 0 /\ Blank.sound = 0 /\ uploaded \in Nat /\ 0 <= uploaded
    BY <1>1, IdleFacts DEF Blank, AllTypes, FileTypes
  <1>3. ASSUME NEW r \in Requests, NEW sound \in {"upload", "keep"}, AskAdd(r, sound)
        PROVE  AllTypes'
    <2>1. PICK q : Arrives(r, q) /\ q.row = [Blank EXCEPT !.trigger = created']
      BY <1>3, AskAddFacts
    <2>2. created' = created + 1 /\ created' \in Idx /\ created \in Nat
      BY <1>1, <1>3, AskAddFacts, StoreAssumption DEF AllTypes, OtherTypes
    <2>3. Homed' = Homed /\ deleted' \subseteq 1 .. created'
      BY <1>1, <2>1, <2>2 DEF Arrives, Homed, AllTypes, OtherTypes
    <2>4. created' \in 0 .. MaxTriggers
      BY <2>2, StoreAssumption DEF Idx
    <2>5. OtherTypes'
      BY <1>1, <2>1, <2>3, <2>4 DEF Arrives, AllTypes, OtherTypes
    <2>6. q.row.sound <= uploaded
      BY <1>b, <2>1 DEF Blank
    <2> QED
      BY <1>1, <2>1, <2>5, <2>6, QuietTypes DEF Arrives
  <1>4. ASSUME NEW r \in Requests, NEW i \in Idx,
               \/ \E sound \in {"upload", "keep", "clear"} : AskSave(r, i, sound)
               \/ \E k \in Idx : AskMove(r, i, k)
               \/ AskDelete(r, i)
        PROVE  AllTypes'
    <2>1. PICK q : Arrives(r, q) /\ q.row = Blank
      BY <1>4, AskFacts DEF Names
    <2>2. created' = created
      BY <1>4, AskFacts
    <2>3. OtherTypes'
      BY <1>1, <2>1, <2>2 DEF Arrives, AllTypes, OtherTypes, Homed
    <2> QED
      BY <1>1, <1>b, <2>1, <2>3, QuietTypes DEF Arrives
  <1>5. ASSUME NEW r \in Requests, NEW q, Turns(r, q), q.row.sound <= uploaded,
               UNCHANGED <<rows, files, calls, created, uploaded, home, deleted>>,
               mixed' \in BOOLEAN
        PROVE  AllTypes'
    <2>1. OtherTypes'
      BY <1>1, <1>5 DEF AllTypes, OtherTypes, Homed
    <2> QED
      BY <1>1, <1>5, <2>1, QuietTypes
  <1>6. ASSUME NEW r \in Requests, Load(r)
        PROVE  AllTypes'
    <2>1. UNCHANGED <<rows, files, calls, created, uploaded, home, deleted, mixed>>
      BY <1>6 DEF Load, histVars
    <2>2. PICK q : Turns(r, q) /\ (q = Idle \/ (req[r].idx \in DOMAIN rows /\ Loaded(r, q)))
      BY <1>6, LoadFacts DEF Loaded
    <2>3. q.row.sound <= uploaded
      BY <1>1, <1>b, <2>2 DEF Loaded, AllTypes, FileTypes, NamesOK
    <2> QED
      BY <1>1, <1>5, <2>1, <2>2, <2>3 DEF AllTypes, OtherTypes
  <1>7. ASSUME NEW r \in Requests, SoundFile(r)
        PROVE  AllTypes'
    <2>1. PICK q : Sounding(r, q, q.row.sound) /\ Filing(r, q)
      BY <1>7, SoundFileFacts
    <2>2. UNCHANGED <<rows, calls, created, home, deleted, mixed>>
      BY <1>7 DEF SoundFile
    <2>3. /\ uploaded' \in Nat /\ uploaded <= uploaded' /\ q.row.sound \in Nat
          /\ q.row.sound <= uploaded' /\ files' \subseteq files \cup {q.row.sound}
          /\ q.row.sound = 0 => files' \subseteq files
      <3> DEFINE old == req[r].row.sound
      <3>1. old \in Nat /\ old <= uploaded /\ uploaded \in Nat
        BY <1>7, <1>1, <1>a DEF AllTypes, FileTypes, RequestTypes, RequestOK, SoundFile, Holding, Row
      <3> QED
        BY <2>1, <3>1 DEF Filing
    <2>4. FileTypes'
      <3>1. files' \subseteq 1 .. uploaded'
        BY <1>1, <2>3 DEF AllTypes, FileTypes
      <3>2. \A i \in DOMAIN rows : rows[i].sound \in Nat /\ rows[i].sound <= uploaded
        BY <1>1 DEF AllTypes, TableTypes, FileTypes, NamesOK, Row
      <3>3. \A s \in Requests : req[s].row.sound \in Nat /\ req[s].row.sound <= uploaded
        BY <1>1, <1>a DEF AllTypes, RequestTypes, Request, Row, Blank
      <3>4. \A i \in DOMAIN rows' : rows'[i].sound <= uploaded'
        BY <1>b, <2>2, <2>3, <3>2
      <3>5. \A s \in Requests : req'[s].row.sound <= uploaded'
        BY <1>b, <2>1, <2>3, <3>3 DEF Sounding, Turns
      <3> QED
        BY <2>3, <3>1, <3>4, <3>5 DEF FileTypes, NamesOK
    <2>5. RequestTypes'
      BY <1>1, <2>1, TurnsTypes DEF AllTypes, Sounding
    <2> QED
      BY <1>1, <2>2, <2>4, <2>5 DEF AllTypes, TableTypes, OtherTypes, Homed
  <1>8. ASSUME NEW r \in Requests, ReadPosition(r)
        PROVE  AllTypes'
    <2>1. UNCHANGED <<rows, files, calls, created, uploaded, home, deleted, mixed>>
      BY <1>8 DEF ReadPosition, histVars
    <2>2. PICK q : Turns(r, q) /\ (q = Idle \/ q.row = req[r].row)
      BY <1>8, ReadPositionFacts
    <2>3. q.row.sound <= uploaded
      BY <1>a, <1>b, <2>2
    <2> QED
      BY <1>1, <1>5, <2>1, <2>2, <2>3 DEF AllTypes, OtherTypes
  <1>9. ASSUME NEW r \in Requests, NEW q, Turns(r, q), q.row.sound <= uploaded,
               OnlyMoved(rows'),
               UNCHANGED <<files, calls, created, uploaded, home, deleted, mixed>>
        PROVE  AllTypes'
    <2>1. OtherTypes' /\ RequestTypes'
      BY <1>1, <1>9, TurnsTypes DEF AllTypes, OtherTypes, Homed
    <2>2. \A s \in Requests : req'[s].row.sound <= uploaded'
      BY <1>a, <1>9 DEF Turns
    <2> QED
      BY <1>1, <1>9, <2>1, <2>2, MovedTypes DEF AllTypes, FileTypes, NamesOK
  <1>10. ASSUME NEW r \in Requests, Shift(r)
         PROVE  AllTypes'
    <2>1. UNCHANGED <<files, calls, created, uploaded, home, deleted, mixed>>
      BY <1>10 DEF Shift, histVars
    <2>2. PICK q : Turns(r, q) /\ q.row = req[r].row
      BY <1>10, ShiftFacts
    <2> QED
      BY <1>9, <1>10, <1>a, <2>1, <2>2, ShiftFacts
  <1>11. ASSUME NEW r \in Requests, Renumber(r)
         PROVE  AllTypes'
    <2>1. UNCHANGED <<files, calls, created, uploaded, home, deleted, mixed>>
      BY <1>11 DEF Renumber, histVars
    <2> QED
      BY <1>9, <1>11, <1>b, <2>1, RenumberFacts
  <1>12. ASSUME NEW r \in Requests, Upsert(r)
         PROVE  AllTypes'
    <2> DEFINE i == Target(req[r])
               row == req[r].row
    <2>1. UNCHANGED <<files, calls, created, uploaded, deleted, mixed>>
      BY <1>12 DEF Upsert
    <2>2. /\ i \in Idx /\ row \in Row /\ rows' = With(rows, i, row)
          /\ home' \in [Idx -> 0 .. MaxTriggers] /\ Homed \subseteq Homed'
      BY <1>12, UpsertFacts
    <2>3. PICK q : Turns(r, q) /\ q.row = row
      BY <1>12, UpsertFacts
    <2> HIDE DEF i, row
    <2>4. TableTypes' /\ \A j \in DOMAIN rows' : rows'[j] = row \/ (j \in DOMAIN rows /\ rows'[j] = rows[j])
      BY <1>1, <2>2 DEF AllTypes, TableTypes, With
    <2>5. row.sound <= uploaded
      BY <1>a DEF row
    <2>6. FileTypes'
      BY <1>1, <1>a, <2>1, <2>3, <2>4, <2>5 DEF AllTypes, FileTypes, NamesOK, Turns
    <2>7. RequestTypes' /\ OtherTypes'
      BY <1>1, <2>1, <2>2, <2>3, TurnsTypes DEF AllTypes, OtherTypes
    <2> QED
      BY <2>4, <2>6, <2>7 DEF AllTypes
  <1>13. ASSUME NEW r \in Requests, Delete(r)
         PROVE  AllTypes'
    <2> DEFINE i == req[r].idx
    <2>1. /\ rows' = [j \in DOMAIN rows \ {i} |-> rows[j]]
          /\ deleted' = IF i \in DOMAIN rows THEN deleted \cup {rows[i].trigger} ELSE deleted
          /\ UNCHANGED <<files, calls, created, uploaded, home, mixed>>
      BY <1>13 DEF Delete
    <2>2. PICK q : Turns(r, q) /\ q.row = req[r].row
      BY <1>13, DeleteGoes
    <2> HIDE DEF i
    <2>3. TableTypes' /\ \A j \in DOMAIN rows' : j \in DOMAIN rows /\ rows'[j] = rows[j]
      BY <1>1, <2>1 DEF AllTypes, TableTypes
    <2>4. FileTypes'
      BY <1>1, <1>a, <2>1, <2>2, <2>3 DEF AllTypes, FileTypes, NamesOK, Turns
    <2>5. i \in DOMAIN rows => rows[i].trigger \in Homed /\ rows[i].trigger \in 1 .. created
      <3>1. SUFFICES ASSUME i \in DOMAIN rows
                     PROVE  rows[i].trigger \in Homed /\ rows[i].trigger \in 1 .. created
        OBVIOUS
      <3>2. rows[i].trigger \in Idx /\ i \in Idx /\ home[rows[i].trigger] = i
        BY <1>1, <3>1 DEF AllTypes, TableTypes, HomesOK, RowHomes, Row
      <3>3. rows[i].trigger \in Homed
        BY <3>2 DEF Homed, Idx
      <3>4. rows[i].trigger <= created
        BY <3>3 DEF HomesOK, HomeBounds
      <3>5. created \in Nat
        BY <1>1, StoreAssumption DEF AllTypes, OtherTypes
      <3> QED
        BY <3>2, <3>3, <3>4, <3>5 DEF Idx
    <2>6. OtherTypes'
      <3>1. Homed' = Homed
        BY <2>1 DEF Homed
      <3> QED
        BY <1>1, <2>1, <2>5, <3>1 DEF AllTypes, OtherTypes
    <2> QED
      BY <1>1, <2>2, <2>3, <2>4, <2>6, TurnsTypes DEF AllTypes
  <1>14. ASSUME NEW r \in Requests, StatementFails(r)
         PROVE  AllTypes'
    <2>1. /\ UNCHANGED <<rows, files, calls, created, uploaded, home, deleted>>
          /\ mixed' \in BOOLEAN /\ End(r)
      BY <1>14 DEF StatementFails
    <2> QED
      BY <1>5, <1>b, <2>1, EndFacts
  <1>15. ASSUME NEW i \in Idx, CallWebhook(i)
         PROVE  AllTypes'
    <2>1. /\ i \in DOMAIN rows /\ calls' = {[idx |-> i, trigger |-> rows[i].trigger]}
          /\ UNCHANGED <<rows, files, req, histVars>>
      BY <1>15 DEF CallWebhook
    <2>2. rows[i].trigger \in Idx
      BY <1>1, <2>1 DEF AllTypes, TableTypes, Row
    <2> QED
      BY <1>1, <2>1, <2>2
         DEF histVars, AllTypes, TableTypes, RequestTypes, FileTypes, NamesOK, OtherTypes, Homed
  <1>16. ASSUME NEW c \in calls, WebhookAnswered(c)
         PROVE  AllTypes'
    <2>1. calls' = calls \ {c} /\ UNCHANGED <<files, req, histVars>>
      BY <1>16 DEF WebhookAnswered
    <2>2. rows' \in [DOMAIN rows -> Row] /\ \A i \in DOMAIN rows : rows'[i].sound = rows[i].sound
      BY <1>16, AnsweredFacts
    <2> QED
      BY <1>1, <2>1, <2>2
         DEF histVars, AllTypes, TableTypes, RequestTypes, FileTypes, NamesOK, OtherTypes, Homed
  <1>17. ASSUME Crash
         PROVE  AllTypes'
    <2>1. /\ req' = [r \in Requests |-> Idle] /\ calls' = {} /\ mixed' \in BOOLEAN
          /\ UNCHANGED <<rows, files, created, uploaded, home, deleted>>
      BY <1>17 DEF Crash
    <2>2. RequestTypes' /\ \A r \in Requests : req'[r].row.sound = 0
      BY <2>1, <1>b, IdleFacts DEF RequestTypes, RequestOK
    <2> QED
      BY <1>1, <1>b, <2>1, <2>2
         DEF AllTypes, TableTypes, FileTypes, NamesOK, OtherTypes, Homed
  <1>18. CASE UNCHANGED vars
    BY <1>1, <1>18
       DEF vars, histVars, AllTypes, TableTypes, RequestTypes, FileTypes, NamesOK, OtherTypes, Homed
  <1> QED
    BY <1>3, <1>4, <1>6, <1>7, <1>8, <1>10, <1>11, <1>12, <1>13, <1>14, <1>15, <1>16, <1>17, <1>18
       DEF Next, Ask, Step

----------------------------------------------------------------------------
(* A step that stores nothing and gives no trigger a home.                 *)
LEMMA QuietHomes ==
  ASSUME HomesOK, NEW r \in Requests, NEW q, Turns(r, q), RowIsOwn(q),
         q.at \in Holding /\ q.idx = 0 => New(r) /\ q.row.trigger = req[r].row.trigger,
         RowHomes', UNCHANGED <<calls, home, created>>
  PROVE  HomesOK'
  <1>1. RequestHomes'
    BY DEF HomesOK, RequestHomes, RowIsOwn, Turns
  <1>2. NewOnesDiffer'
    BY DEF HomesOK, NewOnesDiffer, New, Turns
  <1> QED
    BY <1>1, <1>2 DEF HomesOK, CallHomes, HomeBounds, Homed

(* Rows that move stay in their homes.                                     *)
LEMMA MovedHomes ==
  ASSUME HomesOK, OnlyMoved(rows'), UNCHANGED home
  PROVE  RowHomes'
  BY DEF HomesOK, RowHomes, OnlyMoved

(* A trigger whose home is written, and one that has had one all along.    *)
LEMMA UpsertHomes ==
  ASSUME TypesOK, HomesOK, NEW r \in Requests, Upsert(r)
  PROVE  HomesOK'
  <1> DEFINE i == Target(req[r])
             row == req[r].row
             t == row.trigger
  <1>1. /\ i \in Idx /\ i # 0 /\ row \in Row /\ t \in Idx /\ rows' = With(rows, i, row)
        /\ home'[t] = i /\ (\A u \in Idx : u # t => home'[u] = home[u])
        /\ Homed' = Homed \cup {t}
        /\ \A u \in Homed : home'[u] = home[u]
    BY UpsertFacts DEF Row, Idx
  <1>2. PICK q : Turns(r, q) /\ q.at = "renumber"
    BY UpsertFacts
  <1>3. /\ req[r].at \in Holding /\ RowIsOwn(req[r])
        /\ UNCHANGED <<calls, created>>
    BY DEF Upsert, Holding, HomesOK, RequestHomes
  <1>4. \A u \in 0 .. MaxTriggers : u # 0 /\ home[u] # 0 => u \in Homed
    BY StoreAssumption DEF Homed, Idx
  <1>5. row.status # 0 => home'[row.status] = i
    BY <1>1, <1>3, <1>4 DEF RowIsOwn, Target, Row
  <1>6. RowHomes'
    <2>1. ASSUME NEW j \in DOMAIN rows, j # i
          PROVE  home'[rows[j].trigger] = j /\ (rows[j].status # 0 => home'[rows[j].status] = j)
      <3>1. j \in Idx /\ j # 0 /\ rows[j] \in Row
        BY StoreAssumption DEF TypesOK, TypeOK, Idx
      <3>2. /\ rows[j].trigger \in Homed
            /\ rows[j].status # 0 => rows[j].status \in Homed
        BY <1>4, <3>1 DEF HomesOK, RowHomes, Row, Homed
      <3> QED
        BY <1>1, <3>2 DEF HomesOK, RowHomes
    <2> HIDE DEF i, row
    <2> QED
      BY <1>1, <1>5, <2>1 DEF RowHomes, With
  <1>7. CallHomes'
    <2>1. ASSUME NEW c \in calls
          PROVE  c.trigger \in Homed
      <3>1. c.trigger \in Idx /\ c.idx \in Idx /\ c.idx # 0
        BY StoreAssumption DEF TypesOK, TypeOK, Idx
      <3> QED
        BY <3>1 DEF HomesOK, CallHomes, Homed
    <2> QED
      BY <1>1, <1>3, <2>1 DEF HomesOK, CallHomes
  <1>8. HomeBounds'
    <2>1. IsFiniteSet(Homed) /\ Cardinality(Homed) \in Nat
      <3>1. Homed \in SUBSET (1 .. MaxTriggers) /\ MaxTriggers \in Nat
        BY StoreAssumption DEF Homed, Idx
      <3> QED
        BY <3>1, Enumeration
    <2>2. CASE home[t] # 0
      <3>1. t \in Homed /\ Homed' = Homed
        BY <1>1, <2>2 DEF Homed
      <3> QED
        BY <1>1, <1>3, <3>1 DEF HomesOK, HomeBounds
    <2>3. CASE home[t] = 0
      <3>1. t \notin Homed /\ Cardinality(Homed') = Cardinality(Homed) + 1
        <4>1. t \notin Homed
          BY <2>3 DEF Homed
        <4> QED
          BY <1>1, <2>1, <4>1, FS_AddElement
      <3>2. req[r].idx = 0 /\ t <= created
        <4>1. req[r].idx # 0 => home[t] = req[r].idx
          BY <1>3 DEF RowIsOwn
        <4>2. req[r].idx = 0
          BY <2>3, <4>1
        <4> QED
          BY <1>3, <4>2 DEF RowIsOwn
      <3>3. i <= Cardinality(Homed) + 1
        BY <1>3, <3>2, NewHome DEF Target
      <3>4. ASSUME NEW u \in Homed
            PROVE  u <= created /\ home'[u] \in Nat /\ home'[u] <= Cardinality(Homed)
        <4>1. home[u] \in 0 .. MaxTriggers
          BY DEF Homed, TypesOK, TypeOK
        <4> QED
          BY <1>1, <4>1, StoreAssumption DEF HomesOK, HomeBounds
      <3> HIDE DEF i, t
      <3> QED
        BY <1>1, <1>3, <2>1, <3>1, <3>2, <3>3, <3>4 DEF HomeBounds
    <2> QED
      BY <2>2, <2>3
  <1>9. RequestHomes'
    <2>1. ASSUME NEW s \in Requests, s # r
          PROVE  RowIsOwn(req[s])'
      <3>1. req'[s] = req[s] /\ RowIsOwn(req[s])
        BY <1>2, <2>1 DEF Turns, HomesOK, RequestHomes
      <3>2. SUFFICES ASSUME req[s].at \in Holding
                     PROVE  RowIsOwn(req[s])'
        BY <3>1 DEF RowIsOwn
      <3>3. /\ req[s].row \in Row /\ req[s].row.trigger \in Idx
            /\ req[s].row.status \in 0 .. MaxTriggers
        BY <3>2 DEF TypesOK, RequestOK, Row
      <3>4. CASE req[s].idx = 0
        <4>1. home[req[s].row.trigger] = 0
          BY <3>1, <3>2, <3>4 DEF RowIsOwn
        <4>2. req[s].row.trigger # t
          <5>1. CASE req[r].idx = 0
            BY <1>3, <2>1, <3>2, <3>4, <5>1 DEF HomesOK, NewOnesDiffer, New
          <5>2. CASE req[r].idx # 0
            BY <1>3, <4>1, <5>2 DEF RowIsOwn
          <5> QED
            BY <5>1, <5>2
        <4> QED
          BY <1>1, <1>3, <3>1, <3>3, <3>4, <4>1, <4>2 DEF RowIsOwn
      <3>5. CASE req[s].idx # 0
        <4>1. /\ req[s].row.trigger \in Homed
              /\ req[s].row.status # 0 => req[s].row.status \in Homed
          BY <1>4, <3>1, <3>2, <3>3, <3>5 DEF RowIsOwn, Homed
        <4> QED
          BY <1>1, <3>1, <3>2, <3>5, <4>1 DEF RowIsOwn
      <3> QED
        BY <3>4, <3>5
    <2>2. RowIsOwn(req[r])'
      BY <1>2 DEF Turns, RowIsOwn, Holding
    <2> QED
      BY <2>1, <2>2 DEF RequestHomes
  <1>10. NewOnesDiffer'
    BY <1>2 DEF HomesOK, NewOnesDiffer, New, Turns, Holding
  <1> QED
    BY <1>6, <1>7, <1>8, <1>9, <1>10 DEF HomesOK

(* Every step keeps the homes.                                             *)
LEMMA HomesStep ==
  ASSUME TypesOK, HomesOK, [Next]_vars
  PROVE  HomesOK'
  <1>1. ASSUME NEW r \in Requests, NEW sound \in {"upload", "keep"}, AskAdd(r, sound)
        PROVE  HomesOK'
    <2>1. PICK q : Arrives(r, q) /\ q.at = "file" /\ q.idx = 0 /\ q.row = [Blank EXCEPT !.trigger = created']
      BY <1>1, AskAddFacts
    <2>2. created' = created + 1 /\ created' \in Idx /\ created \in Nat
      BY <1>1, AskAddFacts, StoreAssumption DEF TypesOK
    <2>3. q.row.trigger = created' /\ q.row.status = 0
      BY <2>1 DEF Blank
    <2>4. /\ Turns(r, q) /\ req[r] = Idle
          /\ UNCHANGED <<rows, calls, home>>
      BY <2>1 DEF Arrives
    <2>a. ASSUME NEW t \in Homed
          PROVE  t \in Nat /\ t <= created
      <3>1. t \in 1 .. MaxTriggers
        BY DEF Homed, Idx
      <3> QED
        BY <3>1, StoreAssumption DEF HomesOK, HomeBounds
    <2>5. created' \notin Homed /\ home[created'] = 0
      <3>1. created' \notin Homed
        BY <2>2, <2>a
      <3> QED
        BY <2>2, <3>1 DEF Homed
    <2>6. \A t \in Homed : t <= created'
      BY <2>2, <2>a
    <2>7. HomeBounds'
      BY <2>4, <2>6 DEF HomesOK, HomeBounds, Homed
    <2>8. RowHomes' /\ CallHomes'
      BY <2>4 DEF HomesOK, RowHomes, CallHomes
    <2>9. ASSUME NEW s \in Requests, s # r, New(s)
          PROVE  req[s].row.trigger \in Nat /\ req[s].row.trigger <= created
      BY <2>9 DEF TypesOK, RequestOK, Row, Idx, HomesOK, RequestHomes, RowIsOwn, New
    <2>10. RequestHomes'
      <3>1. ASSUME NEW s \in Requests, s # r
            PROVE  RowIsOwn(req[s])'
        <4>1. req'[s] = req[s] /\ RowIsOwn(req[s])
          BY <2>4, <3>1 DEF Turns, HomesOK, RequestHomes
        <4>2. New(s) => req[s].row.trigger <= created'
          BY <2>2, <2>9, <3>1
        <4> QED
          BY <2>4, <4>1, <4>2 DEF RowIsOwn, New
      <3>2. RowIsOwn(req[r])'
        <4>1. req'[r] = q /\ home'[created'] = 0 /\ created' <= created'
          BY <2>2, <2>4, <2>5 DEF Turns, Idx
        <4> QED
          BY <2>1, <2>3, <4>1 DEF RowIsOwn
      <3> QED
        BY <3>1, <3>2 DEF RequestHomes
    <2>11. NewOnesDiffer'
      <3>1. \A s \in Requests : s # r /\ New(s) => req[s].row.trigger # created'
        BY <2>2, <2>9
      <3> QED
        BY <2>3, <2>4, <3>1 DEF HomesOK, NewOnesDiffer, New, Turns
    <2> QED
      BY <2>7, <2>8, <2>10, <2>11 DEF HomesOK
  <1>2. ASSUME NEW r \in Requests, NEW i \in Idx,
               \/ \E sound \in {"upload", "keep", "clear"} : AskSave(r, i, sound)
               \/ \E k \in Idx : AskMove(r, i, k)
               \/ AskDelete(r, i)
        PROVE  HomesOK'
    <2>1. PICK q : Arrives(r, q) /\ q.at \in {"load", "delete"}
      BY <1>2, AskFacts DEF Names
    <2>2. created' = created
      BY <1>2, AskFacts
    <2>3. q.at \notin Holding
      BY <2>1 DEF Holding
    <2>4. RowHomes' /\ RowIsOwn(q)
      BY <2>1, <2>3 DEF Arrives, HomesOK, RowHomes, RowIsOwn
    <2> QED
      BY <2>1, <2>2, <2>3, <2>4, QuietHomes DEF Arrives
  <1>3. ASSUME NEW r \in Requests, NEW q, Turns(r, q),
               q.at \notin Holding
                 \/ (req[r].at \in Holding /\ q.idx = req[r].idx
                       /\ q.row.trigger = req[r].row.trigger /\ q.row.status = req[r].row.status),
               RowHomes', UNCHANGED <<calls, home, created>>
        PROVE  HomesOK'
    <2>1. RowIsOwn(req[r])
      BY DEF HomesOK, RequestHomes
    <2>2. RowIsOwn(q)
      BY <1>3, <2>1 DEF RowIsOwn
    <2>3. q.at \in Holding /\ q.idx = 0 => New(r) /\ q.row.trigger = req[r].row.trigger
      BY <1>3 DEF New
    <2> QED
      BY <1>3, <2>2, <2>3, QuietHomes
  <1>4. Idle.at \notin Holding
    BY IdleFacts DEF Holding
  <1>5. ASSUME NEW r \in Requests, Load(r)
        PROVE  HomesOK'
    <2>1. UNCHANGED <<rows, calls, home, created>>
      BY <1>5 DEF Load, histVars
    <2>2. RowHomes'
      BY <2>1 DEF HomesOK, RowHomes
    <2>3. CASE Turns(r, Idle)
      BY <1>3, <1>4, <2>1, <2>2, <2>3
    <2>4. CASE req[r].idx \in DOMAIN rows /\ \E q : Loaded(r, q)
      <3>1. PICK q : Loaded(r, q)
        BY <2>4
      <3>2. req[r].idx # 0
        BY <2>4, StoreAssumption DEF TypesOK, TypeOK, Idx
      <3>3. RowIsOwn(q) /\ q.idx # 0 /\ Turns(r, q)
        BY <2>4, <3>1, <3>2 DEF Loaded, HomesOK, RowHomes, RowIsOwn
      <3> QED
        BY <2>1, <2>2, <3>3, QuietHomes
    <2> QED
      BY <1>5, <2>3, <2>4, LoadFacts
  <1>6. ASSUME NEW r \in Requests, SoundFile(r)
        PROVE  HomesOK'
    <2>1. PICK q : Sounding(r, q, q.row.sound)
      BY <1>6, SoundFileFacts
    <2>2. UNCHANGED <<rows, calls, home, created>> /\ req[r].at \in Holding
      BY <1>6 DEF SoundFile, Holding
    <2>3. RowHomes'
      BY <2>2 DEF HomesOK, RowHomes
    <2> QED
      BY <1>3, <2>1, <2>2, <2>3 DEF Sounding
  <1>7. ASSUME NEW r \in Requests, ReadPosition(r)
        PROVE  HomesOK'
    <2>1. PICK q : Turns(r, q) /\ (q = Idle \/ (q.idx = req[r].idx /\ q.row = req[r].row))
      BY <1>7, ReadPositionFacts
    <2>2. UNCHANGED <<rows, calls, home, created>> /\ req[r].at \in Holding
      BY <1>7 DEF ReadPosition, histVars, Holding
    <2>3. RowHomes'
      BY <2>2 DEF HomesOK, RowHomes
    <2> QED
      BY <1>3, <1>4, <2>1, <2>2, <2>3
  <1>8. ASSUME NEW r \in Requests, Shift(r)
        PROVE  HomesOK'
    <2>1. PICK q : Turns(r, q) /\ q.idx = req[r].idx /\ q.row = req[r].row
      BY <1>8, ShiftFacts
    <2>2. UNCHANGED <<calls, home, created>> /\ req[r].at \in Holding
      BY <1>8 DEF Shift, histVars, Holding
    <2> QED
      BY <1>3, <1>8, <2>1, <2>2, ShiftFacts, MovedHomes
  <1>9. ASSUME NEW r \in Requests, Delete(r)
        PROVE  HomesOK'
    <2>1. PICK q : Turns(r, q) /\ q.at = "renumber"
      BY <1>9, DeleteGoes
    <2>2. /\ rows' = [j \in DOMAIN rows \ {req[r].idx} |-> rows[j]]
          /\ UNCHANGED <<calls, home, created>>
      BY <1>9 DEF Delete
    <2>3. RowHomes' /\ q.at \notin Holding
      BY <2>1, <2>2 DEF HomesOK, RowHomes, Holding
    <2> QED
      BY <1>3, <2>1, <2>2, <2>3
  <1>10. ASSUME NEW r \in Requests, Renumber(r)
         PROVE  HomesOK'
    <2>1. UNCHANGED <<calls, home, created>>
      BY <1>10 DEF Renumber, histVars
    <2> QED
      BY <1>3, <1>4, <1>10, <2>1, RenumberFacts, MovedHomes
  <1>11. ASSUME NEW r \in Requests, StatementFails(r)
         PROVE  HomesOK'
    <2>1. End(r) /\ UNCHANGED <<rows, calls, home, created>>
      BY <1>11 DEF StatementFails
    <2>2. RowHomes'
      BY <2>1 DEF HomesOK, RowHomes
    <2> QED
      BY <1>3, <1>4, <2>1, <2>2, EndFacts
  <1>12. ASSUME NEW i \in Idx, CallWebhook(i)
         PROVE  HomesOK'
    <2>1. /\ i \in DOMAIN rows /\ calls' = {[idx |-> i, trigger |-> rows[i].trigger]}
          /\ UNCHANGED <<rows, req, home, created>>
      BY <1>12 DEF CallWebhook, histVars
    <2> QED
      BY <2>1 DEF HomesOK, RowHomes, CallHomes, HomeBounds, Homed, RequestHomes, RowIsOwn,
                  NewOnesDiffer, New
  <1>13. ASSUME NEW c \in calls, WebhookAnswered(c)
         PROVE  HomesOK'
    <2>1. calls' = calls \ {c} /\ UNCHANGED <<req, home, created>>
      BY <1>13 DEF WebhookAnswered, histVars
    <2>2. RowHomes'
      BY <1>13, <2>1, AnsweredFacts DEF HomesOK, RowHomes, CallHomes
    <2> QED
      BY <2>1, <2>2 DEF HomesOK, CallHomes, HomeBounds, Homed, RequestHomes, RowIsOwn,
                        NewOnesDiffer, New
  <1>14. ASSUME Crash
         PROVE  HomesOK'
    <2>1. /\ req' = [r \in Requests |-> Idle] /\ calls' = {}
          /\ UNCHANGED <<rows, home, created>>
      BY <1>14 DEF Crash
    <2>2. \A r \in Requests : req'[r].at \notin Holding
      BY <1>4, <2>1
    <2> QED
      BY <2>1, <2>2 DEF HomesOK, RowHomes, CallHomes, HomeBounds, Homed, RequestHomes, RowIsOwn,
                        NewOnesDiffer, New
  <1>15. CASE UNCHANGED vars
    BY <1>15 DEF vars, histVars, HomesOK, RowHomes, CallHomes, HomeBounds, Homed, RequestHomes,
                 RowIsOwn, NewOnesDiffer, New
  <1> QED
    BY <1>1, <1>2, <1>5, <1>6, <1>7, <1>8, <1>9, <1>10, <1>11, <1>12, <1>13, <1>14, <1>15,
       UpsertHomes DEF Next, Ask, Step

----------------------------------------------------------------------------
(* Steps that leave the triggers of the table where they are.              *)
LEMMA QuietKept ==
  ASSUME KeptOK, DOMAIN rows' = DOMAIN rows,
         \A i \in DOMAIN rows : rows'[i].trigger = rows[i].trigger,
         UNCHANGED <<home, deleted>>
  PROVE  KeptOK'
  BY DEF KeptOK, Homed

(* The row an upsert writes over is of the same trigger, or of one whose   *)
(* idx a deleted trigger had.                                              *)
LEMMA UpsertKept ==
  ASSUME TypesOK, HomesOK, KeptOK, NEW r \in Requests, Upsert(r)
  PROVE  KeptOK'
  <1> DEFINE i == Target(req[r])
             row == req[r].row
             t == row.trigger
  <1>1. /\ i \in Idx /\ t \in Idx /\ rows' = With(rows, i, row)
        /\ home'[t] = i /\ (\A u \in Idx : u # t => home'[u] = home[u])
        /\ Homed' = Homed \cup {t}
        /\ \A u \in Homed : home'[u] = home[u]
    BY UpsertFacts DEF Row
  <1>2. deleted' = deleted /\ \A d \in deleted : d \in Homed
    BY DEF Upsert, TypesOK
  <1>3. req[r].at \in Holding /\ RowIsOwn(req[r])
    BY DEF Upsert, Holding, HomesOK, RequestHomes
  <1>4. t \notin Homed => i \notin DOMAIN rows
    <2>1. ASSUME t \notin Homed
          PROVE  req[r].idx = 0
      <3>1. home[t] = 0 /\ req[r].idx \in 0 .. MaxTriggers
        BY <1>1, <2>1 DEF Homed, TypesOK, TypeOK
      <3> QED
        BY <1>3, <3>1 DEF RowIsOwn
    <2> QED
      BY <1>3, <2>1, NewHome DEF Target
  <1> HIDE DEF i, row, t
  <1>5. /\ i \in DOMAIN rows' /\ rows'[i] = row /\ row.trigger = t
        /\ \A j \in DOMAIN rows : j \in DOMAIN rows' /\ (j # i => rows'[j] = rows[j])
    BY <1>1 DEF With, t
  <1>6. ASSUME NEW u \in Homed, home[u] = i, u # t
        PROVE  \E d \in deleted' : home'[d] = home'[u]
    <2>1. PICK d \in deleted : home[d] = i
      <3>1. CASE t \in Homed
        <4>1. home[t] = i
          BY <1>1, <3>1
        <4> QED
          BY <1>6, <3>1, <4>1 DEF KeptOK
      <3>2. CASE t \notin Homed
        <4>1. home[u] \notin DOMAIN rows
          BY <1>4, <1>6, <3>2
        <4> QED
          BY <1>6, <4>1 DEF KeptOK
      <3> QED
        BY <3>1, <3>2
    <2> QED
      BY <1>1, <1>2, <1>6, <2>1
  <1>7. ASSUME NEW u \in Homed' \ deleted'
        PROVE  \/ home'[u] \in DOMAIN rows' /\ rows'[home'[u]].trigger = u
               \/ \E d \in deleted' : home'[d] = home'[u]
    <2>1. CASE u = t
      BY <1>1, <1>5, <2>1
    <2>2. CASE u # t
      <3>1. u \in Homed \ deleted /\ home'[u] = home[u]
        BY <1>1, <1>2, <1>7, <2>2
      <3>2. CASE home[u] = i
        BY <1>6, <2>2, <3>1, <3>2
      <3>3. CASE home[u] # i
        BY <1>1, <1>2, <1>5, <3>1, <3>3 DEF KeptOK
      <3> QED
        BY <3>2, <3>3
    <2> QED
      BY <2>1, <2>2
  <1>8. ASSUME NEW u \in Homed', NEW v \in Homed', home'[u] = home'[v], u # v
        PROVE  \E d \in deleted' : home'[d] = home'[u]
    <2>1. CASE u # t /\ v # t
      BY <1>1, <1>2, <1>8, <2>1 DEF KeptOK
    <2>2. CASE u = t
      <3>1. v \in Homed /\ home[v] = i /\ v # t
        BY <1>1, <1>8, <2>2
      <3> QED
        BY <1>6, <1>8, <3>1
    <2>3. CASE v = t
      <3>1. u \in Homed /\ home[u] = i /\ u # t
        BY <1>1, <1>8, <2>3
      <3> QED
        BY <1>6, <3>1
    <2> QED
      BY <2>1, <2>2, <2>3
  <1> QED
    BY <1>7, <1>8 DEF KeptOK

(* A delete takes the trigger it counts as deleted, and no other.          *)
LEMMA DeleteKept ==
  ASSUME KeptOK, NEW r \in Requests, Delete(r)
  PROVE  KeptOK'
  <1> DEFINE i == req[r].idx
  <1>1. /\ rows' = [j \in DOMAIN rows \ {i} |-> rows[j]]
        /\ deleted' = IF i \in DOMAIN rows THEN deleted \cup {rows[i].trigger} ELSE deleted
        /\ home' = home
    BY DEF Delete
  <1> HIDE DEF i
  <1>2. Homed' = Homed /\ deleted \subseteq deleted'
    BY <1>1 DEF Homed
  <1>3. ASSUME NEW t \in Homed \ deleted'
        PROVE  \/ home[t] \in DOMAIN rows' /\ rows'[home[t]].trigger = t
               \/ \E d \in deleted' : home[d] = home[t]
    <2>1. CASE home[t] \in DOMAIN rows /\ rows[home[t]].trigger = t
      <3>1. home[t] # i
        BY <1>1, <1>3, <2>1
      <3> QED
        BY <1>1, <2>1, <3>1
    <2>2. CASE \E d \in deleted : home[d] = home[t]
      BY <1>2, <2>2
    <2> QED
      BY <1>2, <1>3, <2>1, <2>2 DEF KeptOK
  <1> QED
    BY <1>1, <1>2, <1>3 DEF KeptOK

(* Every step keeps the triggers.                                          *)
LEMMA KeptStep ==
  ASSUME TypesOK, HomesOK, KeptOK, [Next]_vars
  PROVE  KeptOK'
  <1>1. ASSUME UNCHANGED <<rows, home, deleted>>
        PROVE  KeptOK'
    BY <1>1, QuietKept
  <1>2. ASSUME NEW r \in Requests, Ask(r)
        PROVE  KeptOK'
    BY <1>1, <1>2, AskFrame
  <1>3. ASSUME NEW r \in Requests, Load(r) \/ SoundFile(r) \/ ReadPosition(r) \/ StatementFails(r)
        PROVE  KeptOK'
    <2>1. CASE Load(r) \/ ReadPosition(r)
      BY <1>1, <2>1 DEF Load, ReadPosition, histVars
    <2>2. CASE SoundFile(r)
      BY <1>1, <2>2 DEF SoundFile
    <2>3. CASE StatementFails(r)
      BY <1>1, <2>3 DEF StatementFails, histVars
    <2> QED
      BY <1>3, <2>1, <2>2, <2>3
  <1>4. ASSUME NEW r \in Requests, Shift(r)
        PROVE  KeptOK'
    <2>1. UNCHANGED <<home, deleted>>
      BY <1>4 DEF Shift, histVars
    <2> QED
      BY <1>4, <2>1, ShiftFacts, QuietKept DEF OnlyMoved
  <1>5. ASSUME NEW r \in Requests, Renumber(r)
        PROVE  KeptOK'
    <2>1. UNCHANGED <<home, deleted>>
      BY <1>5 DEF Renumber, histVars
    <2> QED
      BY <1>5, <2>1, RenumberFacts, QuietKept DEF OnlyMoved
  <1>6. ASSUME NEW c \in calls, WebhookAnswered(c)
        PROVE  KeptOK'
    <2>1. UNCHANGED <<home, deleted>>
      BY <1>6 DEF WebhookAnswered, histVars
    <2> QED
      BY <1>6, <2>1, AnsweredFacts, QuietKept
  <1>7. ASSUME (\E i \in Idx : CallWebhook(i)) \/ Crash \/ UNCHANGED vars
        PROVE  KeptOK'
    BY <1>1, <1>7 DEF CallWebhook, Crash, vars, histVars
  <1> QED
    BY <1>2, <1>3, <1>4, <1>5, <1>6, <1>7, UpsertKept, DeleteKept DEF Next, Step

----------------------------------------------------------------------------
(* While requests do not overlap, one that is at work is alone.            *)
LEMMA Alone ==
  ASSUME TypesOK, OneAtATime, ~mixed, NEW r \in Requests, req[r].at # "idle"
  PROVE  \A s \in Requests : s # r => req[s] = Idle
  BY DEF TypesOK, RequestOK, OneAtATime

(* A request that goes on, or ends, overlaps no other.                     *)
LEMMA QuietOne ==
  ASSUME OneAtATime, NEW r \in Requests, NEW q, Turns(r, q), req[r].at # "idle" \/ q.at = "idle",
         mixed' \/ ~mixed
  PROVE  OneAtATime'
  BY DEF OneAtATime, Turns

(* One that arrives while another is under way mixes them.                 *)
LEMMA ArrivesOne ==
  ASSUME NEW r \in Requests, NEW q, Arrives(r, q)
  PROVE  OneAtATime'
  BY IdleFacts DEF OneAtATime, Arrives, Turns, Quiet

(* Until requests are mixed there is one at a time.                        *)
LEMMA OneStep ==
  ASSUME TypesOK, HomesOK, OneAtATime, [Next]_vars
  PROVE  OneAtATime'
  <1>1. ASSUME NEW r \in Requests, Ask(r)
        PROVE  OneAtATime'
    <2>1. \E q : Arrives(r, q)
      BY <1>1, AskAddFacts, AskFacts DEF Ask, Names
    <2> QED
      BY <2>1, ArrivesOne
  <1>2. ASSUME NEW r \in Requests, Step(r)
        PROVE  OneAtATime'
    <2>1. req[r].at # "idle"
      BY <1>2, StepFrame
    <2>2. mixed' = mixed
      BY <1>2, StepFrame
    <2>3. \E q : Turns(r, q)
      BY <1>2, LoadFacts, SoundFileFacts, ReadPositionFacts, ShiftFacts, UpsertFacts, DeleteGoes,
         RenumberFacts DEF Step, Loaded, Sounding
    <2> QED
      BY <2>1, <2>2, <2>3, QuietOne
  <1>3. ASSUME NEW r \in Requests, StatementFails(r)
        PROVE  OneAtATime'
    BY <1>3 DEF StatementFails, OneAtATime
  <1>4. ASSUME Crash
        PROVE  OneAtATime'
    BY <1>4, IdleFacts DEF Crash, OneAtATime
  <1>5. ASSUME UNCHANGED <<req, mixed>>
        PROVE  OneAtATime'
    BY <1>5 DEF OneAtATime
  <1>6. ASSUME (\E i \in Idx : CallWebhook(i)) \/ (\E c \in calls : WebhookAnswered(c)) \/ UNCHANGED vars
        PROVE  OneAtATime'
    BY <1>5, <1>6 DEF CallWebhook, WebhookAnswered, vars, histVars
  <1> QED
    BY <1>1, <1>2, <1>3, <1>4, <1>6 DEF Next

----------------------------------------------------------------------------
(* One request, and no other before or after its step.                     *)
Solo(r, q) ==
  /\ req'[r] = q
  /\ \A s \in Requests : s # r => req[s] = Idle /\ req'[s] = Idle

(* A step of the only request leaves it the only one.                      *)
LEMMA StepSolo ==
  ASSUME TypesOK, OneAtATime, ~mixed, NEW r \in Requests, req[r].at # "idle", NEW q, Turns(r, q)
  PROVE  Solo(r, q)
  BY Alone DEF Solo, Turns

(* A request that arrives unmixed finds no other.                          *)
LEMMA ArrivesSolo ==
  ASSUME TypesOK, NEW r \in Requests, NEW q, Arrives(r, q), ~mixed'
  PROVE  Solo(r, q) /\ ~mixed /\ \A s \in Requests : req[s] = Idle
  <1>1. Quiet /\ ~mixed
    BY DEF Arrives
  <1>2. \A s \in Requests : req[s] = Idle
    BY <1>1 DEF Quiet
  <1> QED
    BY <1>1, <1>2 DEF Arrives, Turns, Solo

(* What is to be shown of the sounds when one request is under way.        *)
LEMMA SoloSounds ==
  ASSUME NEW r \in Requests, NEW q, Solo(r, q), OwnSounds', SoundIsOwn(req[r])',
         \A i \in DOMAIN rows' : rows'[i].sound \in files' \cup {0} \/ (q.at \in Filed /\ q.idx = i)
  PROVE  SoundsOK'
  <1>1. NamedSounds'
    BY DEF NamedSounds, Solo
  <1>2. \A s \in Requests : SoundIsOwn(req[s])'
    BY IdleFacts DEF SoundIsOwn, Solo, Filed
  <1> QED
    BY <1>1, <1>2 DEF SoundsOK

(* The names are each a row's own, before a file is written and after.     *)
LEMMA SoundsOf ==
  ASSUME TypesOK, SoundsOK, OneAtATime, ~mixed, NEW r \in Requests, req[r].at # "idle"
  PROVE  /\ OwnSounds /\ SoundIsOwn(req[r])
         /\ \A i \in DOMAIN rows : \/ rows[i].sound \in files \cup {0}
                                   \/ req[r].at \in Filed /\ req[r].idx = i
  BY Alone, IdleFacts DEF SoundsOK, NamedSounds, Filed

(* The file that is written or removed is no other row's.                  *)
LEMMA SoundFileSounds ==
  ASSUME TypesOK, OneAtATime, SoundsOK, PlacesOK, NEW r \in Requests, SoundFile(r)
  PROVE  SoundsOK'
  <1> DEFINE old == req[r].row.sound
             i == req[r].idx
  <1>1. SUFFICES ASSUME ~mixed'
                 PROVE  SoundsOK'
    BY DEF SoundsOK
  <1>2. PICK q : Sounding(r, q, q.row.sound) /\ Filing(r, q)
    BY SoundFileFacts
  <1>3. ~mixed /\ req[r].at = "file" /\ UNCHANGED rows
    BY <1>1 DEF SoundFile
  <1>4. /\ Solo(r, q) /\ OwnSounds
        /\ old = IF i = 0 THEN 0 ELSE rows[i].sound
        /\ \A j \in DOMAIN rows : rows[j].sound \in files \cup {0}
    BY <1>2, <1>3, SoundsOf, StepSolo DEF Sounding, Filed, SoundIsOwn
  <1>5. i # 0 => i \in DOMAIN rows
    BY <1>3 DEF PlacesOK, PlaceIsOK, Holding
  <1>6. q.at = "place" /\ q.at \in Filed /\ q.idx = i
    BY <1>2 DEF Sounding, Filed
  <1>7. /\ files \subseteq 1 .. uploaded /\ uploaded \in Nat
        /\ \A j \in DOMAIN rows : rows[j].sound \in Nat /\ rows[j].sound <= uploaded
    BY DEF TypesOK, TypeOK, NamesOK, Row
  <1> HIDE DEF old, i
  <1>8. \A j \in DOMAIN rows \ {i} : rows[j].sound = old => old = 0
    BY <1>4, <1>5 DEF OwnSounds
  <1>9. /\ \A j \in DOMAIN rows \ {i} : rows[j].sound \in files' \cup {0}
        /\ q.row.sound \in files' \cup {0}
        /\ \A j \in DOMAIN rows \ {i} : rows[j].sound = q.row.sound => rows[j].sound = 0
    <2>1. CASE /\ q.row.sound \in {0, IF old # 0 THEN old ELSE uploaded + 1}
               /\ files' = IF q.row.sound # 0
                            THEN files \cup {IF old # 0 THEN old ELSE uploaded + 1} ELSE files
      <3>1. \A j \in DOMAIN rows : rows[j].sound # uploaded + 1
        BY <1>7
      <3> QED
        BY <1>4, <1>8, <2>1, <3>1
    <2>2. CASE q.row.sound = old /\ UNCHANGED files
      <3>1. old \in files \cup {0}
        BY <1>4, <1>5
      <3> QED
        BY <1>4, <1>8, <2>2, <3>1
    <2>3. CASE q.row.sound = 0 /\ files' = files \ {old}
      BY <1>4, <1>8, <2>3
    <2> QED
      BY <1>2, <2>1, <2>2, <2>3 DEF Filing, old
  <1>10. SoundIsOwn(req[r])'
    <2>1. req'[r] = q
      BY <1>4 DEF Solo
    <2> QED
      BY <1>3, <1>6, <1>9, <2>1 DEF SoundIsOwn
  <1>11. OwnSounds'
    BY <1>3, <1>4 DEF OwnSounds
  <1> QED
    BY <1>3, <1>4, <1>6, <1>9, <1>10, <1>11, SoloSounds

(* Every step keeps the rows' sounds apart and their files there.          *)
LEMMA SoundsStep ==
  ASSUME TypesOK, HomesOK, OneAtATime, SoundsOK, PlacesOK, [Next]_vars
  PROVE  SoundsOK'
  <1>1. SUFFICES ASSUME ~mixed'
                 PROVE  SoundsOK'
    BY DEF SoundsOK
  <1>2. ASSUME NEW r \in Requests, Ask(r)
        PROVE  SoundsOK'
    <2>1. PICK q : Arrives(r, q) /\ (q.at = "file" => q.idx = 0 /\ q.row.sound = 0) /\ q.at \notin Filed
      <3>1. ASSUME NEW sound \in {"upload", "keep"}, AskAdd(r, sound)
            PROVE  \E q : Arrives(r, q) /\ (q.at = "file" => q.idx = 0 /\ q.row.sound = 0) /\ q.at \notin Filed
        <4>1. PICK q : Arrives(r, q) /\ q.at = "file" /\ q.idx = 0 /\ q.row = [Blank EXCEPT !.trigger = created']
          BY <3>1, AskAddFacts
        <4>2. q.row.sound = 0
          BY <4>1 DEF Blank
        <4> QED
          BY <4>1, <4>2 DEF Filed
      <3>2. ASSUME NEW i \in Idx, Names(r, i)
            PROVE  \E q : Arrives(r, q) /\ (q.at = "file" => q.idx = 0 /\ q.row.sound = 0) /\ q.at \notin Filed
        BY <3>2 DEF Names, Filed
      <3> QED
        BY <1>2, <3>1, <3>2, AskFacts DEF Ask
    <2>2. /\ Solo(r, q) /\ ~mixed /\ \A s \in Requests : req[s] = Idle
          /\ UNCHANGED <<rows, files>>
      BY <1>1, <2>1, ArrivesSolo DEF Arrives
    <2>3. OwnSounds /\ \A i \in DOMAIN rows : rows[i].sound \in files \cup {0}
      BY <2>2, IdleFacts DEF SoundsOK, NamedSounds, Filed
    <2>4. OwnSounds' /\ SoundIsOwn(req[r])'
      BY <2>1, <2>2, <2>3 DEF OwnSounds, SoundIsOwn, Solo
    <2> QED
      BY <2>2, <2>3, <2>4, SoloSounds
  <1>3. ASSUME NEW r \in Requests, Load(r)
        PROVE  SoundsOK'
    <2>1. ~mixed /\ req[r].at = "load" /\ UNCHANGED <<rows, files>>
      BY <1>1, <1>3 DEF Load, histVars
    <2>2. OwnSounds /\ \A i \in DOMAIN rows : rows[i].sound \in files \cup {0}
      BY <2>1, SoundsOf DEF Filed
    <2>3. OwnSounds'
      BY <2>1, <2>2 DEF OwnSounds
    <2>4. CASE Turns(r, Idle)
      <3>1. Solo(r, Idle)
        BY <2>1, <2>4, StepSolo
      <3>2. SoundIsOwn(req[r])'
        BY <3>1, IdleFacts DEF Solo, SoundIsOwn, Filed
      <3> QED
        BY <2>1, <2>2, <2>3, <3>1, <3>2, SoloSounds
    <2>5. CASE req[r].idx \in DOMAIN rows /\ \E q : Loaded(r, q)
      <3>1. PICK q : Loaded(r, q)
        BY <2>5
      <3>a. /\ q.idx = req[r].idx /\ q.idx \in DOMAIN rows /\ Turns(r, q)
            /\ q.row.sound = rows[q.idx].sound
        BY <2>5, <3>1 DEF Loaded
      <3>b. q.idx \in 1 .. MaxTriggers
        BY <3>a, TableFacts
      <3>2. /\ Solo(r, q) /\ q.idx = req[r].idx /\ q.idx # 0 /\ q.idx \in DOMAIN rows
            /\ q.row.sound = rows[q.idx].sound
        BY <2>1, <3>a, <3>b, StepSolo
      <3>3. SoundIsOwn(req[r])'
        BY <2>1, <2>2, <3>2 DEF Solo, SoundIsOwn, OwnSounds
      <3> QED
        BY <2>1, <2>2, <2>3, <3>2, <3>3, SoloSounds
    <2> QED
      BY <1>3, <2>4, <2>5, LoadFacts
  <1>4. ASSUME NEW r \in Requests, ReadPosition(r)
        PROVE  SoundsOK'
    <2>1. ~mixed /\ req[r].at = "place" /\ UNCHANGED <<rows, files>>
      BY <1>1, <1>4 DEF ReadPosition, histVars
    <2>2. /\ OwnSounds /\ SoundIsOwn(req[r])
          /\ \A i \in DOMAIN rows : rows[i].sound \in files \cup {0} \/ req[r].idx = i
      BY <2>1, SoundsOf DEF Filed
    <2>3. req[r].idx # 0 => req[r].idx \in DOMAIN rows
      BY <2>1 DEF PlacesOK, PlaceIsOK, Holding
    <2>4. PICK q : Turns(r, q) /\ q.idx = req[r].idx /\ q.row = req[r].row /\ q.at \in {"shift", "upsert"}
      BY <1>4, <2>3, ReadPositionFacts
    <2>5. Solo(r, q)
      BY <2>1, <2>4, StepSolo
    <2>6. OwnSounds' /\ SoundIsOwn(req[r])'
      BY <2>1, <2>2, <2>4, <2>5 DEF OwnSounds, SoundIsOwn, Solo, Filed
    <2> QED
      BY <2>1, <2>2, <2>4, <2>5, <2>6, SoloSounds DEF Filed
  <1>5. ASSUME NEW r \in Requests, Shift(r)
        PROVE  SoundsOK'
    <2>1. ~mixed /\ req[r].at = "shift" /\ UNCHANGED files
      BY <1>1, <1>5 DEF Shift, histVars
    <2>2. /\ OwnSounds /\ SoundIsOwn(req[r])
          /\ \A i \in DOMAIN rows : rows[i].sound \in files \cup {0} \/ req[r].idx = i
      BY <2>1, SoundsOf DEF Filed
    <2>3. PICK q : Turns(r, q) /\ q.idx = req[r].idx /\ q.row = req[r].row /\ q.at = "upsert"
      BY <1>5, ShiftFacts
    <2>4. Solo(r, q)
      BY <2>1, <2>3, StepSolo
    <2>5. DOMAIN rows' = DOMAIN rows /\ \A i \in DOMAIN rows : rows'[i].sound = rows[i].sound
      BY <1>5, ShiftFacts DEF OnlyMoved
    <2>6. OwnSounds' /\ SoundIsOwn(req[r])'
      BY <2>1, <2>2, <2>3, <2>4, <2>5 DEF OwnSounds, SoundIsOwn, Solo, Filed
    <2> QED
      BY <2>1, <2>2, <2>3, <2>4, <2>5, <2>6, SoloSounds DEF Filed
  <1>6. ASSUME NEW r \in Requests, Upsert(r)
        PROVE  SoundsOK'
    <2> DEFINE i == Target(req[r])
               row == req[r].row
    <2>1. ~mixed /\ req[r].at = "upsert" /\ UNCHANGED files
      BY <1>1, <1>6 DEF Upsert
    <2>2. /\ OwnSounds /\ SoundIsOwn(req[r])
          /\ \A j \in DOMAIN rows : rows[j].sound \in files \cup {0} \/ req[r].idx = j
      BY <2>1, SoundsOf DEF Filed
    <2>3. PICK q : Turns(r, q) /\ q.at = "renumber"
      BY <1>6, UpsertFacts
    <2>4. Solo(r, q) /\ rows' = With(rows, i, row)
      BY <1>6, <2>1, <2>3, StepSolo, UpsertFacts
    <2>5. /\ row.sound \in files \cup {0}
          /\ \A j \in DOMAIN rows \ {i} :
               /\ rows[j].sound \in files \cup {0}
               /\ rows[j].sound = row.sound => rows[j].sound = 0
      <3>1. \A j \in DOMAIN rows : j # i => j # req[r].idx
        BY StoreAssumption DEF Target, TypesOK, TypeOK, Idx
      <3> QED
        BY <2>1, <2>2, <3>1 DEF SoundIsOwn, Filed
    <2>6. SoundIsOwn(req[r])'
      BY <2>3, <2>4 DEF Solo, SoundIsOwn, Filed
    <2> HIDE DEF i, row
    <2>a. \A j \in DOMAIN rows' : (j = i /\ rows'[j] = row)
                                 \/ (j # i /\ j \in DOMAIN rows /\ rows'[j] = rows[j])
      BY <2>4 DEF With
    <2>b. OwnSounds'
      BY <2>2, <2>5, <2>a DEF OwnSounds
    <2>7. OwnSounds' /\ \A j \in DOMAIN rows' : rows'[j].sound \in files' \cup {0}
      BY <2>1, <2>5, <2>a, <2>b
    <2> QED
      BY <2>4, <2>6, <2>7, SoloSounds
  <1>7. ASSUME NEW r \in Requests, NEW q, Turns(r, q), req[r].at \in {"delete", "renumber"},
               q.at \in {"renumber", "idle"}, ~mixed, UNCHANGED files,
               \A i \in DOMAIN rows' : i \in DOMAIN rows /\ rows'[i].sound = rows[i].sound
        PROVE  SoundsOK'
    <2>1. OwnSounds /\ \A i \in DOMAIN rows : rows[i].sound \in files \cup {0}
      BY <1>7, SoundsOf DEF Filed
    <2>2. Solo(r, q)
      BY <1>7, StepSolo
    <2>3. OwnSounds' /\ SoundIsOwn(req[r])'
      BY <1>7, <2>1, <2>2 DEF OwnSounds, SoundIsOwn, Solo, Filed
    <2> QED
      BY <1>7, <2>1, <2>2, <2>3, SoloSounds
  <1>8. ASSUME NEW r \in Requests, Delete(r)
        PROVE  SoundsOK'
    <2>1. /\ ~mixed /\ req[r].at = "delete" /\ UNCHANGED files
          /\ rows' = [j \in DOMAIN rows \ {req[r].idx} |-> rows[j]]
      BY <1>1, <1>8 DEF Delete
    <2> QED
      BY <1>7, <1>8, <2>1, DeleteGoes
  <1>9. ASSUME NEW r \in Requests, Renumber(r)
        PROVE  SoundsOK'
    <2>1. ~mixed /\ req[r].at = "renumber" /\ UNCHANGED files
      BY <1>1, <1>9 DEF Renumber, histVars
    <2>2. DOMAIN rows' = DOMAIN rows /\ \A i \in DOMAIN rows : rows'[i].sound = rows[i].sound
      BY <1>9, RenumberFacts DEF OnlyMoved
    <2> QED
      BY <1>7, <1>9, <2>1, <2>2, RenumberFacts, IdleFacts
  <1>10. ASSUME DOMAIN rows' = DOMAIN rows, \A i \in DOMAIN rows : rows'[i].sound = rows[i].sound,
                UNCHANGED <<files, req, mixed>>
         PROVE  SoundsOK'
    <2>1. OwnSounds /\ NamedSounds /\ \A r \in Requests : SoundIsOwn(req[r])
      BY <1>1, <1>10 DEF SoundsOK
    <2>2. OwnSounds' /\ NamedSounds'
      BY <1>10, <2>1 DEF OwnSounds, NamedSounds
    <2>3. ASSUME NEW r \in Requests, NEW q, q = req[r]
          PROVE  SoundIsOwn(q)'
      <3>1. q.at = "file" /\ q.idx # 0 => q.idx \in DOMAIN rows
        BY <1>1, <1>10, <2>3 DEF PlacesOK, PlaceIsOK, Holding
      <3>2. SoundIsOwn(q)
        BY <2>1, <2>3
      <3> QED
        BY <1>10, <3>1, <3>2 DEF SoundIsOwn
    <2>4. \A r \in Requests : SoundIsOwn(req[r])'
      BY <1>10, <2>3 DEF SoundIsOwn
    <2> QED
      BY <2>2, <2>4 DEF SoundsOK
  <1>11. ASSUME NEW c \in calls, WebhookAnswered(c)
         PROVE  SoundsOK'
    <2>1. UNCHANGED <<files, req, mixed>>
      BY <1>11 DEF WebhookAnswered, histVars
    <2> QED
      BY <1>10, <1>11, <2>1, AnsweredFacts
  <1>12. ASSUME (\E i \in Idx : CallWebhook(i)) \/ UNCHANGED vars
         PROVE  SoundsOK'
    <2>1. UNCHANGED <<rows, files, req, mixed>>
      BY <1>12 DEF CallWebhook, vars, histVars
    <2> QED
      BY <1>10, <2>1
  <1>13. ASSUME Crash
         PROVE  SoundsOK'
    <2>1. /\ req' = [r \in Requests |-> Idle] /\ UNCHANGED <<rows, files>>
          /\ mixed' = (mixed \/ ~Quiet)
      BY <1>13 DEF Crash
    <2>2. ~mixed /\ \A r \in Requests : req[r] = Idle /\ req'[r] = Idle
      BY <1>1, <2>1 DEF Quiet
    <2> QED
      BY <2>1, <2>2, IdleFacts DEF SoundsOK, OwnSounds, NamedSounds, SoundIsOwn, Filed
  <1>14. ASSUME NEW r \in Requests, StatementFails(r)
         PROVE  SoundsOK'
    BY <1>1, <1>14 DEF StatementFails
  <1> QED
    BY <1>2, <1>3, <1>4, <1>5, <1>6, <1>8, <1>9, <1>11, <1>12, <1>13, <1>14, SoundFileSounds
       DEF Next, Step

----------------------------------------------------------------------------
(* What is to be shown of the positions when one request is under way.     *)
LEMMA SoloPlaces ==
  ASSUME NEW r \in Requests, NEW q, Solo(r, q), PlaceIsOK(q)',
         q.at \notin {"upsert", "renumber"} => Dense(rows')
  PROVE  PlacesOK'
  <1>1. Undisturbed' => Dense(rows')
    BY DEF Undisturbed, Solo
  <1>2. \A s \in Requests : PlaceIsOK(req[s])'
    <2>1. ASSUME NEW s \in Requests, s # r
          PROVE  PlaceIsOK(req[s])'
      BY <2>1, IdleFacts DEF Solo, PlaceIsOK, Holding
    <2>2. PlaceIsOK(req[r])'
      <3>1. req'[r] = q
        BY DEF Solo
      <3> QED
        BY <3>1 DEF PlaceIsOK, Target
    <2> QED
      BY <2>1, <2>2
  <1> QED
    BY <1>1, <1>2 DEF PlacesOK

(* The table is in order when the only request has not disturbed it.       *)
LEMMA PlacesOf ==
  ASSUME TypesOK, PlacesOK, OneAtATime, ~mixed, NEW r \in Requests, req[r].at # "idle"
  PROVE  /\ PlaceIsOK(req[r])
         /\ req[r].at \notin {"upsert", "renumber"} => Dense(rows)
  BY Alone, IdleFacts DEF PlacesOK, Undisturbed

(* Room is made for a row, or between its old place and its new one.       *)
LEMMA ShiftPlaces ==
  ASSUME TypesOK, HomesOK, OneAtATime, PlacesOK, ~mixed, NEW r \in Requests, Shift(r)
  PROVE  LET i == req[r].idx
         IN  Renumberable(With(rows', IF i = 0 THEN NewIdx(rows') ELSE i, req[r].row))
  <1> DEFINE i == req[r].idx
             row == req[r].row
             new == row.position
             old == req[r].from
             D == DOMAIN rows
             n == MaxTriggers
  <1>1. req[r].at = "shift" /\ req[r].at \in Holding /\ Dense(rows) /\ PlaceIsOK(req[r])
    BY PlacesOf DEF Shift, Holding
  <1>2. row \in Row /\ new \in Nat /\ (i # 0 => i \in D /\ old = rows[i].position)
    BY <1>1 DEF TypesOK, RequestOK, PlaceIsOK
  <1>3. DOMAIN rows' = D
    BY ShiftFacts DEF OnlyMoved
  <1>4. rows' = IF i = 0 THEN Shifted(rows, new, Highest(rows, new), 1, 0)
                ELSE IF new < old THEN Shifted(rows, new, old, 1, i)
                ELSE Shifted(rows, old, new, -1, i)
    BY DEF Shift
  <1>5. n \in Nat /\ D \in SUBSET (1 .. n) /\ HavePositions(Row) /\ rows \in [D -> Row]
    BY TableFacts, RowPositions
  <1>6. CASE i = 0
    <2> DEFINE to == NewIdx(rows)
               top == Highest(rows, new)
    <2>1. to \in Nat \ D
      BY <1>1, <1>6, NewHome, StoreAssumption DEF Idx
    <2>2. top \in Int /\ \A j \in D : rows[j].position <= top
      <3>1. new \in Int
        BY <1>2
      <3> HIDE DEF new
      <3> QED
        BY <3>1, TableFacts, RowPositions, MaxOfPositions
    <2>3. NewIdx(rows') = to /\ rows' = Shifted(rows, new, top, 1, 0)
      BY <1>3, <1>4, <1>6 DEF NewIdx
    <2>4. Renumberable(With(Shifted(rows, new, top, 1, 0), to, row))
      <3>1. row.position = new
        OBVIOUS
      <3> HIDE DEF new, n, D, to, top, row
      <3> QED
        BY <1>1, <1>2, <1>5, <2>1, <2>2, <3>1, AddRenumberable
    <2> QED
      BY <1>6, <2>3, <2>4
  <1>7. CASE i # 0
    <2> DEFINE from == rows[i].position
               t == IF new < from THEN Shifted(rows, new, from, 1, i) ELSE Shifted(rows, from, new, -1, i)
    <2>1. rows' = t
      BY <1>2, <1>4, <1>7
    <2>2. Renumberable(With(t, i, row))
      <3>1. row.position = new /\ i \in D
        BY <1>2, <1>7
      <3> HIDE DEF new, n, D, i, row
      <3> QED
        BY <1>1, <1>2, <1>5, <3>1, MoveRenumberable
    <2> HIDE DEF t
    <2> QED
      BY <1>7, <2>1, <2>2
  <1> QED
    BY <1>6, <1>7

(* Every step keeps the positions dense, or such that the renumbering to   *)
(* come makes them dense again.                                            *)
LEMMA PlacesStep ==
  ASSUME TypesOK, HomesOK, OneAtATime, PlacesOK, [Next]_vars
  PROVE  PlacesOK'
  <1>1. SUFFICES ASSUME ~mixed'
                 PROVE  PlacesOK'
    BY DEF PlacesOK
  <1>2. ASSUME NEW r \in Requests, Ask(r)
        PROVE  PlacesOK'
    <2>1. PICK q : /\ Arrives(r, q) /\ q.at \in {"file", "load", "delete"}
                   /\ q.at = "file" => q.idx = 0 /\ q.row.position = 0
      <3>1. ASSUME NEW sound \in {"upload", "keep"}, AskAdd(r, sound)
            PROVE  \E q : /\ Arrives(r, q) /\ q.at \in {"file", "load", "delete"}
                          /\ q.at = "file" => q.idx = 0 /\ q.row.position = 0
        <4>1. PICK q : /\ Arrives(r, q) /\ q.at = "file" /\ q.idx = 0
                       /\ q.row = [Blank EXCEPT !.trigger = created']
          BY <3>1, AskAddFacts
        <4>2. q.row.position = 0
          BY <4>1 DEF Blank
        <4> QED
          BY <4>1, <4>2
      <3>2. ASSUME NEW i \in Idx, Names(r, i)
            PROVE  \E q : /\ Arrives(r, q) /\ q.at \in {"file", "load", "delete"}
                          /\ q.at = "file" => q.idx = 0 /\ q.row.position = 0
        BY <3>2 DEF Names
      <3> QED
        BY <1>2, <3>1, <3>2, AskFacts DEF Ask
    <2>2. Solo(r, q) /\ ~mixed /\ (\A s \in Requests : req[s] = Idle) /\ rows' = rows
      BY <1>1, <2>1, ArrivesSolo DEF Arrives
    <2>3. Dense(rows')
      BY <2>2, IdleFacts DEF PlacesOK, Undisturbed
    <2>4. PlaceIsOK(q)'
      BY <2>1 DEF PlaceIsOK, Holding
    <2> QED
      BY <2>2, <2>3, <2>4, SoloPlaces
  <1>3. ASSUME NEW r \in Requests, Load(r)
        PROVE  PlacesOK'
    <2>1. ~mixed /\ req[r].at = "load" /\ rows' = rows
      BY <1>1, <1>3 DEF Load, histVars
    <2>2. Dense(rows) /\ Dense(rows')
      BY <2>1, PlacesOf
    <2>3. CASE Turns(r, Idle)
      <3>1. Solo(r, Idle) /\ PlaceIsOK(Idle)'
        BY <2>1, <2>3, StepSolo, IdleFacts DEF PlaceIsOK, Holding
      <3> QED
        BY <2>2, <3>1, SoloPlaces
    <2>4. CASE req[r].idx \in DOMAIN rows /\ \E q : Loaded(r, q)
      <3>1. PICK q : Loaded(r, q)
        BY <2>4
      <3>2. rows[req[r].idx].position \in Nat
        BY <2>2, <2>4 DEF Dense
      <3>3. req[r].place \in Nat
        BY <2>1 DEF TypesOK, RequestOK
      <3>4. /\ q.row.position \in Nat /\ q.idx \in DOMAIN rows' /\ q.at \in {"file", "place"}
            /\ Turns(r, q)
        BY <2>1, <2>4, <3>1, <3>2, <3>3 DEF Loaded
      <3>5. Solo(r, q) /\ PlaceIsOK(q)'
        BY <2>1, <3>4, StepSolo DEF PlaceIsOK
      <3> QED
        BY <2>2, <3>4, <3>5, SoloPlaces
    <2> QED
      BY <1>3, <2>3, <2>4, LoadFacts
  <1>4. ASSUME NEW r \in Requests, SoundFile(r)
        PROVE  PlacesOK'
    <2>1. ~mixed /\ req[r].at = "file" /\ rows' = rows
      BY <1>1, <1>4 DEF SoundFile
    <2>2. Dense(rows') /\ PlaceIsOK(req[r])
      BY <2>1, PlacesOf
    <2>3. PICK q : Sounding(r, q, q.row.sound)
      BY <1>4, SoundFileFacts
    <2>4. Solo(r, q) /\ PlaceIsOK(q)'
      BY <2>1, <2>2, <2>3, StepSolo DEF PlaceIsOK, Sounding, Holding
    <2> QED
      BY <2>2, <2>4, SoloPlaces
  <1>5. ASSUME NEW r \in Requests, ReadPosition(r)
        PROVE  PlacesOK'
    <2>1. ~mixed /\ req[r].at = "place" /\ rows' = rows
      BY <1>1, <1>5 DEF ReadPosition, histVars
    <2>2. Dense(rows) /\ Dense(rows') /\ PlaceIsOK(req[r])
      BY <2>1, PlacesOf
    <2>3. req[r].idx # 0 => req[r].idx \in DOMAIN rows
      BY <2>1, <2>2 DEF PlaceIsOK, Holding
    <2>4. PICK q : /\ Turns(r, q) /\ q.idx = req[r].idx /\ q.row = req[r].row
                   /\ \/ q.at = "shift" /\ (q.idx # 0 => q.from = rows[q.idx].position)
                      \/ q.at = "upsert" /\ q.idx \in DOMAIN rows /\ rows[q.idx].position = q.row.position
      BY <1>5, <2>3, ReadPositionFacts
    <2>5. Solo(r, q)
      BY <2>1, <2>4, StepSolo
    <2>6. q.at = "upsert" => Renumberable(With(rows', Target(q)', q.row))
      <3>1. SUFFICES ASSUME q.at = "upsert"
                     PROVE  Renumberable(With(rows, q.idx, q.row))
        <4>1. q.at = "upsert" => q.idx # 0
          BY <2>4, TableFacts
        <4>2. q.at = "upsert" => Target(q)' = q.idx
          BY <4>1 DEF Target
        <4> QED
          BY <2>1, <3>1, <4>2
      <3>2. q.idx \in DOMAIN rows /\ rows[q.idx].position = q.row.position
        BY <2>4, <3>1
      <3> QED
        BY <2>2, <3>2, DenseWith, TableFacts
    <2>7. PlaceIsOK(q)'
      <3>1. q.at \in {"shift", "upsert"} /\ req[r].at \in Holding
        BY <2>1, <2>4 DEF Holding
      <3> QED
        BY <2>1, <2>2, <2>4, <2>6, <3>1 DEF PlaceIsOK
    <2> QED
      BY <2>2, <2>5, <2>7, SoloPlaces
  <1>6. ASSUME NEW r \in Requests, Shift(r)
        PROVE  PlacesOK'
    <2>1. ~mixed /\ req[r].at = "shift"
      BY <1>1, <1>6 DEF Shift, histVars
    <2>2. PICK q : Turns(r, q) /\ q.idx = req[r].idx /\ q.row = req[r].row /\ q.at = "upsert"
      BY <1>6, ShiftFacts
    <2>3. Solo(r, q)
      BY <2>1, <2>2, StepSolo
    <2>4. PlaceIsOK(req[r]) /\ DOMAIN rows' = DOMAIN rows
      BY <1>6, <2>1, PlacesOf, ShiftFacts DEF OnlyMoved
    <2>5. Renumberable(With(rows', Target(q)', q.row))
      <3>1. Target(q)' = IF req[r].idx = 0 THEN NewIdx(rows') ELSE req[r].idx
        BY <2>2 DEF Target
      <3> QED
        BY <1>6, <2>1, <2>2, <3>1, ShiftPlaces
    <2>6. PlaceIsOK(q)'
      BY <2>1, <2>2, <2>4, <2>5 DEF PlaceIsOK, Holding
    <2> QED
      BY <2>2, <2>3, <2>6, SoloPlaces
  <1>7. ASSUME NEW r \in Requests, Upsert(r)
        PROVE  PlacesOK'
    <2>1. ~mixed /\ req[r].at = "upsert"
      BY <1>1, <1>7 DEF Upsert
    <2>2. PICK q : Turns(r, q) /\ q.at = "renumber"
      BY <1>7, UpsertFacts
    <2>3. Renumberable(rows')
      BY <1>7, <2>1, UpsertFacts, PlacesOf DEF PlaceIsOK
    <2>4. Solo(r, q) /\ PlaceIsOK(q)'
      BY <2>1, <2>2, <2>3, StepSolo DEF PlaceIsOK, Holding
    <2> QED
      BY <2>2, <2>4, SoloPlaces
  <1>8. ASSUME NEW r \in Requests, Delete(r)
        PROVE  PlacesOK'
    <2>1. /\ ~mixed /\ req[r].at = "delete"
          /\ rows' = [j \in DOMAIN rows \ {req[r].idx} |-> rows[j]]
      BY <1>1, <1>8 DEF Delete
    <2>2. PICK q : Turns(r, q) /\ q.at = "renumber"
      BY <1>8, DeleteGoes
    <2>3. Dense(rows)
      BY <2>1, PlacesOf
    <2>4. Renumberable(rows')
      BY <2>1, <2>3, TableFacts, RowPositions, DeleteRenumberable
    <2>5. Solo(r, q) /\ PlaceIsOK(q)'
      BY <2>1, <2>2, <2>4, StepSolo DEF PlaceIsOK, Holding
    <2> QED
      BY <2>2, <2>5, SoloPlaces
  <1>9. ASSUME NEW r \in Requests, Renumber(r)
        PROVE  PlacesOK'
    <2>1. ~mixed /\ req[r].at = "renumber"
      BY <1>1, <1>9 DEF Renumber, histVars
    <2>2. Dense(rows')
      BY <1>9, <2>1, PlacesOf, RenumberFacts DEF PlaceIsOK
    <2>3. Solo(r, Idle) /\ PlaceIsOK(Idle)'
      BY <1>9, <2>1, RenumberFacts, StepSolo, IdleFacts DEF PlaceIsOK, Holding
    <2> QED
      BY <2>2, <2>3, SoloPlaces
  <1>10. ASSUME SamePositions(rows, rows'), UNCHANGED <<req, mixed>>
         PROVE  PlacesOK'
    <2>1. (Undisturbed => Dense(rows)) /\ \A r \in Requests : PlaceIsOK(req[r])
      BY <1>1, <1>10 DEF PlacesOK
    <2>2. Undisturbed' => Dense(rows')
      BY <1>10, <2>1, SameOrder DEF Undisturbed
    <2>3. ASSUME NEW q, PlaceIsOK(q)
          PROVE  PlaceIsOK(q)'
      <3>1. NewIdx(rows) = NewIdx(rows')
        BY <1>10, SameOrderWith
      <3>2. Target(q)' = Target(q)
        BY <3>1 DEF Target
      <3>3. Renumberable(With(rows, Target(q), q.row)) => Renumberable(With(rows', Target(q)', q.row))
        BY <1>10, <3>2, SameOrderWith
      <3>4. Renumberable(rows) => Renumberable(rows')
        BY <1>10, SameOrder
      <3>5. DOMAIN rows' = DOMAIN rows /\ \A i \in DOMAIN rows : rows'[i].position = rows[i].position
        BY <1>10 DEF SamePositions
      <3>6. q.at = "shift" /\ q.idx # 0 => q.idx \in DOMAIN rows
        BY <2>3 DEF PlaceIsOK, Holding
      <3> QED
        BY <2>3, <3>3, <3>4, <3>5, <3>6 DEF PlaceIsOK
    <2>4. \A r \in Requests : PlaceIsOK(req[r])'
      <3>1. ASSUME NEW r \in Requests
            PROVE  PlaceIsOK(req[r])'
        <4> DEFINE q == req[r]
        <4>1. PICK p : p = q
          OBVIOUS
        <4>2. PlaceIsOK(p)'
          BY <2>1, <2>3, <4>1
        <4>3. req'[r] = p
          BY <1>10, <4>1
        <4> QED
          BY <4>2, <4>3 DEF PlaceIsOK, Target
      <3> QED
        BY <3>1
    <2> QED
      BY <2>2, <2>4 DEF PlacesOK
  <1>11. ASSUME NEW c \in calls, WebhookAnswered(c)
         PROVE  PlacesOK'
    <2>1. UNCHANGED <<req, mixed>>
      BY <1>11 DEF WebhookAnswered, histVars
    <2>2. SamePositions(rows, rows')
      BY <1>11, AnsweredFacts DEF SamePositions
    <2> QED
      BY <1>10, <2>1, <2>2
  <1>12. ASSUME (\E i \in Idx : CallWebhook(i)) \/ UNCHANGED vars
         PROVE  PlacesOK'
    <2>1. UNCHANGED <<rows, req, mixed>>
      BY <1>12 DEF CallWebhook, vars, histVars
    <2>2. SamePositions(rows, rows')
      BY <2>1 DEF SamePositions
    <2> QED
      BY <1>10, <2>1, <2>2
  <1>13. ASSUME Crash
         PROVE  PlacesOK'
    <2>1. /\ req' = [r \in Requests |-> Idle] /\ UNCHANGED rows
          /\ mixed' = (mixed \/ ~Quiet)
      BY <1>13 DEF Crash
    <2>2. ~mixed /\ \A r \in Requests : req[r] = Idle /\ req'[r] = Idle
      BY <1>1, <2>1 DEF Quiet
    <2>3. Dense(rows')
      BY <2>1, <2>2, IdleFacts DEF PlacesOK, Undisturbed
    <2>4. \A r \in Requests : PlaceIsOK(req[r])'
      BY <2>2, IdleFacts DEF PlaceIsOK, Holding
    <2> QED
      BY <2>3, <2>4 DEF PlacesOK
  <1>14. ASSUME NEW r \in Requests, StatementFails(r)
         PROVE  PlacesOK'
    BY <1>1, <1>14 DEF StatementFails
  <1> QED
    BY <1>2, <1>3, <1>4, <1>5, <1>6, <1>7, <1>8, <1>9, <1>11, <1>12, <1>13, <1>14 DEF Next, Step

----------------------------------------------------------------------------
(* The tables a user can have arrived at are in order.                     *)
LEMMA InitIInv ==
  ASSUME Init
  PROVE  IInv
  <1>a. PICK n \in 0 .. MaxTriggers - 1 : \E p \in Injection(1 .. n, 1 .. n) :
          rows = [i \in 1 .. n |-> [position |-> p[i], trigger |-> i, sound |-> i, status |-> 0]]
    BY DEF Init, InitialTables
  <1>1. PICK p \in Injection(1 .. n, 1 .. n) :
          rows = [i \in 1 .. n |-> [position |-> p[i], trigger |-> i, sound |-> i, status |-> 0]]
    BY <1>a
  <1>2. /\ n \in Nat /\ n < MaxTriggers /\ MaxTriggers \in Nat
        /\ DOMAIN rows = 1 .. n /\ p \in [1 .. n -> 1 .. n]
        /\ \A i, j \in 1 .. n : p[i] = p[j] => i = j
        /\ \A i \in 1 .. n : i \in Idx
    BY <1>1, StoreAssumption DEF Idx, Injection, IsInjective
  <1>3. ASSUME NEW i \in 1 .. n
        PROVE  /\ rows[i].position = p[i] /\ rows[i].trigger = i /\ rows[i].sound = i
               /\ rows[i].status = 0 /\ rows[i] \in Row
    BY <1>1, <1>2 DEF Row, Idx
  <1>4. Cardinality(1 .. n) = n /\ IsFiniteSet(1 .. n)
    <2>1. 1 \in Int /\ n \in Int /\ (IF 1 > n THEN 0 ELSE n - 1 + 1) = n
      BY <1>2
    <2> QED
      BY <2>1, FS_Interval
  <1>5. /\ files = 1 .. n /\ created = n /\ uploaded = n /\ calls = {} /\ deleted = {}
        /\ mixed = FALSE /\ req = [r \in Requests |-> Idle]
        /\ home = [t \in Idx |-> IF t \in 1 .. n THEN t ELSE 0]
    BY <1>2, <1>4 DEF Init
  <1>6. \A r \in Requests : req[r] = Idle
    BY <1>5
  <1>7. Homed = 1 .. n /\ \A t \in 1 .. n : home[t] = t
    BY <1>2, <1>5 DEF Homed
  <1>8. TypesOK
    <2>1. TableTypes
      <3>1. rows = [i \in 1 .. n |-> rows[i]]
        BY <1>1
      <3> QED
        BY <1>2, <1>3, <3>1 DEF TableTypes
    <2>2. RequestTypes
      BY <1>5, IdleFacts DEF RequestTypes, RequestOK
    <2>3. FileTypes
      BY <1>2, <1>3, <1>5, <1>6, IdleFacts DEF FileTypes, NamesOK, Blank
    <2>4. OtherTypes
      <3>1. \A k \in Idx : k \in 0 .. MaxTriggers /\ 0 \in 0 .. MaxTriggers
        BY <1>2 DEF Idx
      <3>2. home \in [Idx -> 0 .. MaxTriggers]
        BY <1>5, <3>1
      <3>3. calls = {} /\ deleted = {} /\ created \in 0 .. MaxTriggers
        BY <1>2, <1>5
      <3>4. mixed \in BOOLEAN
        BY <1>5, Zenon
      <3> QED
        BY <3>2, <3>3, <3>4 DEF OtherTypes
    <2> QED
      BY <2>1, <2>2, <2>3, <2>4, TypesParts
  <1>9. HomesOK
    <2>1. RowHomes /\ CallHomes /\ HomeBounds
      BY <1>2, <1>3, <1>4, <1>5, <1>7 DEF RowHomes, CallHomes, HomeBounds
    <2>2. RequestHomes /\ NewOnesDiffer
      BY <1>6, IdleFacts DEF RequestHomes, RowIsOwn, NewOnesDiffer, New, Holding
    <2> QED
      BY <2>1, <2>2 DEF HomesOK
  <1>10. KeptOK
    <2>1. ASSUME NEW t \in Homed
          PROVE  home[t] \in DOMAIN rows /\ rows[home[t]].trigger = t
      <3>1. t \in 1 .. n /\ home[t] = t
        BY <1>7
      <3> QED
        BY <1>2, <1>3, <3>1
    <2>2. \A t, u \in Homed : home[t] = home[u] => t = u
      BY <1>7
    <2> QED
      BY <2>1, <2>2 DEF KeptOK
  <1>11. OneAtATime
    BY <1>6, IdleFacts DEF OneAtATime
  <1>12. SoundsOK
    <2>1. OwnSounds /\ NamedSounds
      BY <1>2, <1>3, <1>5 DEF OwnSounds, NamedSounds
    <2>2. \A r \in Requests : SoundIsOwn(req[r])
      BY <1>6, IdleFacts DEF SoundIsOwn, Filed
    <2> QED
      BY <2>1, <2>2 DEF SoundsOK
  <1>13. PlacesOK
    <2>1. Dense(rows)
      <3>1. Cardinality(DOMAIN rows) = n
        BY <1>2, <1>4
      <3>2. \A i \in DOMAIN rows : rows[i].position \in 1 .. Cardinality(DOMAIN rows)
        <4>1. \A i \in 1 .. n : rows[i].position = p[i] /\ p[i] \in 1 .. n
          BY <1>2, <1>3
        <4> QED
          BY <1>2, <3>1, <4>1
      <3>3. \A i, j \in DOMAIN rows : rows[i].position = rows[j].position => i = j
        <4>1. \A i \in 1 .. n : rows[i].position = p[i]
          BY <1>3
        <4> QED
          BY <1>2, <4>1
      <3> QED
        BY <3>2, <3>3 DEF Dense
    <2>2. \A r \in Requests : PlaceIsOK(req[r])
      BY <1>6, IdleFacts DEF PlaceIsOK, Holding
    <2> QED
      BY <2>1, <2>2 DEF PlacesOK
  <1> QED
    BY <1>8, <1>9, <1>10, <1>11, <1>12, <1>13 DEF IInv

(* The invariant is inductive,                                             *)
LEMMA NextIInv ==
  ASSUME IInv, [Next]_vars
  PROVE  IInv'
  BY TypesStep, HomesStep, KeptStep, OneStep, SoundsStep, PlacesStep DEF IInv

(* and holds in every state.                                               *)
LEMMA Invariance ==
  Spec => []IInv
  <1>1. Init => IInv
    BY InitIInv
  <1>2. IInv /\ [Next]_vars => IInv'
    BY NextIInv
  <1> QED
    BY <1>1, <1>2, PTL DEF Spec

----------------------------------------------------------------------------
(* Whatever requests, faults and crashes there are, and in whatever order  *)
(* their statements run: a trigger leaves the table by a DELETE only, but  *)
(* for the one that a deleted trigger's late save writes over.             *)
THEOREM TriggersStay ==
  Spec => []TriggersAreKept
  <1>1. ASSUME IInv
        PROVE  TriggersAreKept
    BY <1>1 DEF IInv, KeptOK, TriggersAreKept, Homed
  <1> QED
    BY <1>1, Invariance, PTL

(* No row ever shows the status of a call made for another row's trigger,  *)
(* however late the answer and whoever has the idx by then.                *)
THEOREM StatusStaysOwn ==
  Spec => []StatusIsOwn
  <1>1. ASSUME IInv
        PROVE  StatusIsOwn
    <2>1. ASSUME NEW i \in DOMAIN rows, NEW j \in DOMAIN rows, rows[i].status = rows[j].trigger
          PROVE  i = j
      <3>1. rows[j].trigger # 0
        BY <1>1, StoreAssumption DEF IInv, TypesOK, TypeOK, Row, Idx
      <3> QED
        BY <1>1, <2>1, <3>1 DEF IInv, HomesOK, RowHomes
    <2> QED
      BY <2>1 DEF StatusIsOwn
  <1> QED
    BY <1>1, Invariance, PTL

(* Requests made one after the other leave no trigger with the name of a   *)
(* sound file that is gone, failed uploads and removals included.          *)
THEOREM SoundFilesStay ==
  Spec => []SoundFilesExist
  <1>1. ASSUME IInv
        PROVE  SoundFilesExist
    <2>1. ASSUME Quiet, ~mixed, NEW i \in DOMAIN rows
          PROVE  rows[i].sound \in files \cup {0}
      BY <1>1, <2>1, IdleFacts DEF IInv, SoundsOK, NamedSounds, Quiet, Filed
    <2> QED
      BY <2>1 DEF SoundFilesExist
  <1> QED
    BY <1>1, Invariance, PTL

(* And they leave the positions 1 .. n: a save in front, a drag to any     *)
(* place and a delete, of a table of any size.                             *)
THEOREM PositionsStayDense ==
  Spec => []PositionsAreDense
  <1>1. ASSUME IInv
        PROVE  PositionsAreDense
    <2>1. ASSUME Quiet, ~mixed
          PROVE  {rows[i].position : i \in DOMAIN rows} = 1 .. Cardinality(DOMAIN rows)
      <3>1. Undisturbed
        BY <2>1, IdleFacts DEF Quiet, Undisturbed
      <3>2. TypesOK /\ Dense(rows)
        BY <1>1, <2>1, <3>1 DEF IInv, PlacesOK
      <3> QED
        BY <3>2, TableFacts, DensePositions
    <2>2. TypeOK
      BY <1>1 DEF IInv, TypesOK
    <2> QED
      BY <2>1, <2>2 DEF PositionsAreDense
  <1> QED
    BY <1>1, Invariance, PTL

----------------------------------------------------------------------------
(* The list that KeepsOrder is about.  p gives each element of D a place,   *)
(* all different.                                                          *)
Places(D, p) ==
  /\ p \in [D -> 1 .. Cardinality(D)]
  /\ \A i, j \in D : p[i] = p[j] => i = j

(* s has each element of D in its place.                                   *)
Lists(D, p, s) ==
  /\ s \in [1 .. Cardinality(D) -> D]
  /\ \A m \in 1 .. Cardinality(D) : p[s[m]] = m

(* Every place has its element, and as many before it as it says.          *)
LEMMA PlacesCount ==
  ASSUME NEW D, IsFiniteSet(D), NEW p, Places(D, p)
  PROVE  \A m \in 1 .. Cardinality(D) :
           (\E i \in D : p[i] = m) /\ Cardinality({j \in D : p[j] < m}) = m - 1
  <1>1. p \in [D -> 1 .. Cardinality(D)] /\ \A i, j \in D : p[i] = p[j] => i = j
    BY DEF Places
  <1> QED
    BY <1>1, RankCount, Zenon

(* A rank that orders the elements as their places do sorts them into them.*)
LEMMA SortedLists ==
  ASSUME NEW D, IsFiniteSet(D), NEW p, Places(D, p), NEW rank, DOMAIN rank = D,
         \A i, j \in D : rank[j] < rank[i] <=> p[j] < p[i]
  PROVE  Lists(D, p, Sorted(rank))
  <1> DEFINE c == Cardinality(D)
             Before(i) == {j \in D : rank[j] < rank[i]}
             In(m, i) == Cardinality(Before(i)) = m - 1
             s == Sorted(rank)
  <1>1. s = [m \in 1 .. c |-> CHOOSE i \in D : In(m, i)]
    BY DEF Sorted
  <1>2. /\ p \in [D -> 1 .. c] /\ \A i, j \in D : p[i] = p[j] => i = j
        /\ \A m \in 1 .. c : (\E i \in D : p[i] = m) /\ Cardinality({j \in D : p[j] < m}) = m - 1
    <2> HIDE DEF s, Before, In
    <2> QED
      BY PlacesCount DEF Places
  <1>3. c \in Nat
    BY FS_CardinalityType
  <1>4. \A i \in D : Before(i) = {j \in D : p[j] < p[i]}
    OBVIOUS
  <1> HIDE DEF c, s, Before
  <1>5. \A i \in D : Cardinality(Before(i)) = p[i] - 1
    BY <1>2, <1>4
  <1>6. ASSUME NEW m \in 1 .. c, NEW i \in D
        PROVE  In(m, i) <=> p[i] = m
    <2>1. p[i] \in 1 .. c /\ Cardinality(Before(i)) = p[i] - 1
      BY <1>2, <1>5
    <2> QED
      BY <1>3, <2>1
  <1> HIDE DEF In
  <1>7. ASSUME NEW m \in 1 .. c
        PROVE  s[m] \in D /\ p[s[m]] = m
    <2>1. \E i \in D : In(m, i)
      BY <1>2, <1>6
    <2>2. s[m] \in D /\ In(m, s[m])
      BY <1>1, <2>1, Zenon
    <2> QED
      BY <1>6, <2>2
  <1>8. s \in [1 .. c -> D]
    BY <1>1, <1>7
  <1> QED
    BY <1>7, <1>8 DEF Lists, c, s

(* There is one list of it.                                                *)
LEMMA OneList ==
  ASSUME NEW D, NEW p, Places(D, p), NEW s, NEW t, Lists(D, p, s), Lists(D, p, t)
  PROVE  s = t
  <1> DEFINE c == Cardinality(D)
  <1>1. /\ s \in [1 .. c -> D] /\ t \in [1 .. c -> D]
        /\ \A m \in 1 .. c : p[s[m]] = m /\ p[t[m]] = m
    BY DEF Lists
  <1> HIDE DEF c
  <1>2. \A m \in 1 .. c : s[m] = t[m]
    BY <1>1 DEF Places
  <1>3. s = [m \in 1 .. c |-> s[m]] /\ t = [m \in 1 .. c |-> t[m]]
    BY <1>1
  <1>4. [m \in 1 .. c |-> s[m]] = [m \in 1 .. c |-> t[m]]
    BY <1>2, Zenon
  <1> QED
    BY <1>3, <1>4, Zenon

(* It has each element, once.                                              *)
LEMMA ListFacts ==
  ASSUME NEW D, IsFiniteSet(D), NEW p, Places(D, p), NEW s, Lists(D, p, s)
  PROVE  /\ s \in Seq(D) /\ Len(s) = Cardinality(D) /\ DOMAIN s = 1 .. Cardinality(D)
         /\ ToSet(s) = D
         /\ \A i \in D : s[p[i]] = i
         /\ \A j, k \in DOMAIN s : s[j] = s[k] => j = k
  <1> DEFINE c == Cardinality(D)
  <1>1. c \in Nat
    BY FS_CardinalityType
  <1>2. s \in [1 .. c -> D] /\ p \in [D -> 1 .. c] /\ \A m \in 1 .. c : p[s[m]] = m
    BY DEF Lists, Places
  <1>3. \A i \in D : p[i] \in 1 .. c /\ s[p[i]] = i
    BY <1>2 DEF Places
  <1> HIDE DEF c
  <1>4. ToSet(s) = D
    BY <1>2, <1>3 DEF ToSet
  <1>5. s \in Seq(D) /\ Len(s) = c
    BY <1>1, <1>2
  <1>6. \A j, k \in DOMAIN s : s[j] = s[k] => j = k
    BY <1>2
  <1> QED
    BY <1>2, <1>3, <1>4, <1>5, <1>6 DEF c

(* What a list is without one of its elements.                             *)
LEMMA WithoutFacts ==
  ASSUME NEW D, IsFiniteSet(D), NEW p, Places(D, p), NEW s, Lists(D, p, s), NEW x
  PROVE  LET rest == Ordered!Without(s, x)
         IN  /\ x \notin D => rest = s
             /\ x \in D => /\ rest \in Seq(D) /\ Len(rest) = Cardinality(D) - 1
                           /\ \A m \in 1 .. Cardinality(D) - 1 :
                                rest[m] = IF m < p[x] THEN s[m] ELSE s[m + 1]
  <1> DEFINE c == Cardinality(D)
  <1>1. /\ s \in Seq(D) /\ Len(s) = c /\ DOMAIN s = 1 .. c /\ ToSet(s) = D
        /\ \A i \in D : s[p[i]] = i
        /\ \A j, k \in DOMAIN s : s[j] = s[k] => j = k
    BY ListFacts
  <1>2. Ordered!ToSet(s) = D
    BY <1>1 DEF Ordered!ToSet, ToSet
  <1>3. CASE x \notin D
    BY <1>2, <1>3 DEF Ordered!Without
  <1>4. CASE x \in D
    <2>1. p[x] \in 1 .. c /\ s[p[x]] = x
      BY <1>1, <1>4 DEF Places
    <2> HIDE DEF c
    <2>2. (CHOOSE k \in DOMAIN s : s[k] = x) = p[x]
      BY <1>1, <2>1
    <2>3. Ordered!Without(s, x) = RemoveAt(s, p[x])
      BY <1>2, <1>4, <2>2 DEF Ordered!Without, Ordered!RemoveAt, RemoveAt
    <2>4. ASSUME NEW q \in 1 .. Len(s)
          PROVE  /\ RemoveAt(s, q) \in Seq(D) /\ Len(RemoveAt(s, q)) = c - 1
                 /\ \A m \in 1 .. c - 1 : RemoveAt(s, q)[m] = IF m < q THEN s[m] ELSE s[m + 1]
      BY <1>1, RemoveAtFacts
    <2>5. p[x] \in 1 .. Len(s)
      BY <1>1, <2>1
    <2> QED
      BY <1>4, <2>3, <2>4, <2>5 DEF c
  <1> QED
    BY <1>3, <1>4

(* A new element in front: each of the others is one place further back.   *)
LEMMA AddLists ==
  ASSUME NEW D, IsFiniteSet(D), NEW p, Places(D, p), NEW s, Lists(D, p, s), NEW x, x \notin D
  PROVE  LET E == D \cup {x}
             r == [j \in E |-> IF j = x THEN 1 ELSE p[j] + 1]
         IN  Places(E, r) /\ Lists(E, r, <<x>> \o s)
  <1> DEFINE c == Cardinality(D)
             E == D \cup {x}
             r == [j \in E |-> IF j = x THEN 1 ELSE p[j] + 1]
             t == <<x>> \o s
  <1>1. /\ s \in Seq(D) /\ Len(s) = c /\ s \in [1 .. c -> D] /\ c \in Nat
        /\ p \in [D -> 1 .. c] /\ \A i, j \in D : p[i] = p[j] => i = j
        /\ \A m \in 1 .. c : p[s[m]] = m
    BY ListFacts, FS_CardinalityType DEF Places, Lists
  <1>2. Cardinality(E) = c + 1
    BY FS_AddElement
  <1>3. s \in Seq(E) /\ <<x>> \in Seq(E) /\ Len(<<x>>) = 1 /\ <<x>>[1] = x
    BY <1>1
  <1>4. r[x] = 1 /\ \A j \in D : r[j] = p[j] + 1
    OBVIOUS
  <1> HIDE DEF c
  <1>5. r \in [E -> 1 .. c + 1]
    BY <1>1
  <1>6. /\ t \in Seq(E) /\ Len(t) = c + 1
        /\ \A m \in 1 .. c + 1 : t[m] = IF m <= 1 THEN <<x>>[m] ELSE s[m - 1]
    <2> HIDE DEF E
    <2>1. /\ t \in Seq(E) /\ Len(t) = Len(<<x>>) + Len(s)
          /\ \A m \in 1 .. Len(<<x>>) + Len(s) :
               t[m] = IF m <= Len(<<x>>) THEN <<x>>[m] ELSE s[m - Len(<<x>>)]
      BY <1>3, ConcatProperties
    <2>2. Len(<<x>>) + Len(s) = c + 1 /\ Len(<<x>>) = 1
      BY <1>1, <1>3
    <2> HIDE DEF t
    <2> QED
      BY <2>1, <2>2
  <1> HIDE DEF r, t
  <1>7. ASSUME NEW m \in 1 .. c + 1
        PROVE  t[m] \in E /\ r[t[m]] = m
    <2>1. CASE m = 1
      BY <1>3, <1>4, <1>6, <2>1
    <2>2. CASE m # 1
      <3>1. m - 1 \in 1 .. c /\ t[m] = s[m - 1]
        BY <1>1, <1>6, <2>2
      <3> QED
        BY <1>1, <1>4, <3>1
    <2> QED
      BY <2>1, <2>2
  <1>8. t \in [1 .. c + 1 -> E]
    BY <1>1, <1>6
  <1>9. \A i, j \in E : r[i] = r[j] => i = j
    <2>1. \A j \in D : p[j] + 1 # 1 /\ p[j] \in Int
      BY <1>1
    <2> QED
      BY <1>1, <1>4, <2>1
  <1>10. Places(E, r) /\ Lists(E, r, t)
    BY <1>2, <1>5, <1>7, <1>8, <1>9 DEF Places, Lists
  <1> QED
    BY <1>10 DEF r, t

(* One taken out: those behind it move up.                                 *)
LEMMA DeleteLists ==
  ASSUME NEW D, IsFiniteSet(D), NEW p, Places(D, p), NEW s, Lists(D, p, s), NEW x \in D
  PROVE  LET E == D \ {x}
             r == [j \in E |-> IF p[j] < p[x] THEN p[j] ELSE p[j] - 1]
         IN  Places(E, r) /\ Lists(E, r, Ordered!Without(s, x))
  <1> DEFINE c == Cardinality(D)
             E == D \ {x}
             r == [j \in E |-> IF p[j] < p[x] THEN p[j] ELSE p[j] - 1]
             t == Ordered!Without(s, x)
             f == p[x]
  <1>1. /\ s \in [1 .. c -> D] /\ c \in Nat
        /\ p \in [D -> 1 .. c] /\ \A i, j \in D : p[i] = p[j] => i = j
        /\ \A m \in 1 .. c : p[s[m]] = m
    BY FS_CardinalityType DEF Places, Lists
  <1>2. Cardinality(E) = c - 1
    BY FS_RemoveElement
  <1>3. /\ t \in Seq(D) /\ Len(t) = c - 1
        /\ \A m \in 1 .. c - 1 : t[m] = IF m < f THEN s[m] ELSE s[m + 1]
    BY WithoutFacts
  <1>4. f \in 1 .. c /\ \A j \in E : p[j] \in 1 .. c /\ p[j] # f
    BY <1>1
  <1>5. \A j \in E : r[j] = IF p[j] < f THEN p[j] ELSE p[j] - 1
    OBVIOUS
  <1> HIDE DEF c, t, f
  <1>6. r \in [E -> 1 .. c - 1]
    BY <1>1, <1>4 DEF f
  <1> HIDE DEF r
  <1>7. ASSUME NEW m \in 1 .. c - 1
        PROVE  t[m] \in E /\ r[t[m]] = m
    <2>1. m \in 1 .. c /\ m + 1 \in 1 .. c
      BY <1>1
    <2>2. CASE m < f
      <3>1. t[m] = s[m] /\ p[t[m]] = m /\ t[m] \in E
        BY <1>1, <1>3, <1>4, <2>1, <2>2 DEF f
      <3> QED
        BY <1>5, <2>2, <3>1
    <2>3. CASE ~(m < f)
      <3>1. t[m] = s[m + 1] /\ p[t[m]] = m + 1 /\ t[m] \in D
        BY <1>1, <1>3, <2>1, <2>3
      <3>2. m + 1 # f /\ ~(m + 1 < f) /\ m + 1 - 1 = m
        BY <1>4, <2>3
      <3>3. t[m] \in E
        BY <3>1, <3>2 DEF f
      <3> QED
        BY <1>5, <3>1, <3>2, <3>3
    <2> QED
      BY <2>2, <2>3
  <1>8. t \in [1 .. c - 1 -> E]
    BY <1>1, <1>3, <1>7
  <1>9. \A i, j \in E : r[i] = r[j] => i = j
    BY <1>1, <1>4, <1>5
  <1>10. Places(E, r) /\ Lists(E, r, t)
    BY <1>2, <1>6, <1>7, <1>8, <1>9 DEF Places, Lists
  <1> QED
    BY <1>10 DEF r, t, f

(* Where the row at place v gets when another is taken from f to k.        *)
Past(v, f, k) ==
  IF k < f THEN IF k <= v /\ v <= f THEN v + 1 ELSE v
  ELSE IF f <= v /\ v <= k THEN v - 1 ELSE v

(* One taken out and put in as the k-th.                                   *)
LEMMA MoveLists ==
  ASSUME NEW D, IsFiniteSet(D), NEW p, Places(D, p), NEW s, Lists(D, p, s), NEW x \in D,
         NEW k \in Nat \ {0}
  PROVE  LET at == IF k <= Cardinality(D) THEN k ELSE Cardinality(D)
             r  == [j \in D |-> IF j = x THEN at ELSE Past(p[j], p[x], at)]
         IN  Places(D, r) /\ Lists(D, r, Ordered!Moved(s, x, k))
  <1> DEFINE c == Cardinality(D)
             at == IF k <= Cardinality(D) THEN k ELSE Cardinality(D)
             r == [j \in D |-> IF j = x THEN at ELSE Past(p[j], p[x], at)]
             rest == Ordered!Without(s, x)
             t == Ordered!Moved(s, x, k)
             f == p[x]
  <1>1. /\ s \in [1 .. c -> D] /\ c \in Nat
        /\ p \in [D -> 1 .. c] /\ \A i, j \in D : p[i] = p[j] => i = j
        /\ \A m \in 1 .. c : p[s[m]] = m
    BY FS_CardinalityType DEF Places, Lists
  <1>2. f \in 1 .. c /\ \A j \in D : p[j] \in 1 .. c /\ (j # x => p[j] # f)
    BY <1>1
  <1>3. /\ rest \in Seq(D) /\ Len(rest) = c - 1
        /\ \A m \in 1 .. c - 1 : rest[m] = IF m < f THEN s[m] ELSE s[m + 1]
    BY WithoutFacts
  <1>4. at \in 1 .. c /\ at = IF k <= c - 1 THEN k ELSE c - 1 + 1
    <2> HIDE DEF f
    <2> QED
      BY <1>1, <1>2
  <1>5. t = InsertAt(rest, at, x)
    <2>1. t = InsertAt(rest, IF k <= Len(rest) THEN k ELSE Len(rest) + 1, x)
      BY DEF Ordered!Moved, Ordered!InsertAt, InsertAt
    <2> HIDE DEF t, rest, at
    <2> QED
      BY <1>3, <1>4, <2>1
  <1>6. r[x] = at /\ \A j \in D : j # x => r[j] = Past(p[j], f, at)
    OBVIOUS
  <1> HIDE DEF c, rest, t, f, at
  <1>7. /\ t \in Seq(D) /\ Len(t) = c
        /\ \A m \in 1 .. c : t[m] = IF m < at THEN rest[m] ELSE IF m = at THEN x ELSE rest[m - 1]
    <2>1. ASSUME NEW q \in 1 .. Len(rest) + 1
          PROVE  /\ InsertAt(rest, q, x) \in Seq(D) /\ Len(InsertAt(rest, q, x)) = Len(rest) + 1
                 /\ \A m \in 1 .. Len(rest) + 1 :
                      InsertAt(rest, q, x)[m] = IF m < q THEN rest[m] ELSE IF m = q THEN x ELSE rest[m - 1]
      <3>1. rest \in Seq(D) /\ q \in 1 .. Len(rest) + 1 /\ x \in D
        BY <1>3
      <3> HIDE DEF r
      <3>2. InsertAt(rest, q, x) \in Seq(D) /\ Len(InsertAt(rest, q, x)) = Len(rest) + 1
        BY <3>1, InsertAtFacts
      <3>3. \A m \in 1 .. Len(rest) + 1 :
              InsertAt(rest, q, x)[m] = IF m < q THEN rest[m] ELSE IF m = q THEN x ELSE rest[m - 1]
        BY <3>1, InsertAtFacts
      <3> QED
        BY <3>2, <3>3
    <2>2. Len(rest) + 1 = c
      BY <1>1, <1>3
    <2> QED
      BY <1>4, <1>5, <2>1, <2>2
  <1>8. \A v \in 1 .. c : v # f => Past(v, f, at) \in 1 .. c /\ Past(v, f, at) # at
    BY <1>1, <1>2, <1>4 DEF Past
  <1>9. \A v, w \in 1 .. c : v # f /\ w # f /\ Past(v, f, at) = Past(w, f, at) => v = w
    BY <1>1, <1>2, <1>4 DEF Past
  <1>10. r \in [D -> 1 .. c]
    <2>1. \A j \in D : r[j] \in 1 .. c
      BY <1>2, <1>4, <1>6, <1>8
    <2> QED
      BY <2>1
  <1> HIDE DEF r
  <1>11. ASSUME NEW m \in 1 .. c - 1
         PROVE  /\ rest[m] \in D /\ rest[m] # x
                /\ r[rest[m]] = IF m < at THEN m ELSE m + 1
    <2>1. m \in 1 .. c /\ m + 1 \in 1 .. c
      BY <1>1
    <2> DEFINE v == IF m < f THEN m ELSE m + 1
    <2>2. rest[m] = s[v] /\ v \in 1 .. c /\ v # f
      BY <1>2, <1>3, <2>1
    <2>3. Past(v, f, at) = IF m < at THEN m ELSE m + 1
      BY <1>1, <1>2, <1>4 DEF Past
    <2> HIDE DEF v
    <2>4. rest[m] \in D /\ p[rest[m]] = v
      BY <1>1, <2>2
    <2>5. rest[m] # x
      BY <2>2, <2>4 DEF f
    <2> QED
      BY <1>6, <2>3, <2>4, <2>5
  <1>12. ASSUME NEW m \in 1 .. c
         PROVE  t[m] \in D /\ r[t[m]] = m
    <2>1. CASE m < at
      <3>1. m \in 1 .. c - 1 /\ t[m] = rest[m]
        BY <1>1, <1>4, <1>7, <2>1
      <3> QED
        BY <1>11, <2>1, <3>1
    <2>2. CASE m = at
      BY <1>6, <1>7, <2>2
    <2>3. CASE at < m
      <3>1. m - 1 \in 1 .. c - 1 /\ t[m] = rest[m - 1] /\ ~(m - 1 < at) /\ m - 1 + 1 = m
        BY <1>1, <1>4, <1>7, <2>3
      <3> QED
        BY <1>11, <3>1
    <2> QED
      BY <1>4, <2>1, <2>2, <2>3
  <1>13. t \in [1 .. c -> D]
    BY <1>1, <1>7
  <1>14. \A i, j \in D : r[i] = r[j] => i = j
    <2>1. ASSUME NEW i \in D, NEW j \in D, i # x, j # x, r[i] = r[j]
          PROVE  i = j
      BY <1>1, <1>2, <1>6, <1>9, <2>1
    <2>2. \A j \in D : j # x => r[j] # r[x]
      BY <1>2, <1>6, <1>8
    <2> QED
      BY <2>1, <2>2
  <1>15. Places(D, r) /\ Lists(D, r, t)
    BY <1>10, <1>12, <1>13, <1>14 DEF Places, Lists, c
  <1> QED
    BY <1>15 DEF r, t, f, at

----------------------------------------------------------------------------
(* The places p are those that the list shows the rows in.                 *)
Placed(tbl, q, p) ==
  /\ Places(DOMAIN tbl, p)
  /\ \A i, j \in DOMAIN tbl : Rank(tbl, q)[j] < Rank(tbl, q)[i] <=> p[j] < p[i]

(* The list has the rows in their places.                                  *)
LEMMA PlacedLists ==
  ASSUME NEW tbl, NEW q, NEW p, IsFiniteSet(DOMAIN tbl), Placed(tbl, q, p)
  PROVE  Lists(DOMAIN tbl, p, Sorted(Rank(tbl, q)))
  <1>1. DOMAIN Rank(tbl, q) = DOMAIN tbl
    BY DEF Rank
  <1> QED
    BY <1>1, SortedLists DEF Placed

(* Rows that keep their places keep the list.                              *)
LEMMA SameList ==
  ASSUME NEW tbl, NEW q, NEW t, NEW u, NEW p, IsFiniteSet(DOMAIN tbl), DOMAIN t = DOMAIN tbl,
         Placed(tbl, q, p), Placed(t, u, p)
  PROVE  Sorted(Rank(t, u)) = Sorted(Rank(tbl, q))
  <1>1. Lists(DOMAIN tbl, p, Sorted(Rank(tbl, q)))
    BY PlacedLists
  <1>2. Lists(DOMAIN tbl, p, Sorted(Rank(t, u)))
    BY PlacedLists
  <1> QED
    BY <1>1, <1>2, OneList DEF Placed

(* Numbers that positions are in the order of.                             *)
Positioned(tbl, p) ==
  /\ Places(DOMAIN tbl, p)
  /\ \A i, j \in DOMAIN tbl : tbl[j].position < tbl[i].position <=> p[j] < p[i]

HaveInts(tbl) == \A i \in DOMAIN tbl : tbl[i].position \in Int

(* Between statements that disturb the order, the list is by position.     *)
LEMMA PositionedPlaced ==
  ASSUME NEW tbl, HaveInts(tbl), NEW q, q.at # "upsert", NEW p, Positioned(tbl, p)
  PROVE  Placed(tbl, q, p)
  <1>1. \A i \in DOMAIN tbl : Rank(tbl, q)[i] = 2 * tbl[i].position
    BY DEF Rank
  <1>2. \A i, j \in DOMAIN tbl : 2 * tbl[j].position < 2 * tbl[i].position <=>
                                 tbl[j].position < tbl[i].position
    BY DEF HaveInts
  <1> QED
    BY <1>1, <1>2 DEF Placed, Positioned

(* In order, the places are the positions.                                 *)
PositionsOf(tbl) == [i \in DOMAIN tbl |-> tbl[i].position]

(* Dense positions are such numbers.                                       *)
LEMMA DensePositioned ==
  ASSUME NEW tbl, Dense(tbl)
  PROVE  Positioned(tbl, PositionsOf(tbl))
  BY DEF Dense, Positioned, Places, PositionsOf

(* When room has been made for a row, the places are those before that.    *)
Disturbed(tbl, q, p) ==
  LET x == q.idx
  IN
  /\ Places(DOMAIN tbl, p)
  /\ IF x = 0 THEN \A j \in DOMAIN tbl : tbl[j].position = p[j] + 1
     ELSE /\ x \in DOMAIN tbl /\ tbl[x].position = p[x]
          /\ \A j \in DOMAIN tbl : j # x => tbl[j].position = Past(p[j], p[x], q.row.position)
          /\ q.row.position = p[x] \/ q.from = p[x]

(* The rank of a row tells which of two on one position was first.         *)
LEMMA DisturbedPlaced ==
  ASSUME NEW tbl, 0 \notin DOMAIN tbl, IsFiniteSet(DOMAIN tbl), NEW q, q.at = "upsert", NEW p,
         Disturbed(tbl, q, p), q.row.position \in Int, q.from \in Int
  PROVE  Placed(tbl, q, p)
  <1> DEFINE x == q.idx
             k == q.row.position
             c == Cardinality(DOMAIN tbl)
             rank == Rank(tbl, q)
  <1>1. /\ p \in [DOMAIN tbl -> 1 .. c] /\ c \in Nat /\ Places(DOMAIN tbl, p)
        /\ \A i, j \in DOMAIN tbl : p[i] = p[j] => i = j
    BY FS_CardinalityType DEF Disturbed, Places
  <1>2. /\ \A i \in DOMAIN tbl : i # x => rank[i] = 2 * tbl[i].position
        /\ x \in DOMAIN tbl => rank[x] = IF k < q.from THEN 2 * tbl[x].position + 1
                                         ELSE 2 * tbl[x].position - 1
    BY DEF Rank
  <1> HIDE DEF c, rank
  <1>3. CASE x = 0
    <2>1. \A i \in DOMAIN tbl : rank[i] = 2 * (p[i] + 1) /\ p[i] \in Int
      BY <1>1, <1>2, <1>3 DEF Disturbed
    <2>2. \A i, j \in DOMAIN tbl : rank[j] < rank[i] <=> p[j] < p[i]
      BY <2>1
    <2> QED
      BY <1>1, <2>2 DEF Placed, rank
  <1>4. CASE x # 0
    <2> DEFINE f == p[x]
    <2>1. x \in DOMAIN tbl /\ f \in 1 .. c /\ (k = f \/ q.from = f)
          /\ rank[x] = IF k < q.from THEN 2 * f + 1 ELSE 2 * f - 1
      BY <1>1, <1>2, <1>4 DEF Disturbed
    <2>2. \A j \in DOMAIN tbl : j # x => /\ p[j] \in 1 .. c /\ p[j] # f
                                         /\ rank[j] = 2 * Past(p[j], f, k)
      BY <1>1, <1>2, <1>4, <2>1 DEF Disturbed
    <2> HIDE DEF f
    <2>3. \A v \in 1 .. c : v # f =>
            /\ 2 * Past(v, f, k) < rank[x] <=> v < f
            /\ rank[x] < 2 * Past(v, f, k) <=> f < v
      BY <1>1, <2>1 DEF Past
    <2>4. \A v, w \in 1 .. c : v # f /\ w # f =>
            (2 * Past(v, f, k) < 2 * Past(w, f, k) <=> v < w)
      BY <1>1, <2>1 DEF Past
    <2>5. rank[x] \in Int
      BY <1>1, <2>1
    <2>6. ASSUME NEW i \in DOMAIN tbl, NEW j \in DOMAIN tbl
          PROVE  rank[j] < rank[i] <=> p[j] < p[i]
      <3>1. CASE i # x /\ j # x
        BY <2>2, <2>4, <3>1
      <3>2. CASE i = x /\ j # x
        BY <2>2, <2>3, <3>2 DEF f
      <3>3. CASE i # x /\ j = x
        BY <2>2, <2>3, <3>3 DEF f
      <3>4. CASE i = x /\ j = x
        BY <1>1, <2>5, <3>4
      <3> QED
        BY <3>1, <3>2, <3>3, <3>4
    <2> QED
      BY <1>1, <2>6 DEF Placed, rank
  <1> QED
    BY <1>3, <1>4

----------------------------------------------------------------------------
(* A table of the kind the store has.                                      *)
IsTable(tbl) ==
  /\ DOMAIN tbl \in SUBSET (1 .. MaxTriggers) /\ tbl \in [DOMAIN tbl -> Row]

(* It is finite, its idx start at 1 and its positions are numbers.         *)
LEMMA IsTableFacts ==
  ASSUME NEW tbl, IsTable(tbl)
  PROVE  /\ IsFiniteSet(DOMAIN tbl) /\ 0 \notin DOMAIN tbl /\ HaveInts(tbl)
         /\ MaxTriggers \in Nat /\ tbl \in [DOMAIN tbl -> Row]
  <1>1. MaxTriggers \in Nat /\ 0 \notin DOMAIN tbl
    BY StoreAssumption DEF IsTable
  <1>2. IsFiniteSet(DOMAIN tbl)
    BY <1>1, Enumeration DEF IsTable
  <1>3. HaveInts(tbl)
    BY DEF IsTable, HaveInts, Row
  <1> QED
    BY <1>1, <1>2, <1>3 DEF IsTable

(* The UPDATE that makes room in front leaves the order to be told.        *)
LEMMA RoomInFront ==
  ASSUME NEW tbl, IsTable(tbl), Dense(tbl), NEW q, q.idx = 0
  PROVE  Disturbed(Shifted(tbl, 0, Highest(tbl, 0), 1, 0), q, PositionsOf(tbl))
  <1> DEFINE D == DOMAIN tbl
             top == Highest(tbl, 0)
             t == Shifted(tbl, 0, top, 1, 0)
  <1>1. tbl \in [D -> Row] /\ HavePositions(Row) /\ MaxTriggers \in Nat /\ D \in SUBSET (1 .. MaxTriggers)
    BY IsTableFacts, RowPositions DEF IsTable
  <1>2. Positioned(tbl, PositionsOf(tbl))
    BY DensePositioned
  <1>3. \A j \in D : tbl[j].position \in 1 .. Cardinality(D) /\ Cardinality(D) \in Nat
    BY IsTableFacts, FS_CardinalityType DEF Dense
  <1>4. top \in Int /\ \A j \in D : tbl[j].position <= top
    <2>1. 0 \in Int
      OBVIOUS
    <2> HIDE DEF D
    <2> QED
      BY <1>1, <2>1, MaxOfPositions
  <1> HIDE DEF top, D
  <1>5. t \in [D -> Row] /\ MovedBy(tbl, t, 0, top, 1, 0)
    <2>1. 0 \in Int /\ 1 \in Int
      OBVIOUS
    <2> HIDE DEF t
    <2> QED
      BY <1>1, <1>4, <2>1, ShiftedRows DEF t
  <1>6. \A j \in D : t[j].position = tbl[j].position + 1
    <2>1. ASSUME NEW j \in D
          PROVE  Moves(tbl, 0, top, 0, j)
      <3>1. j # 0
        BY IsTableFacts DEF D
      <3> QED
        BY <1>3, <1>4, <3>1 DEF Moves
    <2> HIDE DEF t
    <2> QED
      BY <1>5, <2>1 DEF MovedBy, D
  <1> HIDE DEF t
  <1>7. Disturbed(t, q, PositionsOf(tbl))
    BY <1>2, <1>5, <1>6 DEF Disturbed, Positioned, PositionsOf, D
  <1> QED
    BY <1>7 DEF t, top

(* So does the one between the old place of a row and its new one.         *)
LEMMA RoomBetween ==
  ASSUME NEW tbl, IsTable(tbl), Dense(tbl), NEW q, q.idx # 0, q.idx \in DOMAIN tbl,
         q.from = tbl[q.idx].position, q.row.position \in Int
  PROVE  LET k == q.row.position
         IN  Disturbed(IF k < q.from THEN Shifted(tbl, k, q.from, 1, q.idx)
                       ELSE Shifted(tbl, q.from, k, -1, q.idx), q, PositionsOf(tbl))
  <1> DEFINE D == DOMAIN tbl
             k == q.row.position
             x == q.idx
             f == q.from
             lo == IF k < f THEN k ELSE f
             hi == IF k < f THEN f ELSE k
             d == IF k < f THEN 1 ELSE -1
             t == IF k < f THEN Shifted(tbl, k, f, 1, x) ELSE Shifted(tbl, f, k, -1, x)
  <1>1. tbl \in [D -> Row] /\ HavePositions(Row) /\ x \in D
    BY IsTableFacts, RowPositions
  <1>2. Positioned(tbl, PositionsOf(tbl))
    BY DensePositioned
  <1>3. \A j \in D : tbl[j].position \in 1 .. Cardinality(D) /\ Cardinality(D) \in Nat
    BY IsTableFacts, FS_CardinalityType DEF Dense
  <1>4. f \in Int /\ k \in Int /\ f = tbl[x].position /\ x # 0
    BY <1>1, <1>3
  <1> HIDE DEF D, x, f, k
  <1>5. lo \in Int /\ hi \in Int /\ d \in Int /\ t = Shifted(tbl, lo, hi, d, x)
    BY <1>4
  <1> HIDE DEF t, lo, hi, d
  <1>6. t \in [D -> Row] /\ MovedBy(tbl, t, lo, hi, d, x)
    BY <1>1, <1>5, ShiftedRows
  <1>7. t[x].position = f
    <2>1. t[x] = tbl[x]
      BY <1>1, <1>6 DEF MovedBy, Moves, D
    <2> QED
      BY <1>4, <2>1
  <1>8. ASSUME NEW j \in D, j # x
        PROVE  t[j].position = Past(tbl[j].position, f, k)
    <2>1. tbl[j].position \in Int
      BY <1>3
    <2>2. CASE lo <= tbl[j].position /\ tbl[j].position <= hi
      <3>1. t[j].position = tbl[j].position + d
        BY <1>6, <1>8, <2>2 DEF MovedBy, Moves, D
      <3> QED
        BY <1>4, <2>1, <2>2, <3>1 DEF lo, hi, d, Past
    <2>3. CASE ~(lo <= tbl[j].position /\ tbl[j].position <= hi)
      <3>1. t[j] = tbl[j]
        BY <1>6, <2>3 DEF MovedBy, Moves, D
      <3> QED
        BY <1>4, <2>1, <2>3, <3>1 DEF lo, hi, Past
    <2> QED
      BY <2>2, <2>3
  <1>9. Disturbed(t, q, PositionsOf(tbl))
    BY <1>1, <1>2, <1>4, <1>6, <1>7, <1>8 DEF Disturbed, Positioned, PositionsOf, D, x, f, k
  <1> QED
    BY <1>9 DEF t, k, f, x

(* A new row in front.                                                     *)
LEMMA AddedInFront ==
  ASSUME NEW tbl, IsTable(tbl), NEW q, q.at = "upsert", q.idx = 0, NEW p, Disturbed(tbl, q, p),
         NEW x, x \notin DOMAIN tbl, IsTable(With(tbl, x, q.row)), q.row.position = 0,
         NEW u, u.at # "upsert", q.from \in Int
  PROVE  Sorted(Rank(With(tbl, x, q.row), u)) = <<x>> \o Sorted(Rank(tbl, q))
  <1> DEFINE D == DOMAIN tbl
             E == D \cup {x}
             t == With(tbl, x, q.row)
             r == [j \in E |-> IF j = x THEN 1 ELSE p[j] + 1]
             s == Sorted(Rank(tbl, q))
  <1>1. IsFiniteSet(D) /\ 0 \notin D /\ HaveInts(t) /\ IsFiniteSet(E) /\ DOMAIN t = E
    <2>1. DOMAIN t = E
      BY DEF With
    <2> HIDE DEF t
    <2> QED
      BY <2>1, IsTableFacts DEF t
  <1>2. Placed(tbl, q, p) /\ Places(D, p)
    <2>1. q.row.position \in Int
      OBVIOUS
    <2> QED
      BY <1>1, <2>1, DisturbedPlaced DEF Disturbed
  <1>3. Lists(D, p, s)
    BY <1>1, <1>2, PlacedLists
  <1>4. Places(E, r) /\ Lists(E, r, <<x>> \o s)
    <2> HIDE DEF s
    <2> QED
      BY <1>1, <1>2, <1>3, AddLists
  <1>5. t[x].position = 0 /\ \A j \in D : t[j].position = p[j] + 1
    BY DEF With, Disturbed
  <1>6. \A j \in D : p[j] \in Nat \ {0}
    BY <1>1, <1>2, FS_CardinalityType DEF Places
  <1>7. r[x] = 1 /\ \A j \in D : r[j] = p[j] + 1
    OBVIOUS
  <1> HIDE DEF t, s, r
  <1>8. ASSUME NEW i \in E, NEW j \in E
        PROVE  t[j].position < t[i].position <=> r[j] < r[i]
    <2>1. CASE i = x /\ j = x
      BY <1>5, <1>7, <2>1
    <2>2. CASE i = x /\ j \in D
      BY <1>5, <1>6, <1>7, <2>2
    <2>3. CASE i \in D /\ j = x
      BY <1>5, <1>6, <1>7, <2>3
    <2>4. CASE i \in D /\ j \in D
      BY <1>5, <1>6, <1>7, <2>4
    <2> QED
      BY <2>1, <2>2, <2>3, <2>4
  <1> HIDE DEF E
  <1>9. Placed(t, u, r)
    BY <1>1, <1>4, <1>8, PositionedPlaced DEF Positioned
  <1>10. Lists(E, r, Sorted(Rank(t, u)))
    <2>1. Lists(DOMAIN t, r, Sorted(Rank(t, u)))
      BY <1>1, <1>9, PlacedLists
    <2> QED
      BY <1>1, <2>1
  <1>11. Sorted(Rank(t, u)) = <<x>> \o s
    BY <1>4, <1>10, OneList
  <1> QED
    BY <1>11 DEF t, s

(* A row put where it was asked to be.                                     *)
LEMMA PutInPlace ==
  ASSUME NEW tbl, IsTable(tbl), NEW q, q.at = "upsert", q.idx # 0, NEW p, Disturbed(tbl, q, p),
         IsTable(With(tbl, q.idx, q.row)), q.row.position \in Nat \ {0}, q.from \in Int,
         NEW u, u.at # "upsert"
  PROVE  Sorted(Rank(With(tbl, q.idx, q.row), u))
           = Ordered!Moved(Sorted(Rank(tbl, q)), q.idx, q.row.position)
  <1> DEFINE D == DOMAIN tbl
             c == Cardinality(D)
             x == q.idx
             k == q.row.position
             t == With(tbl, x, q.row)
             at == IF k <= c THEN k ELSE c
             r == [j \in D |-> IF j = x THEN at ELSE Past(p[j], p[x], at)]
             s == Sorted(Rank(tbl, q))
  <1>1. x \in D /\ Places(D, p)
    BY DEF Disturbed
  <1>2. IsFiniteSet(D) /\ 0 \notin D /\ HaveInts(t) /\ DOMAIN t = D
    <2>1. DOMAIN t = D
      BY <1>1 DEF With
    <2> HIDE DEF t
    <2> QED
      BY <2>1, IsTableFacts DEF t
  <1>3. Lists(D, p, s)
    <2>1. k \in Int
      OBVIOUS
    <2>2. Placed(tbl, q, p)
      BY <1>2, <2>1, DisturbedPlaced
    <2> QED
      BY <1>2, <2>2, PlacedLists
  <1>4. Places(D, r) /\ Lists(D, r, Ordered!Moved(s, x, k))
    <2> HIDE DEF s, D, x, k
    <2> QED
      BY <1>1, <1>2, <1>3, MoveLists DEF k
  <1>5. /\ t[x].position = k
        /\ \A j \in D : j # x => t[j].position = Past(p[j], p[x], k)
    BY DEF With, Disturbed
  <1>6. r[x] = at /\ \A j \in D : j # x => r[j] = Past(p[j], p[x], at)
    BY <1>1
  <1>7. c \in Nat /\ k \in Nat \ {0} /\ \A j \in D : p[j] \in 1 .. c /\ (j # x => p[j] # p[x])
    BY <1>1, <1>2, FS_CardinalityType DEF Places
  <1>8. \A j \in D : r[j] \in 1 .. c /\ (j # x => r[j] # r[x])
    BY <1>1, <1>4 DEF Places
  <1> HIDE DEF t, s, r, D, k, x, c
  <1>9. \A j \in D : j # x => t[j].position = r[j]
    <2>1. \A v, f \in 1 .. c : Past(v, f, k) = Past(v, f, at)
      BY <1>7 DEF Past
    <2> QED
      BY <1>1, <1>5, <1>6, <1>7, <2>1
  <1>10. ASSUME NEW i \in D, NEW j \in D
         PROVE  t[j].position < t[i].position <=> r[j] < r[i]
    <2>1. CASE i # x /\ j # x
      BY <1>9, <2>1
    <2>2. CASE i = x /\ j # x
      BY <1>1, <1>5, <1>6, <1>7, <1>8, <1>9, <2>2
    <2>3. CASE i # x /\ j = x
      BY <1>1, <1>5, <1>6, <1>7, <1>8, <1>9, <2>3
    <2>4. CASE i = x /\ j = x
      BY <1>1, <1>5, <1>7, <1>8, <2>4
    <2> QED
      BY <2>1, <2>2, <2>3, <2>4
  <1>11. Placed(t, u, r)
    BY <1>2, <1>4, <1>10, PositionedPlaced DEF Positioned
  <1>12. Lists(D, r, Sorted(Rank(t, u)))
    <2>1. Lists(DOMAIN t, r, Sorted(Rank(t, u)))
      BY <1>2, <1>11, PlacedLists
    <2> QED
      BY <1>2, <2>1
  <1>13. Sorted(Rank(t, u)) = Ordered!Moved(s, x, k)
    BY <1>4, <1>12, OneList
  <1> QED
    BY <1>13 DEF t, s, x, k

(* A row put where it is.                                                  *)
LEMMA KeptInPlace ==
  ASSUME NEW tbl, IsTable(tbl), NEW q, q.at = "upsert", q.idx # 0, NEW p, Disturbed(tbl, q, p),
         IsTable(With(tbl, q.idx, q.row)), q.row.position = tbl[q.idx].position, q.from \in Int,
         NEW u, u.at # "upsert"
  PROVE  Sorted(Rank(With(tbl, q.idx, q.row), u)) = Sorted(Rank(tbl, q))
  <1> DEFINE D == DOMAIN tbl
             x == q.idx
             f == p[x]
             t == With(tbl, x, q.row)
  <1>1. x \in D /\ Places(D, p) /\ q.row.position = f /\ f \in Int
    BY DEF Disturbed, Places
  <1>2. IsFiniteSet(D) /\ 0 \notin D /\ HaveInts(t) /\ DOMAIN t = D
    <2>1. DOMAIN t = D
      BY <1>1 DEF With
    <2> HIDE DEF t
    <2> QED
      BY <2>1, IsTableFacts DEF t
  <1>3. Placed(tbl, q, p)
    BY <1>1, <1>2, DisturbedPlaced
  <1>4. \A j \in D : t[j].position = p[j]
    <2>1. \A v \in Int : v # f => Past(v, f, f) = v
      BY <1>1 DEF Past
    <2>2. \A j \in D : p[j] \in Int /\ (j # x => p[j] # f)
      BY <1>1 DEF Places
    <2>3. \A j \in D : j # x => t[j].position = Past(p[j], f, f)
      BY <1>1 DEF With, Disturbed
    <2>4. t[x].position = f
      BY <1>1 DEF With
    <2> HIDE DEF t, f
    <2> QED
      BY <2>1, <2>2, <2>3, <2>4 DEF f
  <1> HIDE DEF t
  <1>5. Placed(t, u, p)
    BY <1>1, <1>2, <1>4, PositionedPlaced DEF Positioned
  <1>6. Sorted(Rank(t, u)) = Sorted(Rank(tbl, q))
    BY <1>2, <1>3, <1>5, SameList
  <1> QED
    BY <1>6 DEF t

(* A row taken out.                                                        *)
LEMMA TakenOut ==
  ASSUME NEW tbl, IsTable(tbl), Dense(tbl), NEW q, q.at # "upsert", NEW u, u.at # "upsert", NEW x
  PROVE  Sorted(Rank([j \in DOMAIN tbl \ {x} |-> tbl[j]], u))
           = Ordered!Without(Sorted(Rank(tbl, q)), x)
  <1> DEFINE D == DOMAIN tbl
             p == PositionsOf(tbl)
             t == [j \in D \ {x} |-> tbl[j]]
             s == Sorted(Rank(tbl, q))
  <1>1. /\ IsFiniteSet(D) /\ HaveInts(tbl) /\ Positioned(tbl, p) /\ Places(D, p)
        /\ Placed(tbl, q, p)
    BY IsTableFacts, DensePositioned, PositionedPlaced DEF Positioned
  <1>2. Lists(D, p, s)
    BY <1>1, PlacedLists
  <1>3. CASE x \notin D
    <2>1. t = tbl
      BY <1>3, IsTableFacts
    <2>2. Placed(tbl, u, p)
      BY <1>1, PositionedPlaced
    <2>3. Sorted(Rank(tbl, u)) = s
      BY <1>1, <2>2, SameList
    <2>4. Ordered!Without(s, x) = s
      <3> HIDE DEF s, p, D
      <3> QED
        BY <1>1, <1>2, <1>3, WithoutFacts
    <2> QED
      BY <2>1, <2>3, <2>4
  <1>4. CASE x \in D
    <2> DEFINE E == D \ {x}
               r == [j \in E |-> IF p[j] < p[x] THEN p[j] ELSE p[j] - 1]
    <2>1. Places(E, r) /\ Lists(E, r, Ordered!Without(s, x))
      <3> HIDE DEF s, p, D
      <3> QED
        BY <1>1, <1>2, <1>4, DeleteLists
    <2>2. /\ \A j \in E : r[j] = IF p[j] < p[x] THEN p[j] ELSE p[j] - 1
          /\ \A j \in E : t[j].position = p[j]
          /\ DOMAIN t = E
      BY DEF PositionsOf
    <2>3. p[x] \in Int /\ \A j \in E : p[j] \in Int /\ p[j] # p[x]
      BY <1>1, <1>4 DEF Places
    <2> HIDE DEF r, t, p, s
    <2>4. HaveInts(t)
      BY <2>2, <2>3 DEF HaveInts
    <2>5. \A i, j \in E : t[j].position < t[i].position <=> r[j] < r[i]
      BY <2>2, <2>3
    <2>6. Placed(t, u, r)
      BY <2>1, <2>2, <2>4, <2>5, PositionedPlaced DEF Positioned
    <2>7. IsFiniteSet(E)
      BY <1>1, FS_RemoveElement
    <2> HIDE DEF E
    <2>8. Lists(E, r, Sorted(Rank(t, u)))
      <3>1. Lists(DOMAIN t, r, Sorted(Rank(t, u)))
        BY <2>2, <2>6, <2>7, PlacedLists
      <3> QED
        BY <2>2, <3>1
    <2>9. Sorted(Rank(t, u)) = Ordered!Without(s, x)
      BY <2>1, <2>8, OneList
    <2> QED
      BY <2>9 DEF t, s
  <1> QED
    BY <1>3, <1>4

(* The renumbering closes gaps and moves nothing past anything.            *)
LEMMA RenumberedAlike ==
  ASSUME NEW tbl, IsTable(tbl), Renumberable(tbl), NEW q, q.at # "upsert", NEW u, u.at # "upsert"
  PROVE  Sorted(Rank(Renumbered(tbl), u)) = Sorted(Rank(tbl, q))
  <1> DEFINE D == DOMAIN tbl
             t == Renumbered(tbl)
  <1>1. /\ IsFiniteSet(D) /\ HaveInts(tbl) /\ tbl \in [D -> Row] /\ HavePositions(Row)
        /\ MaxTriggers \in Nat /\ D \in SUBSET (1 .. MaxTriggers)
    BY IsTableFacts, RowPositions DEF IsTable
  <1>2. /\ t \in [D -> Row]
        /\ \E rank : Ranks(tbl, rank) /\ \A i \in D : t[i].position = rank[i]
    <2> HIDE DEF D
    <2> QED
      BY <1>1, RenumberedDense
  <1>3. PICK rank : Ranks(tbl, rank) /\ \A i \in D : t[i].position = rank[i]
    BY <1>2
  <1>4. Places(D, rank) /\ \A i \in D : tbl[i].position \in Int /\ rank[i] \in Int
    BY <1>1, <1>3 DEF Ranks, Places, HaveInts
  <1>5. Positioned(tbl, rank)
    <2>1. ASSUME NEW i \in D, NEW j \in D
          PROVE  tbl[j].position < tbl[i].position <=> rank[j] < rank[i]
      <3>1. CASE i = j
        BY <1>4, <3>1
      <3>2. CASE i # j
        BY <1>3, <3>2 DEF Ranks
      <3> QED
        BY <3>1, <3>2
    <2> QED
      BY <1>4, <2>1 DEF Positioned
  <1> HIDE DEF t
  <1>6. Positioned(t, rank) /\ HaveInts(t) /\ DOMAIN t = D
    BY <1>2, <1>3, <1>4, <1>5 DEF Positioned, HaveInts
  <1>7. Placed(tbl, q, rank) /\ Placed(t, u, rank)
    BY <1>1, <1>5, <1>6, PositionedPlaced
  <1>8. Sorted(Rank(t, u)) = Sorted(Rank(tbl, q))
    BY <1>1, <1>6, <1>7, SameList
  <1> QED
    BY <1>8 DEF t

----------------------------------------------------------------------------
(* Where request q and the table are between its statements: what it was   *)
(* asked is what its row says, and the room made leaves the order to tell. *)
OrderOK(tbl, q) ==
  /\ q.at = "load" => q.op = "keep" \/ (q.op = "move" /\ q.place \in Nat \ {0})
  /\ q.at = "delete" => q.op = "delete"
  /\ q.at \in Holding =>
       IF q.idx = 0 THEN q.op = "add" /\ q.row.position = 0
       ELSE \/ q.op = "move" /\ q.row.position = q.place /\ q.place \in Nat \ {0}
            \/ q.op = "keep" /\ q.row.position = tbl[q.idx].position /\ q.at # "shift"
  /\ q.at = "upsert" => \E p : Disturbed(tbl, q, p)

(* One request at a time, none cut short.                                  *)
Single(r) == Requests = {r} /\ IInv /\ ~mixed /\ OrderOK(rows, req[r])

(* What the list and the wish are then, before a step                      *)
LEMMA SingleFacts ==
  ASSUME NEW r, Single(r)
  PROVE  /\ r \in Requests /\ TypesOK /\ HomesOK /\ IsTable(rows)
         /\ req \in [Requests -> Request] /\ req[r] \in Request
         /\ RequestOK(req[r]) /\ PlaceIsOK(req[r]) /\ OrderOK(rows, req[r])
         /\ req[r].at \notin {"upsert", "renumber"} => Dense(rows)
         /\ Listed = Sorted(Rank(rows, req[r])) /\ Asked = Wish(req[r])
  <1>1. r \in Requests /\ Requests = {r} /\ TypesOK /\ HomesOK /\ PlacesOK /\ OneAtATime /\ ~mixed
    BY DEF Single, IInv
  <1>2. IsTable(rows)
    BY <1>1, TableFacts DEF IsTable
  <1>3. req[r].at \notin {"upsert", "renumber"} => Dense(rows)
    BY <1>1 DEF PlacesOK, Undisturbed
  <1>4. (CHOOSE s \in Requests : TRUE) = r
    BY <1>1
  <1>5. Listed = Sorted(Rank(rows, req[r])) /\ Asked = Wish(req[r])
    BY <1>4 DEF Listed, Asked, Only
  <1> QED
    BY <1>1, <1>2, <1>3, <1>5 DEF TypesOK, PlacesOK, Single

(* and after it.                                                           *)
LEMMA SingleAfter ==
  ASSUME NEW r, Requests = {r}
  PROVE  Listed' = Sorted(Rank(rows', req'[r])) /\ Asked' = Wish(req'[r])
  <1>1. (CHOOSE s \in Requests : TRUE) = r
    OBVIOUS
  <1> QED
    BY <1>1 DEF Listed, Asked, Only

(* A step of the table and the request that is one of the list, or none.   *)
Follows(r) == OrderOK(rows', req'[r]) /\ [Ordered!Next]_<<Listed, Asked>>

(* A step that changes neither the list nor the wish.                      *)
LEMMA Stays ==
  ASSUME NEW r, Single(r), OrderOK(rows', req'[r]), Wish(req'[r]) = Wish(req[r]),
         Sorted(Rank(rows', req'[r])) = Sorted(Rank(rows, req[r]))
  PROVE  Follows(r)
  <1>1. UNCHANGED <<Listed, Asked>>
    BY SingleFacts, SingleAfter DEF Single
  <1> QED
    BY <1>1 DEF Follows

(* Until room is made the list is by position, whatever the request.       *)
LEMMA ByPosition ==
  ASSUME NEW tbl, NEW q, q.at # "upsert", NEW u, u.at # "upsert"
  PROVE  Sorted(Rank(tbl, u)) = Sorted(Rank(tbl, q))
  BY DEF Rank

(* The list is of the table's rows.                                        *)
LEMMA ListedRows ==
  ASSUME NEW tbl, IsTable(tbl), NEW q, NEW p, Placed(tbl, q, p)
  PROVE  /\ Ordered!ToSet(Sorted(Rank(tbl, q))) = DOMAIN tbl
         /\ Ordered!IsInjective(Sorted(Rank(tbl, q)))
  <1> DEFINE s == Sorted(Rank(tbl, q))
  <1>1. IsFiniteSet(DOMAIN tbl) /\ Places(DOMAIN tbl, p)
    BY IsTableFacts DEF Placed
  <1>2. Lists(DOMAIN tbl, p, s)
    BY <1>1, PlacedLists
  <1> HIDE DEF s
  <1>3. ToSet(s) = DOMAIN tbl /\ \A j, k \in DOMAIN s : s[j] = s[k] => j = k
    BY <1>1, <1>2, ListFacts
  <1>4. Ordered!ToSet(s) = DOMAIN tbl /\ Ordered!IsInjective(s)
    BY <1>3 DEF Ordered!ToSet, ToSet, Ordered!IsInjective
  <1> QED
    BY <1>4 DEF s

(* A request that has nothing left to do wishes for nothing.               *)
LEMMA WishFacts ==
  /\ Wish(Idle) = Ordered!Nothing
  /\ \A q : q.at = "renumber" => Wish(q) = Ordered!Nothing
  /\ \A q : q.at \in Holding \cup {"load", "delete"} =>
       Wish(q) = [op |-> q.op, item |-> q.idx, place |-> IF q.op = "move" THEN q.place ELSE 0]
  BY IdleFacts DEF Wish, Holding, Ordered!Nothing

(* One that is idle is bound to nothing.                                   *)
LEMMA IdleOrder ==
  ASSUME NEW tbl
  PROVE  OrderOK(tbl, Idle)
  BY IdleFacts DEF OrderOK, Holding

(* A request arrives.                                                      *)
LEMMA AskFollows ==
  ASSUME NEW r, Single(r), Ask(r)
  PROVE  Follows(r) /\ mixed' = mixed
  <1> DEFINE added(s) == [Idle EXCEPT !.at = "file", !.op = "add", !.sound = s,
                                      !.row = [Blank EXCEPT !.trigger = created']]
             saved(i, s) == [Idle EXCEPT !.at = "load", !.op = "keep", !.idx = i, !.sound = s]
             moved(i, k) == [Idle EXCEPT !.at = "load", !.op = "move", !.idx = i, !.place = k]
             gone(i) == [Idle EXCEPT !.at = "delete", !.op = "delete", !.idx = i]
             Asks(u) == /\ Wish(u) \in Ordered!Wishes \ {Ordered!Nothing}
                        /\ u.at # "upsert" /\ OrderOK(rows, u)
  <1>1. /\ Requests = {r} /\ r \in Requests /\ req \in [Requests -> Request]
        /\ Listed = Sorted(Rank(rows, req[r])) /\ Asked = Wish(req[r])
    BY SingleFacts DEF Single
  <1>2. SUFFICES ASSUME NEW u, Begin(r, u), Asks(u)
                 PROVE  Follows(r) /\ mixed' = mixed
    <2>1. \A i \in Idx : i \in Nat \ {0} /\ i \in Idx \cup {0}
      BY StoreAssumption DEF Idx
    <2>2. ASSUME NEW s \in {"upload", "keep"}, AskAdd(r, s)
          PROVE  Asks(added(s)) /\ Begin(r, added(s))
      <3>1. /\ added(s).at = "file" /\ added(s).op = "add" /\ added(s).idx = 0
            /\ added(s).row.position = 0
        BY DEF Idle, Blank
      <3>2. Begin(r, added(s))
        BY <2>2 DEF AskAdd
      <3> HIDE DEF added
      <3>3. Wish(added(s)) = [op |-> "add", item |-> 0, place |-> 0]
        BY <3>1, WishFacts DEF Holding
      <3>4. OrderOK(rows, added(s))
        BY <3>1 DEF OrderOK, Holding
      <3> QED
        BY <3>1, <3>2, <3>3, <3>4 DEF Ordered!Wishes, Ordered!Nothing
    <2>3. ASSUME NEW i \in Idx, NEW s \in {"upload", "keep", "clear"}, AskSave(r, i, s)
          PROVE  Asks(saved(i, s)) /\ Begin(r, saved(i, s))
      <3>1. /\ saved(i, s).at = "load" /\ saved(i, s).op = "keep" /\ saved(i, s).idx = i
        BY DEF Idle
      <3>2. Begin(r, saved(i, s))
        BY <2>3 DEF AskSave
      <3> HIDE DEF saved
      <3>3. Wish(saved(i, s)) = [op |-> "keep", item |-> i, place |-> 0]
        BY <3>1, WishFacts
      <3>4. OrderOK(rows, saved(i, s))
        BY <3>1 DEF OrderOK, Holding
      <3> QED
        BY <2>1, <3>1, <3>2, <3>3, <3>4 DEF Ordered!Wishes, Ordered!Nothing
    <2>4. ASSUME NEW i \in Idx, NEW k \in Idx, AskMove(r, i, k)
          PROVE  Asks(moved(i, k)) /\ Begin(r, moved(i, k))
      <3>1. /\ moved(i, k).at = "load" /\ moved(i, k).op = "move" /\ moved(i, k).idx = i
            /\ moved(i, k).place = k
        BY DEF Idle
      <3>2. Begin(r, moved(i, k))
        BY <2>4 DEF AskMove
      <3> HIDE DEF moved
      <3>3. Wish(moved(i, k)) = [op |-> "move", item |-> i, place |-> k]
        BY <3>1, WishFacts
      <3>4. OrderOK(rows, moved(i, k))
        BY <2>1, <3>1 DEF OrderOK, Holding
      <3> QED
        BY <2>1, <3>1, <3>2, <3>3, <3>4 DEF Ordered!Wishes, Ordered!Nothing
    <2>5. ASSUME NEW i \in Idx, AskDelete(r, i)
          PROVE  Asks(gone(i)) /\ Begin(r, gone(i))
      <3>1. gone(i).at = "delete" /\ gone(i).op = "delete" /\ gone(i).idx = i
        BY DEF Idle
      <3>2. Begin(r, gone(i))
        BY <2>5 DEF AskDelete
      <3> HIDE DEF gone
      <3>3. Wish(gone(i)) = [op |-> "delete", item |-> i, place |-> 0]
        BY <3>1, WishFacts
      <3>4. OrderOK(rows, gone(i))
        BY <3>1 DEF OrderOK, Holding
      <3> QED
        BY <2>1, <3>1, <3>2, <3>3, <3>4 DEF Ordered!Wishes, Ordered!Nothing
    <2> HIDE DEF added, saved, moved, gone, Asks
    <2> QED
      BY <1>2, <2>2, <2>3, <2>4, <2>5 DEF Ask
  <1>3. req[r] = Idle /\ req'[r] = u /\ rows' = rows /\ mixed' = (mixed \/ ~Quiet)
    BY <1>1, <1>2 DEF Begin
  <1>4. Asked = Ordered!Nothing /\ Asked' = Wish(u)
    BY <1>1, <1>3, WishFacts, SingleAfter
  <1>5. Listed' = Listed
    <2>1. req[r].at # "upsert"
      BY <1>3, IdleFacts
    <2> QED
      BY <1>1, <1>2, <1>3, <2>1, ByPosition, SingleAfter
  <1>6. mixed' = mixed
    <2>1. Quiet /\ mixed \in BOOLEAN
      BY <1>1, <1>3, SingleFacts DEF Quiet, TypesOK, TypeOK
    <2> QED
      BY <1>3, <2>1
  <1>7. OrderOK(rows', req'[r])
    BY <1>2, <1>3
  <1> QED
    BY <1>2, <1>4, <1>5, <1>6, <1>7 DEF Follows, Ordered!Next, Ordered!Ask

(* A row that is gone turns its request down; one that is there is read.   *)
LEMMA LoadFollows ==
  ASSUME NEW r, Single(r), Load(r)
  PROVE  Follows(r)
  <1> DEFINE q == req[r]
             i == q.idx
  <1>1. /\ Requests = {r} /\ r \in Requests /\ TypesOK /\ req \in [Requests -> Request]
        /\ q \in Request /\ RequestOK(q) /\ OrderOK(rows, q) /\ IsTable(rows)
        /\ Listed = Sorted(Rank(rows, q)) /\ Asked = Wish(q)
    BY SingleFacts DEF Single
  <1>2. q.at = "load" /\ i # 0 /\ rows' = rows
    BY <1>1 DEF Load, RequestOK
  <1>3. Dense(rows)
    BY <1>2, SingleFacts
  <1>4. Asked = [op |-> q.op, item |-> i, place |-> IF q.op = "move" THEN q.place ELSE 0]
    BY <1>1, <1>2, WishFacts
  <1>5. q.op = "keep" \/ (q.op = "move" /\ q.place \in Nat \ {0})
    BY <1>1, <1>2 DEF OrderOK
  <1>6. CASE i \notin DOMAIN rows
    <2>1. req'[r] = Idle
      BY <1>1, <1>6 DEF Load, End
    <2>2. Asked' = Ordered!Nothing /\ OrderOK(rows', req'[r])
      BY <1>1, <2>1, SingleAfter, WishFacts, IdleOrder
    <2>3. Listed' = Listed
      BY <1>1, <1>2, <2>1, IdleFacts, ByPosition, SingleAfter
    <2>4. Ordered!ToSet(Listed) = DOMAIN rows
      <3>1. Placed(rows, q, PositionsOf(rows))
        BY <1>1, <1>2, <1>3, IsTableFacts, DensePositioned, PositionedPlaced
      <3> QED
        BY <1>1, <3>1, ListedRows
    <2>5. Asked.op \in {"move", "keep"} /\ Asked.item = i
      BY <1>4, <1>5
    <2> QED
      BY <1>6, <2>2, <2>3, <2>4, <2>5 DEF Follows, Ordered!Next, Ordered!TurnDown
  <1>7. CASE i \in DOMAIN rows
    <2> DEFINE u == req'[r]
    <2>1. /\ u.op = q.op /\ u.idx = i /\ u.at \in {"file", "place"}
          /\ q.op = "move" => u.place = q.place /\ u.row.position = q.place
          /\ q.op = "keep" => u.row.position = rows[i].position
      <3>1. rows[i] \in Row
        BY <1>1, <1>7 DEF TypesOK, TypeOK
      <3>2. CASE q.op = "move"
        <4>1. req' = [req EXCEPT ![r].at = "place", ![r].row = [rows[i] EXCEPT !.position = q.place]]
          BY <1>7, <3>2 DEF Load
        <4>2. u = [q EXCEPT !.at = "place", !.row = [rows[i] EXCEPT !.position = q.place]]
          BY <1>1, <4>1
        <4>3. [rows[i] EXCEPT !.position = q.place].position = q.place
          BY <3>1 DEF Row
        <4> QED
          BY <1>1, <3>2, <4>2, <4>3 DEF Request
      <3>3. CASE q.op = "keep"
        <4>1. req' = [req EXCEPT ![r].at = "file", ![r].row = rows[i], ![r].place = rows[i].position]
          BY <1>7, <3>3 DEF Load
        <4>2. u = [q EXCEPT !.at = "file", !.row = rows[i], !.place = rows[i].position]
          BY <1>1, <4>1
        <4> QED
          BY <1>1, <3>3, <4>2 DEF Request
      <3> QED
        BY <1>5, <3>2, <3>3
    <2> HIDE DEF u, q, i
    <2>2. OrderOK(rows, u)
      BY <1>2, <1>5, <2>1 DEF OrderOK, Holding
    <2>3. Wish(u) = Wish(q)
      BY <1>2, <1>5, <2>1, WishFacts DEF Holding, i
    <2>4. Sorted(Rank(rows, u)) = Sorted(Rank(rows, q))
      BY <1>2, <2>1, ByPosition
    <2> QED
      BY <1>2, <2>2, <2>3, <2>4, Stays DEF u, q
  <1> QED
    BY <1>6, <1>7

(* What a request was asked and where its row is going to be stay.         *)
Continues(q, u) ==
  /\ u.op = q.op /\ u.idx = q.idx /\ u.place = q.place /\ u.row.position = q.row.position

(* They do when a request goes on to another statement.                    *)
LEMMA GoContinues ==
  ASSUME NEW r, Single(r), NEW at, Go(r, at)
  PROVE  Continues(req[r], req'[r]) /\ req'[r].at = at /\ req'[r].from = req[r].from
         /\ req'[r].row = req[r].row
  <1>1. r \in Requests /\ req \in [Requests -> Request] /\ req[r] \in Request
    BY SingleFacts
  <1>2. req'[r] = [req[r] EXCEPT !.at = at]
    BY <1>1 DEF Go
  <1> QED
    BY <1>1, <1>2 DEF Continues, Request

(* The sound file is none of the list's business.                          *)
LEMMA SoundFileFollows ==
  ASSUME NEW r, Single(r), SoundFile(r)
  PROVE  Follows(r)
  <1> DEFINE q == req[r]
             u == req'[r]
  <1>1. /\ r \in Requests /\ req \in [Requests -> Request] /\ q \in Request /\ RequestOK(q)
        /\ OrderOK(rows, q)
    BY SingleFacts
  <1>2. q.at = "file" /\ rows' = rows
    BY DEF SoundFile
  <1>3. q.row \in Row
    BY <1>1, <1>2 DEF RequestOK, Holding
  <1>4. ASSUME NEW s, req' = [req EXCEPT ![r].at = "place", ![r].row.sound = s]
        PROVE  Continues(q, u) /\ u.at = "place"
    <2>1. u = [q EXCEPT !.at = "place", !.row = [q.row EXCEPT !.sound = s]]
      BY <1>1, <1>4 DEF Request
    <2>2. [q.row EXCEPT !.sound = s].position = q.row.position
      BY <1>3 DEF Row
    <2> QED
      BY <1>1, <2>1, <2>2 DEF Continues, Request
  <1>5. Continues(q, u) /\ u.at = "place"
    <2>1. CASE Go(r, "place")
      BY <2>1, GoContinues
    <2>2. CASE \E s : req' = [req EXCEPT ![r].at = "place", ![r].row.sound = s]
      BY <1>4, <2>2
    <2> QED
      BY <2>1, <2>2 DEF SoundFile
  <1> HIDE DEF q, u
  <1>6. OrderOK(rows, u)
    BY <1>1, <1>2, <1>5 DEF OrderOK, Continues, Holding
  <1>7. Wish(u) = Wish(q)
    BY <1>2, <1>5, WishFacts DEF Continues, Holding
  <1>8. Sorted(Rank(rows, u)) = Sorted(Rank(rows, q))
    BY <1>2, <1>5, ByPosition
  <1> QED
    BY <1>2, <1>6, <1>7, <1>8, Stays DEF q, u

(* The position is read: room is to be made, or the row is where it goes.  *)
LEMMA ReadPositionFollows ==
  ASSUME NEW r, Single(r), ReadPosition(r)
  PROVE  Follows(r)
  <1> DEFINE q == req[r]
             i == q.idx
             u == req'[r]
  <1>1. /\ r \in Requests /\ req \in [Requests -> Request] /\ q \in Request /\ RequestOK(q)
        /\ OrderOK(rows, q) /\ PlaceIsOK(q) /\ IsTable(rows)
    BY SingleFacts
  <1>2. q.at = "place" /\ rows' = rows
    BY DEF ReadPosition
  <1>3. Dense(rows) /\ q.row.position \in Nat /\ (i # 0 => i \in DOMAIN rows)
    BY <1>1, <1>2, SingleFacts DEF PlaceIsOK, Holding
  <1>4. ASSUME u.at = "shift", Continues(q, u),
               i # 0 => rows[i].position # q.row.position
        PROVE  Follows(r)
    <2> HIDE DEF q, i, u
    <2>1. OrderOK(rows, u)
      BY <1>1, <1>2, <1>4 DEF OrderOK, Continues, Holding, i
    <2>2. Wish(u) = Wish(q)
      BY <1>2, <1>4, WishFacts DEF Continues, Holding
    <2>3. Sorted(Rank(rows, u)) = Sorted(Rank(rows, q))
      BY <1>2, <1>4, ByPosition
    <2> QED
      BY <1>2, <2>1, <2>2, <2>3, Stays DEF q, u
  <1>5. CASE i = 0
    <2>1. Go(r, "shift")
      BY <1>5 DEF ReadPosition
    <2> QED
      BY <1>4, <1>5, <2>1, GoContinues
  <1>6. CASE i # 0 /\ rows[i].position # q.row.position
    <2>1. req' = [req EXCEPT ![r].at = "shift", ![r].from = rows[i].position]
      BY <1>3, <1>6 DEF ReadPosition
    <2>2. u = [q EXCEPT !.at = "shift", !.from = rows[i].position]
      BY <1>1, <2>1
    <2>3. Continues(q, u) /\ u.at = "shift"
      BY <1>1, <2>2 DEF Continues, Request
    <2> QED
      BY <1>4, <1>6, <2>3
  <1>7. CASE i # 0 /\ rows[i].position = q.row.position
    <2>1. Go(r, "upsert")
      BY <1>3, <1>7 DEF ReadPosition
    <2>2. Continues(q, u) /\ u.at = "upsert" /\ u.from = q.from /\ u.row = q.row
      BY <2>1, GoContinues
    <2>3. q.from \in Int
      BY <1>1 DEF Request
    <2> DEFINE p == PositionsOf(rows)
    <2>4. Positioned(rows, p) /\ Placed(rows, q, p)
      BY <1>1, <1>2, <1>3, IsTableFacts, DensePositioned, PositionedPlaced
    <2> HIDE DEF q, u
    <2>5. Disturbed(rows, u, p)
      <3>1. i \in DOMAIN rows /\ u.idx = i /\ u.row.position = p[i]
        BY <1>3, <1>7, <2>2 DEF Continues, PositionsOf
      <3>2. \A j \in DOMAIN rows : /\ rows[j].position = p[j] /\ p[j] \in Int
                                   /\ j # i => p[j] # p[i]
        <4>1. \A j \in DOMAIN rows : rows[j].position = p[j]
          BY DEF PositionsOf
        <4>2. HaveInts(rows)
          BY <1>1, IsTableFacts
        <4>3. \A j, l \in DOMAIN rows : p[j] = p[l] => j = l
          BY <2>4 DEF Positioned, Places
        <4> HIDE DEF p, i
        <4> QED
          BY <3>1, <4>1, <4>2, <4>3 DEF HaveInts
      <3> HIDE DEF p, i
      <3>3. \A j \in DOMAIN rows : j # i => Past(p[j], p[i], p[i]) = p[j]
        BY <3>1, <3>2 DEF Past
      <3> QED
        BY <1>7, <2>4, <3>1, <3>2, <3>3 DEF Disturbed, Positioned
    <2>6. Placed(rows, u, p)
      <3>1. u.row.position \in Int /\ u.from \in Int
        BY <1>3, <2>2, <2>3
      <3> QED
        BY <1>1, <2>2, <2>5, <3>1, IsTableFacts, DisturbedPlaced
    <2>7. Sorted(Rank(rows, u)) = Sorted(Rank(rows, q))
      BY <1>1, <2>4, <2>6, IsTableFacts, SameList
    <2>8. OrderOK(rows, u)
      BY <1>1, <1>2, <1>7, <2>2, <2>5 DEF OrderOK, Continues, Holding
    <2>9. Wish(u) = Wish(q)
      BY <1>2, <2>2, WishFacts DEF Continues, Holding
    <2> QED
      BY <1>2, <2>7, <2>8, <2>9, Stays DEF q, u
  <1> QED
    BY <1>5, <1>6, <1>7

(* Room is made, and the list is as it was.                                *)
LEMMA ShiftFollows ==
  ASSUME NEW r, Single(r), Shift(r)
  PROVE  Follows(r)
  <1> DEFINE q == req[r]
             i == q.idx
             k == q.row.position
             u == req'[r]
             p == PositionsOf(rows)
  <1>1. /\ r \in Requests /\ TypesOK /\ q \in Request /\ OrderOK(rows, q) /\ PlaceIsOK(q)
        /\ IsTable(rows)
    BY SingleFacts
  <1>2. q.at = "shift" /\ Go(r, "upsert")
        /\ rows' = IF i = 0 THEN Shifted(rows, k, Highest(rows, k), 1, 0)
                   ELSE IF k < q.from THEN Shifted(rows, k, q.from, 1, i)
                   ELSE Shifted(rows, q.from, k, -1, i)
    BY DEF Shift
  <1>3. /\ Dense(rows) /\ k \in Nat
        /\ i # 0 => i \in DOMAIN rows /\ q.from = rows[i].position
    BY <1>1, <1>2, SingleFacts DEF PlaceIsOK, Holding
  <1>4. Continues(q, u) /\ u.at = "upsert" /\ u.from = q.from /\ u.row = q.row
    BY <1>2, GoContinues
  <1>5. DOMAIN rows' = DOMAIN rows
    BY <1>1, ShiftFacts DEF OnlyMoved
  <1>6. Placed(rows, q, p)
    BY <1>1, <1>2, <1>3, IsTableFacts, DensePositioned, PositionedPlaced
  <1>7. q.from \in Int /\ k \in Int
    BY <1>1, <1>3 DEF Request
  <1> HIDE DEF q, i, u, p, k
  <1>8. i = 0 => q.op = "add" /\ k = 0
    BY <1>1, <1>2 DEF OrderOK, Holding, i, k
  <1>9. u.idx = i /\ u.row.position = k
    BY <1>4 DEF Continues, i, k
  <1>10. Disturbed(rows', u, p)
    <2>1. CASE i = 0
      <3>1. rows' = Shifted(rows, 0, Highest(rows, 0), 1, 0)
        BY <1>2, <1>8, <2>1
      <3> QED
        BY <1>1, <1>3, <1>9, <2>1, <3>1, RoomInFront DEF p
    <2>2. CASE i # 0
      <3>1. rows' = IF u.row.position < u.from THEN Shifted(rows, u.row.position, u.from, 1, u.idx)
                    ELSE Shifted(rows, u.from, u.row.position, -1, u.idx)
        BY <1>2, <1>4, <1>9, <2>2
      <3>2. /\ u.idx # 0 /\ u.idx \in DOMAIN rows /\ u.from = rows[u.idx].position
            /\ u.row.position \in Int
        BY <1>3, <1>4, <1>7, <1>9, <2>2
      <3>3. Disturbed(IF u.row.position < u.from THEN Shifted(rows, u.row.position, u.from, 1, u.idx)
                      ELSE Shifted(rows, u.from, u.row.position, -1, u.idx), u, PositionsOf(rows))
        BY <1>1, <1>3, <3>2, RoomBetween
      <3> QED
        BY <3>1, <3>3 DEF p
    <2> QED
      BY <2>1, <2>2
  <1>11. Placed(rows', u, p)
    <2>1. /\ 0 \notin DOMAIN rows' /\ IsFiniteSet(DOMAIN rows')
          /\ u.row.position \in Int /\ u.from \in Int
      BY <1>1, <1>4, <1>5, <1>7, <1>9, IsTableFacts
    <2> QED
      BY <1>4, <1>10, <2>1, DisturbedPlaced
  <1>12. Sorted(Rank(rows', u)) = Sorted(Rank(rows, q))
    BY <1>1, <1>5, <1>6, <1>11, IsTableFacts, SameList
  <1>13. OrderOK(rows', u)
    BY <1>1, <1>2, <1>4, <1>10 DEF OrderOK, Continues, Holding
  <1>14. Wish(u) = Wish(q)
    BY <1>2, <1>4, WishFacts DEF Continues, Holding
  <1> QED
    BY <1>12, <1>13, <1>14, Stays DEF q, u

(* The row is written, and the list is what was asked for.                 *)
LEMMA UpsertFollows ==
  ASSUME NEW r, Single(r), Upsert(r)
  PROVE  Follows(r)
  <1> DEFINE q == req[r]
             x == Target(q)
             u == req'[r]
             s == Sorted(Rank(rows, q))
             t == With(rows, x, q.row)
  <1>1. /\ Requests = {r} /\ r \in Requests /\ TypesOK /\ HomesOK /\ q \in Request /\ RequestOK(q)
        /\ OrderOK(rows, q) /\ PlaceIsOK(q) /\ IsTable(rows) /\ Listed = s /\ Asked = Wish(q)
    BY SingleFacts DEF Single
  <1>2. q.at = "upsert" /\ Go(r, "renumber") /\ q.at \in Holding
    BY DEF Upsert, Holding
  <1>3. u.at = "renumber"
    BY <1>2, GoContinues
  <1>4. x \in Idx /\ q.row \in Row /\ rows' = t
    BY <1>1, UpsertFacts
  <1>5. q.from \in Int /\ q.row.position \in Int
    BY <1>1, <1>4 DEF Request, Row
  <1>6. PICK p : Disturbed(rows, q, p)
    BY <1>1, <1>2 DEF OrderOK
  <1>7. Ordered!ToSet(s) = DOMAIN rows
    <2>1. Placed(rows, q, p)
      BY <1>1, <1>2, <1>5, <1>6, IsTableFacts, DisturbedPlaced
    <2> QED
      BY <1>1, <2>1, ListedRows
  <1>8. Listed' = Sorted(Rank(t, u)) /\ Asked' = Ordered!Nothing /\ OrderOK(rows', u)
    <2>1. OrderOK(rows', u)
      BY <1>3 DEF OrderOK, Holding
    <2> QED
      BY <1>1, <1>3, <1>4, <2>1, SingleAfter, WishFacts
  <1>9. Asked = [op |-> q.op, item |-> q.idx, place |-> IF q.op = "move" THEN q.place ELSE 0]
    BY <1>1, <1>2, WishFacts
  <1>10. IsTable(t)
    <2>1. \A j \in DOMAIN rows : rows[j] \in Row
      BY <1>1, IsTableFacts
    <2>2. DOMAIN t = DOMAIN rows \cup {x} /\ t \in [DOMAIN rows \cup {x} -> Row]
      BY <1>4, <2>1 DEF With
    <2>3. DOMAIN rows \cup {x} \in SUBSET (1 .. MaxTriggers)
      BY <1>1, <1>4 DEF IsTable, Idx
    <2> HIDE DEF t
    <2> QED
      BY <2>2, <2>3 DEF IsTable
  <1>11. CASE q.idx = 0
    <2>1. x \notin DOMAIN rows
      BY <1>1, <1>2, <1>11, NewHome DEF Target
    <2>2. q.op = "add" /\ q.row.position = 0
      BY <1>1, <1>2, <1>11 DEF OrderOK
    <2> HIDE DEF q, x, u
    <2>3. Sorted(Rank(t, u)) = <<x>> \o s
      <3>1. u.at # "upsert"
        BY <1>3
      <3> QED
        BY <1>1, <1>2, <1>5, <1>6, <1>10, <1>11, <2>1, <2>2, <3>1, AddedInFront
    <2> HIDE DEF s, t
    <2>4. Ordered!Perform
      <3>1. Asked.op = "add" /\ Asked # Ordered!Nothing
        BY <1>9, <2>2 DEF Ordered!Nothing
      <3>2. x \in Idx \ Ordered!ToSet(Listed) /\ Listed' = <<x>> \o Listed
        BY <1>1, <1>4, <1>7, <1>8, <2>1, <2>3
      <3> QED
        BY <1>8, <3>1, <3>2 DEF Ordered!Perform
    <2> QED
      BY <1>8, <2>4 DEF Follows, Ordered!Next, u
  <1>12. CASE q.idx # 0 /\ q.op = "move"
    <2>1. x = q.idx /\ q.row.position = q.place /\ q.place \in Nat \ {0}
      BY <1>1, <1>2, <1>12 DEF OrderOK, Target
    <2> HIDE DEF q, x, u
    <2>2. Sorted(Rank(t, u)) = Ordered!Moved(s, q.idx, q.place)
      <3>1. t = With(rows, q.idx, q.row) /\ u.at # "upsert" /\ q.row.position \in Nat \ {0}
        BY <1>3, <2>1
      <3> HIDE DEF t
      <3>2. Sorted(Rank(With(rows, q.idx, q.row), u)) = Ordered!Moved(s, q.idx, q.row.position)
        BY <1>1, <1>2, <1>5, <1>6, <1>10, <1>12, <3>1, PutInPlace
      <3> QED
        BY <2>1, <3>1, <3>2
    <2> HIDE DEF s, t
    <2>3. Asked.op = "move" /\ Asked # Ordered!Nothing /\ Asked.item = q.idx /\ Asked.place = q.place
      BY <1>9, <1>12 DEF Ordered!Nothing
    <2>4. Listed' = Ordered!Moved(Listed, Asked.item, Asked.place)
      BY <1>1, <1>8, <2>2, <2>3
    <2> QED
      BY <1>8, <2>3, <2>4 DEF Follows, Ordered!Next, Ordered!Perform, u
  <1>13. CASE q.idx # 0 /\ q.op = "keep"
    <2>1. x = q.idx /\ q.row.position = rows[q.idx].position
      BY <1>1, <1>2, <1>13 DEF OrderOK, Target
    <2> HIDE DEF q, x, u
    <2>2. Sorted(Rank(t, u)) = s
      <3>1. t = With(rows, q.idx, q.row) /\ u.at # "upsert"
        BY <1>3, <2>1
      <3> HIDE DEF t
      <3>2. Sorted(Rank(With(rows, q.idx, q.row), u)) = s
        BY <1>1, <1>2, <1>5, <1>6, <1>10, <1>13, <2>1, <3>1, KeptInPlace
      <3> QED
        BY <3>1, <3>2
    <2> HIDE DEF s, t
    <2>3. Asked.op = "keep" /\ Asked # Ordered!Nothing
      BY <1>9, <1>13 DEF Ordered!Nothing
    <2>4. Listed' = Listed
      BY <1>1, <1>8, <2>2
    <2> QED
      BY <1>8, <2>3, <2>4 DEF Follows, Ordered!Next, Ordered!Perform, u
  <1>14. q.idx # 0 => q.op \in {"move", "keep"}
    BY <1>1, <1>2 DEF OrderOK
  <1> QED
    BY <1>11, <1>12, <1>13, <1>14

(* The row is deleted, and the list is without it.                         *)
LEMMA DeleteFollows ==
  ASSUME NEW r, Single(r), Delete(r)
  PROVE  Follows(r)
  <1> DEFINE q == req[r]
             u == req'[r]
  <1>1. /\ Requests = {r} /\ q.at = "delete" /\ Go(r, "renumber")
        /\ rows' = [j \in DOMAIN rows \ {q.idx} |-> rows[j]]
    BY DEF Delete, Single
  <1>2. /\ IsTable(rows) /\ Dense(rows) /\ q.op = "delete"
        /\ Listed = Sorted(Rank(rows, q)) /\ Asked = Wish(q)
    BY <1>1, SingleFacts DEF OrderOK
  <1>3. u.at = "renumber"
    BY <1>1, GoContinues
  <1>4. Asked' = Ordered!Nothing /\ Listed' = Sorted(Rank(rows', u)) /\ OrderOK(rows', u)
    <2>1. OrderOK(rows', u)
      BY <1>3 DEF OrderOK, Holding
    <2> QED
      BY <1>1, <1>3, <2>1, SingleAfter, WishFacts
  <1>5. Asked = [op |-> "delete", item |-> q.idx, place |-> 0]
    BY <1>1, <1>2, WishFacts
  <1> HIDE DEF q, u
  <1>6. Listed' = Ordered!Without(Listed, Asked.item)
    <2>1. q.at # "upsert" /\ u.at # "upsert" /\ Asked.item = q.idx
      BY <1>1, <1>3, <1>5
    <2> QED
      BY <1>1, <1>2, <1>4, <2>1, TakenOut
  <1>7. Asked # Ordered!Nothing /\ Asked.op = "delete"
    BY <1>5 DEF Ordered!Nothing
  <1> QED
    BY <1>4, <1>6, <1>7 DEF Follows, Ordered!Next, Ordered!Perform, u

(* The renumbering is nothing to see.                                      *)
LEMMA RenumberFollows ==
  ASSUME NEW r, Single(r), Renumber(r)
  PROVE  Follows(r)
  <1> DEFINE q == req[r]
             u == req'[r]
  <1>1. /\ r \in Requests /\ req \in [Requests -> Request] /\ IsTable(rows) /\ PlaceIsOK(q)
    BY SingleFacts
  <1>2. q.at = "renumber" /\ rows' = Renumbered(rows) /\ End(r)
    BY DEF Renumber
  <1>3. u = Idle /\ u.at # "upsert"
    BY <1>1, <1>2, IdleFacts DEF End
  <1> HIDE DEF q, u
  <1>4. Sorted(Rank(rows', u)) = Sorted(Rank(rows, q))
    <2>1. Renumberable(rows) /\ q.at # "upsert"
      BY <1>1, <1>2 DEF PlaceIsOK
    <2> QED
      BY <1>1, <1>2, <1>3, <2>1, RenumberedAlike
  <1>5. Wish(u) = Wish(q)
    BY <1>2, <1>3, WishFacts
  <1>6. OrderOK(rows', u)
    BY <1>3, IdleOrder
  <1> QED
    BY <1>4, <1>5, <1>6, Stays DEF q, u

(* Nor is what leaves the positions as they are.                           *)
LEMMA SameFollows ==
  ASSUME NEW r, Single(r), SamePositions(rows, rows'), UNCHANGED req
  PROVE  Follows(r)
  <1> DEFINE q == req[r]
  <1>1. req'[r] = q /\ OrderOK(rows, q) /\ PlaceIsOK(q)
    BY SingleFacts
  <1>2. DOMAIN rows' = DOMAIN rows /\ \A i \in DOMAIN rows : rows'[i].position = rows[i].position
    BY DEF SamePositions
  <1> HIDE DEF q
  <1>3. Rank(rows', q) = Rank(rows, q)
    BY <1>2 DEF Rank
  <1>4. q.at \in Holding /\ q.idx # 0 => q.idx \in DOMAIN rows
    BY <1>1 DEF PlaceIsOK
  <1>5. \A p : Disturbed(rows, q, p) => Disturbed(rows', q, p)
    BY <1>2 DEF Disturbed
  <1>6. OrderOK(rows', q)
    BY <1>1, <1>2, <1>4, <1>5 DEF OrderOK
  <1> QED
    BY <1>1, <1>3, <1>6, Stays DEF q

----------------------------------------------------------------------------
(* Every step of the table is one of the list, or none.                    *)
LEMMA OrderStep ==
  ASSUME NEW r, Single(r), faults = 0, MaxFaults = 0, [Next]_vars
  PROVE  Follows(r) /\ mixed' = mixed /\ faults' = faults
  <1>1. Requests = {r} /\ TypesOK
    BY SingleFacts DEF Single
  <1>2. CASE Ask(r)
    <2>1. faults' = faults
      BY <1>2, AskFrame
    <2> QED
      BY <1>2, <2>1, AskFollows
  <1>3. CASE Step(r)
    <2>1. mixed' = mixed /\ faults' = faults
      BY <1>3, StepFrame
    <2> QED
      BY <1>3, <2>1, LoadFollows, SoundFileFollows, ReadPositionFollows, ShiftFollows,
         UpsertFollows, DeleteFollows, RenumberFollows DEF Step
  <1>4. ASSUME NEW c \in calls, WebhookAnswered(c)
        PROVE  Follows(r) /\ mixed' = mixed /\ faults' = faults
    <2>1. UNCHANGED <<req, mixed, faults>>
      BY <1>4 DEF WebhookAnswered, histVars
    <2>2. SamePositions(rows, rows')
      BY <1>1, <1>4, AnsweredFacts DEF SamePositions
    <2> QED
      BY <2>1, <2>2, SameFollows
  <1>5. CASE (\E i \in Idx : CallWebhook(i)) \/ UNCHANGED vars
    <2>1. UNCHANGED <<rows, req, mixed, faults>>
      BY <1>5 DEF CallWebhook, vars, histVars
    <2>2. SamePositions(rows, rows')
      BY <2>1 DEF SamePositions
    <2> QED
      BY <2>1, <2>2, SameFollows
  <1>6. ~Crash /\ ~StatementFails(r)
    BY DEF Crash, StatementFails
  <1> QED
    BY <1>1, <1>2, <1>3, <1>4, <1>5, <1>6 DEF Next

(* A save, a move and a delete are what the user asked for and nothing     *)
(* more, for a table of any size and any number of requests made one after *)
(* the other: the statements implement the list that OrderedList keeps,    *)
(* each request taking effect at one of them.                              *)
THEOREM TableKeepsOrder ==
  ASSUME NEW r, Requests = {r}, MaxFaults = 0
  PROVE  Spec => KeepsOrder
  <1> DEFINE Inv == Single(r) /\ faults = 0
  <1>1. Init => Inv /\ Ordered!Init
    <2> SUFFICES ASSUME Init
                 PROVE  Inv /\ Ordered!Init
      OBVIOUS
    <2>1. IInv /\ ~mixed /\ faults = 0 /\ req[r] = Idle
      BY InitIInv DEF Init
    <2>2. Single(r)
      BY <2>1, IdleOrder DEF Single
    <2>3. /\ Listed = Sorted(Rank(rows, Idle)) /\ Asked = Wish(Idle) /\ Dense(rows)
          /\ IsTable(rows) /\ DOMAIN rows \subseteq Idx
      BY <2>1, <2>2, SingleFacts, IdleFacts DEF TypesOK, TypeOK
    <2>4. Placed(rows, Idle, PositionsOf(rows))
      BY <2>3, IdleFacts, IsTableFacts, DensePositioned, PositionedPlaced
    <2>5. Ordered!ToSet(Listed) = DOMAIN rows /\ Ordered!IsInjective(Listed)
      BY <2>3, <2>4, ListedRows
    <2>6. Asked = Ordered!Nothing
      BY <2>3, WishFacts
    <2> QED
      BY <2>1, <2>2, <2>3, <2>5, <2>6 DEF Ordered!Init
  <1>2. Inv /\ [Next]_vars => Inv' /\ [Ordered!Next]_<<Listed, Asked>>
    <2> SUFFICES ASSUME Inv, [Next]_vars
                 PROVE  Inv' /\ [Ordered!Next]_<<Listed, Asked>>
      OBVIOUS
    <2>1. Follows(r) /\ mixed' = mixed /\ faults' = faults
      BY OrderStep
    <2>2. IInv'
      BY NextIInv DEF Single
    <2>3. Single(r)'
      BY <2>1, <2>2 DEF Single, Follows
    <2> QED
      BY <2>1, <2>3 DEF Follows
  <1> HIDE DEF Inv
  <1> QED
    BY <1>1, <1>2, PTL DEF Spec, KeepsOrder, Ordered!Spec, Ordered!vars
=============================================================================
