--------------------------- MODULE DatabaseProofs ---------------------------
(***************************************************************************)
(* Proofs about Database, for any number of default rows, of rows of an    *)
(* older release, of requests and of faults: every boost is in its list,   *)
(* the numerology is in order, and every old sound and webhook is among    *)
(* the triggers as often, and at the place, it should be.                  *)
(***************************************************************************)
EXTENDS Database, OrderFacts, TLAPS

(* The statements up to the one that makes the numerology table.           *)
Early == {"boosts", "customKey", "customValue", "listType", "typeBoosts", "typeStreams",
          "numerology"}

Row == [position : Int, name : Names, sound : BOOLEAN]

AskedType == [idx : Nat, name : Names \cup {0}, place : Nat, from : Int]

TypesOK ==
  /\ at \in Startup \cup Request \cup {"up"}
  /\ schema \subseteq {"boosts", "numerology", "sound_file", "webhooks"} \cup Columns
  /\ listType \in [DOMAIN old.lists -> Null .. 2]
  /\ failed \subseteq {"customKey", "customValue", "listType"} /\ misread \in BOOLEAN
  /\ numerology \in [DOMAIN numerology -> Row] /\ \E n \in Nat : DOMAIN numerology \subseteq 1 .. n
  /\ next \in 1 .. Defaults /\ (next # 1 => at \in {"defaults", "redefault"})
  /\ asked \in AskedType /\ (at \in {"place", "upsert"} => asked.name \in Names)
  /\ made \in 0 .. MaxRequests /\ gap \in BOOLEAN /\ cut \in [Windows -> Nat]

(* What has been added by the time a statement is reached, and what has    *)
(* been migrated; requests come when all of it has been.                   *)
SchemaOK ==
  /\ at \notin Early => "numerology" \in schema
  /\ "numerology" \notin schema => numerology = <<>> /\ "sound_file" \notin schema
  /\ "sound_file" \in schema => at \in Early \cup {"sounds", "dropSounds"}
  /\ at = "dropSounds" => "sound_file" \in schema
  /\ "webhooks" \in schema => at \in Startup
  /\ at = "archive" => "webhooks" \in schema

(* An action's boosts are in the list they were found in, or in the one   *)
(* that the UPDATEs put them in.                                           *)
Listed(a) ==
  listType[a] = IF old.lists[a] # Null THEN old.lists[a] ELSE IF a \in BoostLike THEN 1 ELSE 2

(* A column is missing only if its ALTER failed in this start; custom_value*)
(* also if a start has been through custom_key and not through its own.    *)
(* The boosts are listed once the column is there and its two UPDATEs are  *)
(* over.                                                                   *)
BoostsOK ==
  /\ at # "boosts" => "boosts" \in schema
  /\ at \notin {"boosts", "customKey"} => "custom_key" \in schema \/ "customKey" \in failed
  /\ at \notin {"boosts", "customKey", "customValue", "listType"} =>
       "list_type" \in schema \/ "listType" \in failed
  /\ cut["customValue"] = 0 /\ "custom_key" \in schema /\ at # "customValue" => "custom_value" \in schema
  /\ DOMAIN old.lists \in {{}, Actions}
  /\ "boosts" \notin schema => DOMAIN old.lists = {}
  /\ "list_type" \notin schema \/ at \in {"typeBoosts", "typeStreams"} =>
       \A a \in DOMAIN old.lists : old.lists[a] = Null
  /\ at \in {"typeBoosts", "typeStreams"} => "list_type" \in schema
  /\ at = "typeStreams" => \A a \in DOMAIN old.lists : a \in BoostLike => listType[a] = 1
  /\ cut["typeBoosts"] + cut["typeStreams"] = 0 /\ "list_type" \in schema
       /\ at \notin {"typeBoosts", "typeStreams"} => \A a \in DOMAIN old.lists : Listed(a)

(* A request to save a row has a name that no row has, or that of its row. *)
NameIsOwn ==
  /\ asked.name <= Defaults + MaxOld + made
  /\ IF asked.idx = 0
       THEN \A i \in DOMAIN numerology : numerology[i].name # asked.name
       ELSE asked.idx \in DOMAIN numerology /\ asked.name = numerology[asked.idx].name

(* The first n default rows, and no other.                                 *)
Inserted(tbl, n) ==
  DOMAIN tbl = 1 .. n /\ \A i \in 1 .. n : tbl[i].position = i /\ tbl[i].name = i

RowsOK ==
  /\ NamesAreUnique
  /\ \A i \in DOMAIN numerology : numerology[i].name <= Defaults + MaxOld + made
  /\ at \in {"place", "upsert"} => NameIsOwn
  /\ at \in {"defaults", "redefault"} => Inserted(numerology, next - 1)

(* The row a request saves, and where.                                     *)
Given  == [position |-> asked.place, name |-> asked.name, sound |-> FALSE]
Target == IF asked.idx = 0 THEN NewIdx(numerology) ELSE asked.idx

(* The positions are dense until a request disturbs them, and then they    *)
(* are such that its renumbering makes them dense again.                   *)
PlacesOK ==
  ~gap =>
    /\ at \notin {"upsert", "renumber"} => Dense(numerology)
    /\ at = "place" /\ asked.idx # 0 => asked.from = numerology[asked.idx].position
    /\ at = "upsert" => Renumberable(With(numerology, Target, Given))
    /\ at = "renumber" => Renumberable(numerology)

Entry == [position : Int, source : ({"sound"} \X Names) \cup ({"webhook"} \X Nat)]

(* How often the sounds, and the webhooks, have been copied.               *)
SoundCopies ==
  cut["dropSounds"] + (IF at = "dropSounds" \/ "sound_file" \notin schema THEN 1 ELSE 0)
WebhookCopies ==
  cut["archive"] + (IF at = "archive" \/ "webhooks" \notin schema THEN 1 ELSE 0)

(* Row i is a copy of source, at its place if no position was misread.     *)
Is(tbl, exact, i, position, source) ==
  i \in DOMAIN tbl /\ tbl[i].source = source /\ (exact => tbl[i].position = position)

(* Copy c of n sounds, the rows behind the first c * n, has sound k.       *)
Has(tbl, exact, c, n, k, source) ==
  \E i \in c * n + 1 .. c * n + n : Is(tbl, exact, i, c * n + k, source)

(* The triggers are s copies of the sounds, then w copies of the webhooks; *)
(* exactly so unless a position was misread.                               *)
Holds(tbl, exact, s, w) ==
  LET sounds   == Len(old.sounds)
      webhooks == Len(old.webhooks)
      top      == s * sounds + w * webhooks
  IN
  /\ tbl \in [1 .. top -> Entry]
  /\ \A i \in 1 .. top : tbl[i].position \in 1 .. top
  /\ exact /\ top # 0 => \E i \in 1 .. top : tbl[i].position = top
  /\ \A c \in 0 .. s - 1, k \in 1 .. sounds :
       Has(tbl, exact, c, sounds, k, <<"sound", old.sounds[k]>>)
  /\ \A c \in 0 .. w - 1, k \in 1 .. webhooks :
       Is(tbl, exact, s * sounds + c * webhooks + k, s * sounds + c * webhooks + k, <<"webhook", k>>)

(* While the sounds have not been dropped the numerology has them all, in  *)
(* their order.                                                            *)
Lists(s) ==
  /\ s \in [1 .. Len(old.sounds) -> WithSound(numerology)] /\ InPlaces(numerology, s)
  /\ \A i \in WithSound(numerology) : \E k \in 1 .. Len(old.sounds) : s[k] = i
  /\ \A k \in 1 .. Len(old.sounds) : old.sounds[k] = numerology[s[k]].name

CopiesOK ==
  /\ old.sounds \in Seq(Names) /\ old.webhooks \in Seq(Nat)
  /\ Holds(triggers, ~misread, SoundCopies, WebhookCopies)
  /\ "sound_file" \in schema =>
       /\ cut["archive"] = 0 /\ ("webhooks" \in schema \/ Len(old.webhooks) = 0)
       /\ \E s \in [1 .. Len(old.sounds) -> WithSound(numerology)] : Lists(s)

IInv == TypesOK /\ SchemaOK /\ BoostsOK /\ RowsOK /\ PlacesOK /\ CopiesOK

----------------------------------------------------------------------------
(* What a request does.                                                    *)
LEMMA Requests ==
  ASSUME Requested
  PROVE  \/ \E k \in 0 .. Defaults + MaxOld : AskAdd(k)
         \/ \E k \in 0 .. Defaults + MaxOld, i \in DOMAIN numerology : AskPlace(i, k)
         \/ \E i \in DOMAIN numerology : AskDelete(i)
         \/ AskReset \/ Place \/ Upsert \/ Delete \/ Renumber \/ Clear
  BY DEF Requested

(* The requests as a whole: what they leave alone.                         *)
LEMMA RequestedFrame ==
  ASSUME Requested
  PROVE  /\ at \in Request \cup {"up"} /\ at' \in Request \cup {"up"}
         /\ UNCHANGED <<schema, listType, triggers, old, faults, cut, failed, misread>>
<1>1. CASE \/ \E k \in 0 .. Defaults + MaxOld : AskAdd(k)
           \/ \E k \in 0 .. Defaults + MaxOld, i \in DOMAIN numerology : AskPlace(i, k)
           \/ (\E i \in DOMAIN numerology : AskDelete(i)) \/ AskReset
  BY <1>1 DEF AskAdd, AskPlace, AskDelete, AskReset, Ask, Request, tables
<1>2. CASE Place \/ Upsert \/ Delete
  BY <1>2 DEF Place, Upsert, Delete, Request, history
<1>3. CASE Renumber \/ Clear
  BY <1>3 DEF Renumber, Clear, Request, history
<1> QED
  BY <1>1, <1>2, <1>3, Requests

----------------------------------------------------------------------------
(* In a file that has lists every boost is in one of them.                 *)
LEMMA StoredFacts == StoredLists \subseteq [Actions -> 0 .. 2]
<1>1. [a \in Actions |-> IF a \in BoostLike THEN 1 ELSE 2] \in [Actions -> 0 .. 2]
  OBVIOUS
<1>2. FromAction \in [Actions -> 0 .. 2]
  BY DEF FromAction
<1>3. [FromAction EXCEPT ![5] = 2] \in [Actions -> 0 .. 2]
  <2> HIDE DEF FromAction
  <2> DEFINE l == FromAction
  <2>1. l \in [Actions -> 0 .. 2] => [l EXCEPT ![5] = 2] \in [Actions -> 0 .. 2]
    <3> DEFINE S == 0 .. 2
    <3>1. 2 \in S
      OBVIOUS
    <3> HIDE DEF S, l
    <3>2. l \in [Actions -> S] => [l EXCEPT ![5] = 2] \in [Actions -> S]
      BY <3>1
    <3> QED BY <3>2 DEF S
  <2> QED BY <1>2, <2>1
<1> QED
  BY <1>1, <1>2, <1>3 DEF StoredLists

(* The boosts, from any file an older release leaves.                      *)
LEMMA BoostsInit ==
  ASSUME Init
  PROVE  BoostsOK
<1>1. /\ at = "boosts" /\ old.lists = listType
      /\ cut["customValue"] = 0 /\ cut["typeBoosts"] = 0 /\ cut["typeStreams"] = 0
      /\ listType \in IF "boosts" \notin schema THEN {<<>>}
                      ELSE IF "list_type" \in schema THEN StoredLists
                      ELSE {[a \in Actions |-> Null]}
      /\ "custom_key" \in schema => "custom_value" \in schema
      /\ "list_type" \in schema => "boosts" \in schema
  BY DEF Init, Columns, Windows
<1>2. DOMAIN <<>> = {}
  OBVIOUS
<1>3. ASSUME "boosts" \in schema
      PROVE  /\ DOMAIN listType = Actions
             /\ "list_type" \notin schema => \A a \in Actions : listType[a] = Null
             /\ "list_type" \in schema => \A a \in Actions : listType[a] # Null
  <2>1. CASE "list_type" \in schema
    <3>1. listType \in [Actions -> 0 .. 2]
      BY <1>1, <1>3, <2>1, StoredFacts
    <3> QED BY <2>1, <3>1 DEF Null
  <2>2. CASE "list_type" \notin schema
    BY <1>1, <1>3, <2>2
  <2> QED BY <2>1, <2>2
<1>4. "boosts" \notin schema => DOMAIN listType = {}
  BY <1>1, <1>2
<1> QED
  BY <1>1, <1>3, <1>4 DEF BoostsOK, Listed

(* Whatever statement comes next, and wherever a start is cut.             *)
LEMMA BoostsStep ==
  ASSUME TypesOK, BoostsOK, [Next]_vars
  PROVE  BoostsOK'
<1>0. /\ cut["customValue"] \in Nat /\ cut["typeBoosts"] \in Nat /\ cut["typeStreams"] \in Nat
      /\ listType \in [DOMAIN old.lists -> Null .. 2]
  BY DEF TypesOK, Windows
<1>1. CASE CreateBoosts
  <2>1. /\ at = "boosts" /\ at' = "customKey" /\ "boosts" \in schema'
        /\ UNCHANGED <<listType, old, failed, cut>>
        /\ \/ "boosts" \in schema /\ schema' = schema
           \/ "boosts" \notin schema /\ schema' = schema \cup {"boosts", "custom_key", "custom_value", "list_type"}
    BY <1>1 DEF CreateBoosts, Adds, Columns, tables, history
  <2> QED BY <2>1 DEF BoostsOK, Listed
<1>2. CASE AddCustomKey \/ AddCustomValue \/ AddListType
  <2>1. CASE \/ Adds("customKey", {"custom_key"}, "listType", "customValue")
             \/ Adds("customValue", {"custom_value"}, "listType", "listType")
             \/ Adds("listType", {"list_type"}, "numerology", "typeBoosts")
    BY <2>1 DEF Adds, BoostsOK, Listed, tables, history
  <2>2. CASE \/ Swallowed("customKey", "custom_key", "listType")
             \/ Swallowed("customValue", "custom_value", "listType")
             \/ Swallowed("listType", "list_type", "numerology")
    <3>1. /\ UNCHANGED <<schema, listType, old>>
          /\ cut' = [w \in Windows |-> IF w = at THEN cut[w] + 1 ELSE cut[w]]
          /\ failed' = failed \cup {at}
          /\ \/ at = "customKey" /\ at' = "listType" /\ "custom_key" \notin schema
             \/ at = "customValue" /\ at' = "listType" /\ "custom_value" \notin schema
             \/ at = "listType" /\ at' = "numerology" /\ "list_type" \notin schema
      BY <2>2 DEF Swallowed, tables
    <3>2. /\ cut'["customValue"] = IF at = "customValue" THEN cut["customValue"] + 1 ELSE cut["customValue"]
          /\ cut'["typeBoosts"] = cut["typeBoosts"] /\ cut'["typeStreams"] = cut["typeStreams"]
      BY <3>1 DEF Windows
    <3> QED BY <1>0, <3>1, <3>2 DEF BoostsOK, Listed
  <2> QED BY <1>2, <2>1, <2>2 DEF AddCustomKey, AddCustomValue, AddListType
<1>5. CASE TypeBoosts
  <2>1. \A a \in DOMAIN old.lists : a \in BoostLike => listType'[a] = 1
    BY <1>0, <1>5 DEF TypeBoosts
  <2> QED BY <1>5, <2>1 DEF TypeBoosts, BoostsOK, history
<1>6. CASE TypeStreams
  <2>1. \A a \in DOMAIN old.lists : listType'[a] = IF a \in BoostLike THEN 1 ELSE 2
    BY <1>0, <1>6 DEF TypeStreams, BoostsOK
  <2>2. at = "typeStreams" /\ at' = "numerology" /\ UNCHANGED <<schema, old, failed, cut>>
    BY <1>6 DEF TypeStreams, history
  <2> QED BY <2>1, <2>2 DEF BoostsOK, Listed
<1>7. CASE NumerologyTable
  BY <1>7 DEF NumerologyTable, Adds, BoostsOK, Listed, tables, history
<1>8. CASE InsertDefault \/ CopySounds \/ DropSounds \/ CopyWebhooks \/ ArchiveWebhooks
  BY <1>8 DEF InsertDefault, CopySounds, DropSounds, CopyWebhooks, ArchiveWebhooks, BoostsOK, Listed,
              tables, history
<1>9. CASE Requested
  <2>1. /\ at \in Request \cup {"up"} /\ at' \in Request \cup {"up"}
        /\ UNCHANGED <<schema, listType, old, cut, failed>>
    BY <1>9, RequestedFrame
  <2> QED BY <2>1 DEF BoostsOK, Listed, Request
<1>10. CASE Restart \/ RequestFails
  <2>1. /\ UNCHANGED <<schema, listType, old>>
        /\ cut' = [w \in Windows |-> IF w = at THEN cut[w] + 1 ELSE cut[w]]
        /\ at' = "boosts" \/ (at \in Request /\ at' = "up" /\ failed' = failed)
    BY <1>10 DEF Restart, RequestFails, Cut, tables
  <2>2. \A w \in {"customValue", "typeBoosts", "typeStreams"} :
          cut[w] \in Nat /\ cut'[w] = IF w = at THEN cut[w] + 1 ELSE cut[w]
    BY <2>1 DEF Windows, TypesOK
  <2>3. cut'["customValue"] = 0 => at # "customValue" /\ cut["customValue"] = 0
    BY <2>2
  <2>4. cut'["typeBoosts"] + cut'["typeStreams"] = 0 =>
          at \notin {"typeBoosts", "typeStreams"} /\ cut["typeBoosts"] + cut["typeStreams"] = 0
    BY <2>2
  <2>5. CASE at' = "boosts"
    BY <2>1, <2>3, <2>4, <2>5 DEF BoostsOK, Listed
  <2>6. CASE at \in Request /\ at' = "up" /\ failed' = failed
    BY <2>1, <2>3, <2>4, <2>6 DEF BoostsOK, Listed, Request
  <2> QED BY <2>1, <2>5, <2>6
<1>11. CASE UNCHANGED vars
  BY <1>11 DEF vars, tables, history, BoostsOK, Listed
<1> QED
  BY <1>1, <1>2, <1>5, <1>6, <1>7, <1>8, <1>9, <1>10, <1>11 DEF Next, Started

----------------------------------------------------------------------------
(* Rows have positions as OrderFacts means it.                             *)
LEMMA RowPositions == HavePositions(Row)
  BY DEF HavePositions, Row

(* What older releases leave: rows 1 .. n, each in a place of its own.     *)
LEMMA OldRowsFacts ==
  ASSUME NEW tbl \in OldNumerology
  PROVE  \E n \in Nat :
           /\ tbl \in [1 .. n -> Row] /\ Dense(tbl)
           /\ \A i \in 1 .. n : tbl[i].name = Defaults + i /\ tbl[i].name <= Defaults + MaxOld
<1>1. PICK n \in 0 .. MaxOld :
        tbl \in {OldRows(p, S) : p \in Injection(1 .. n, 1 .. n), S \in SUBSET (1 .. n)}
  BY DEF OldNumerology
<1>2. PICK p \in Injection(1 .. n, 1 .. n), S \in SUBSET (1 .. n) : tbl = OldRows(p, S)
  BY <1>1
<1>3. n \in Nat /\ n <= MaxOld /\ MaxOld \in Nat /\ Defaults \in Nat \ {0} /\ MaxRequests \in Nat
  BY DatabaseAssumption
<1>4. p \in [1 .. n -> 1 .. n] /\ \A i, j \in 1 .. n : p[i] = p[j] => i = j
  BY DEF Injection, IsInjective
<1>5. \A i \in 1 .. n : Defaults + i \in Names /\ Defaults + i <= Defaults + MaxOld /\ p[i] \in Int
  BY <1>3, <1>4 DEF Names
<1>6. DOMAIN tbl = 1 .. n
  BY <1>2, <1>4 DEF OldRows
<1>7. ASSUME NEW i \in 1 .. n
      PROVE  tbl[i] \in Row /\ tbl[i].position = p[i] /\ tbl[i].name = Defaults + i
  BY <1>2, <1>4, <1>5 DEF OldRows, Row
<1>8. Cardinality(1 .. n) = n
  BY <1>3, FS_Interval
<1>9. Dense(tbl)
  <2>1. \A i \in DOMAIN tbl : tbl[i].position = p[i]
    BY <1>6, <1>7
  <2>2. \A i \in DOMAIN tbl : p[i] \in 1 .. Cardinality(DOMAIN tbl)
    BY <1>4, <1>6, <1>8
  <2>3. \A i \in DOMAIN tbl : tbl[i].position \in 1 .. Cardinality(DOMAIN tbl)
    BY <2>1, <2>2
  <2>4. \A i, j \in DOMAIN tbl : tbl[i].position = tbl[j].position => i = j
    BY <1>4, <1>6, <2>1
  <2> QED BY <2>3, <2>4 DEF Dense
<1>10. tbl \in [1 .. n -> Row]
  BY <1>2, <1>4, <1>6, <1>7 DEF OldRows
<1> QED
  BY <1>3, <1>5, <1>7, <1>9, <1>10

(* Or none.                                                                *)
LEMMA NoRows == <<>> \in [{} -> Row] /\ DOMAIN <<>> = {} /\ Dense(<<>>)
<1>1. DOMAIN <<>> = {} /\ <<>> \in [{} -> Row]
  OBVIOUS
<1> QED
  BY <1>1 DEF Dense

(* The types, and the schema, at the first start.                          *)
LEMMA TypesInit ==
  ASSUME Init
  PROVE  TypesOK /\ SchemaOK
<1>1. PICK n \in Nat : numerology \in [1 .. n -> Row]
  BY OldRowsFacts DEF Init
<1>2. DOMAIN numerology = 1 .. n
  BY <1>1
<1>3. /\ at = "boosts" /\ asked = NoOne /\ next = 1 /\ made = 0 /\ gap = FALSE
      /\ cut = [a \in Windows |-> 0]
      /\ schema \subseteq {"boosts", "numerology", "sound_file", "webhooks"} \cup Columns
      /\ "sound_file" \in schema => "numerology" \in schema
      /\ "numerology" \notin schema => numerology = <<>>
      /\ old.lists = listType /\ failed = {} /\ misread = FALSE
      /\ listType \in {<<>>, [a \in Actions |-> Null]} \cup StoredLists
  <2>1. old.lists = listType
    BY DEF Init
  <2>2. listType \in {<<>>, [a \in Actions |-> Null]} \cup StoredLists
    BY DEF Init
  <2> QED BY <2>1, <2>2 DEF Init, Columns
<1>4. listType \in [DOMAIN old.lists -> Null .. 2]
  <2>1. CASE listType = <<>>
    BY <1>3, <2>1
  <2>2. CASE listType = [a \in Actions |-> Null]
    BY <1>3, <2>2 DEF Null
  <2>3. CASE listType \in StoredLists
    BY <1>3, <2>3, StoredFacts DEF Null
  <2> QED BY <1>3, <2>1, <2>2, <2>3
<1>5. asked \in AskedType
  BY <1>3 DEF AskedType, NoOne
<1>6. TypesOK
  <2>1. numerology \in [DOMAIN numerology -> Row] /\ \E m \in Nat : DOMAIN numerology \subseteq 1 .. m
    BY <1>1, <1>2
  <2>2. cut \in [Windows -> Nat] /\ next \in 1 .. Defaults /\ made \in 0 .. MaxRequests
    BY <1>3, DatabaseAssumption
  <2> QED
    BY <1>3, <1>4, <1>5, <2>1, <2>2 DEF TypesOK, Startup
<1>7. SchemaOK
  BY <1>3 DEF SchemaOK, Early, Startup
<1> QED
  BY <1>6, <1>7

(* What a statement of Positions leaves is a table of the same rows.       *)
LEMMA PlaceFacts ==
  ASSUME TypesOK, Place
  PROVE  /\ numerology' \in [DOMAIN numerology -> Row]
         /\ \A i \in DOMAIN numerology : /\ numerology'[i].name = numerology[i].name
                                         /\ numerology'[i].sound = numerology[i].sound
<1> DEFINE D == DOMAIN numerology
<1>1. PICK n \in Nat : D \in SUBSET (1 .. n) /\ numerology \in [D -> Row]
  BY DEF TypesOK
<1>2. asked.place \in Int /\ asked.from \in Int
  BY DEF TypesOK, AskedType
<1>3. Highest(numerology, asked.place) \in Int
  <2> HIDE DEF D
  <2> QED BY <1>1, <1>2, RowPositions, MaxOfPositions
<1>4. ASSUME NEW lo \in Int, NEW hi \in Int, NEW d \in Int, NEW but
      PROVE  LET t == Shifted(numerology, lo, hi, d, but)
             IN  /\ t \in [D -> Row]
                 /\ \A i \in D : t[i].name = numerology[i].name /\ t[i].sound = numerology[i].sound
  <2> DEFINE t == Shifted(numerology, lo, hi, d, but)
  <2>1. t \in [D -> Row] /\ MovedBy(numerology, t, lo, hi, d, but)
    <3> HIDE DEF D
    <3> QED BY <1>1, RowPositions, ShiftedRows
  <2>2. \A i \in D : t[i] = numerology[i] \/ t[i] = [numerology[i] EXCEPT !.position = @ + d]
    BY DEF Shifted
  <2>3. \A i \in D : t[i].name = numerology[i].name /\ t[i].sound = numerology[i].sound
    BY <1>1, <2>2 DEF Row
  <2> QED BY <2>1, <2>3
<1>5. \/ numerology' = numerology
      \/ \E lo, hi, d \in Int, but \in Nat : numerology' = Shifted(numerology, lo, hi, d, but)
  <2>1. 0 \in Nat /\ 1 \in Int /\ -1 \in Int /\ asked.idx \in Nat
    BY DEF TypesOK, AskedType
  <2> QED
    BY <1>2, <1>3, <2>1 DEF Place
<1>6. CASE numerology' = numerology
  BY <1>1, <1>6
<1>7. CASE numerology' # numerology
  <2>1. PICK lo, hi, d \in Int, but \in Nat : numerology' = Shifted(numerology, lo, hi, d, but)
    BY <1>5, <1>7
  <2> HIDE DEF D
  <2>2. /\ numerology' \in [D -> Row]
        /\ \A i \in D : numerology'[i].name = numerology[i].name /\ numerology'[i].sound = numerology[i].sound
    BY <1>4, <2>1
  <2> QED BY <2>2 DEF D
<1> QED BY <1>6, <1>7

(* The renumbering changes positions only.                                 *)
LEMMA RenumberFacts ==
  ASSUME TypesOK, Renumber
  PROVE  /\ numerology' \in [DOMAIN numerology -> Row]
         /\ \A i \in DOMAIN numerology : /\ numerology'[i].name = numerology[i].name
                                         /\ numerology'[i].sound = numerology[i].sound
<1> DEFINE D == DOMAIN numerology
<1>1. PICK n \in Nat : D \in SUBSET (1 .. n) /\ numerology \in [D -> Row]
  BY DEF TypesOK
<1>2. numerology' = Renumbered(numerology)
  BY DEF Renumber
<1>3. /\ numerology' \in [D -> Row]
      /\ \A i \in D : numerology'[i] = [numerology[i] EXCEPT !.position = PlaceOf(numerology, numerology', i)]
  <2> HIDE DEF D
  <2> QED BY <1>1, <1>2, RowPositions, RenumberedRows
<1>4. \A i \in D : numerology'[i].name = numerology[i].name /\ numerology'[i].sound = numerology[i].sound
  BY <1>1, <1>3 DEF Row
<1> QED BY <1>3, <1>4

(* A row inserted, or written over.                                        *)
LEMMA WithRow ==
  ASSUME TypesOK, NEW i \in Nat \ {0}, NEW row \in Row
  PROVE  /\ With(numerology, i, row) \in [DOMAIN numerology \cup {i} -> Row]
         /\ DOMAIN With(numerology, i, row) = DOMAIN numerology \cup {i}
         /\ \E n \in Nat : DOMAIN numerology \cup {i} \subseteq 1 .. n
<1>1. PICK n \in Nat : DOMAIN numerology \subseteq 1 .. n
  BY DEF TypesOK
<1>2. DOMAIN numerology \cup {i} \subseteq 1 .. n + i /\ n + i \in Nat
  BY <1>1
<1>3. With(numerology, i, row) \in [DOMAIN numerology \cup {i} -> Row]
  BY DEF With, TypesOK
<1> QED BY <1>2, <1>3

(* The idx of a new row is a new one.                                      *)
LEMMA NewRow ==
  ASSUME TypesOK
  PROVE  NewIdx(numerology) \in Nat \ {0} /\ NewIdx(numerology) \notin DOMAIN numerology
<1>1. PICK n \in Nat : DOMAIN numerology \subseteq 1 .. n
  BY DEF TypesOK
<1>2. NewIdx(numerology) \in 1 .. n + 1 /\ \A i \in DOMAIN numerology : i < NewIdx(numerology)
  BY <1>1, NewIdxFacts
<1> QED BY <1>1, <1>2

(* A request is made with a name of its own, or the name of its row.       *)
LEMMA AskFacts ==
  ASSUME TypesOK, NEW k \in 0 .. Defaults + MaxOld, AskAdd(k)
  PROVE  /\ asked'.idx = 0 /\ asked'.name = Defaults + MaxOld + made + 1 /\ asked'.place = k
         /\ at' = "place" /\ asked' \in AskedType /\ asked'.name \in Names
         /\ made' = made + 1 /\ made < MaxRequests
  BY DatabaseAssumption DEF AskAdd, Ask, AskedType, Names, TypesOK

(* To save a row again, or to drag it, is to ask for a place for it.       *)
LEMMA AskPlaceFacts ==
  ASSUME TypesOK, NEW k \in 0 .. Defaults + MaxOld, NEW i, AskPlace(i, k)
  PROVE  /\ i \in DOMAIN numerology
         /\ asked'.idx = i /\ asked'.name = numerology[i].name /\ asked'.place = k
         /\ asked'.from = numerology[i].position
         /\ at' = "place" /\ asked' \in AskedType /\ asked'.name \in Names
         /\ made' = made + 1 /\ made < MaxRequests
<1>1. i \in DOMAIN numerology /\ i \in Nat /\ numerology[i] \in Row
  BY DEF AskPlace, TypesOK
<1> QED
  BY <1>1, DatabaseAssumption DEF AskPlace, Ask, AskedType, Row, Names, TypesOK

(* Types.                                                                  *)
LEMMA TypesStep ==
  ASSUME TypesOK, [Next]_vars
  PROVE  TypesOK'
<1> DEFINE Table(t) == t \in [DOMAIN t -> Row] /\ \E n \in Nat : DOMAIN t \subseteq 1 .. n
<1>0. /\ Defaults \in Nat \ {0} /\ MaxRequests \in Nat /\ MaxOld \in Nat /\ Table(numerology)
  BY DatabaseAssumption DEF TypesOK
<1>1. CASE CreateBoosts \/ AddCustomKey \/ AddCustomValue \/ AddListType \/ NumerologyTable
  BY <1>1 DEF CreateBoosts, AddCustomKey, AddCustomValue, AddListType, NumerologyTable, Adds,
              Swallowed, TypesOK, Columns, Startup, Windows, tables, history
<1>2. CASE TypeBoosts \/ TypeStreams
  <2>1. listType' \in [DOMAIN old.lists -> Null .. 2]
    BY <1>2 DEF TypeBoosts, TypeStreams, TypesOK, Null
  <2> QED BY <1>2, <2>1 DEF TypeBoosts, TypeStreams, TypesOK, Startup, history
<1>3. CASE InsertDefault
  <2> DEFINE row == [position |-> next, name |-> next, sound |-> FALSE]
             i == NewIdx(numerology)
  <2>1. next \in 1 .. Defaults /\ next \in Int /\ next \in Names
    BY <1>0 DEF TypesOK, Names
  <2>2. row \in Row
    BY <2>1 DEF Row
  <2>3. numerology' = With(numerology, i, row)
    BY <1>3 DEF InsertDefault
  <2> HIDE DEF i, row
  <2>4. i \in Nat \ {0}
    BY NewRow DEF i
  <2>5. Table(numerology')
    <3>1. /\ numerology' \in [DOMAIN numerology \cup {i} -> Row]
          /\ DOMAIN numerology' = DOMAIN numerology \cup {i}
          /\ \E n \in Nat : DOMAIN numerology \cup {i} \subseteq 1 .. n
      BY <2>2, <2>3, <2>4, WithRow
    <3> QED BY <3>1
  <2>6. next' \in 1 .. Defaults /\ (next' # 1 => at' \in {"defaults", "redefault"})
    BY <1>0, <1>3, <2>1 DEF InsertDefault
  <2> QED BY <1>3, <2>5, <2>6 DEF InsertDefault, TypesOK, Startup, history
<1>4. CASE CopySounds \/ CopyWebhooks \/ ArchiveWebhooks
  BY <1>4 DEF CopySounds, CopyWebhooks, ArchiveWebhooks, Reads, TypesOK, Startup, tables, history
<1>5. CASE DropSounds
  <2>1. \A i \in DOMAIN numerology : [numerology[i] EXCEPT !.sound = FALSE] \in Row
    BY DEF TypesOK, Row
  <2>2. DOMAIN numerology' = DOMAIN numerology /\ numerology' \in [DOMAIN numerology -> Row]
    BY <1>5, <2>1 DEF DropSounds
  <2>3. Table(numerology')
    BY <1>0, <2>2
  <2> QED BY <1>5, <2>3 DEF DropSounds, TypesOK, Startup, history
<1>6. CASE \/ \E k \in 0 .. Defaults + MaxOld : AskAdd(k)
           \/ \E k \in 0 .. Defaults + MaxOld, i \in DOMAIN numerology : AskPlace(i, k)
  <2>1. /\ at' = "place" /\ asked' \in AskedType /\ asked'.name \in Names
        /\ made' = made + 1 /\ made < MaxRequests
    BY <1>6, AskFacts, AskPlaceFacts
  <2>2. UNCHANGED <<schema, tables, next, old, cut, failed, misread, gap>> /\ at = "up"
    BY <1>6 DEF AskAdd, AskPlace, Ask
  <2> QED BY <1>0, <2>1, <2>2 DEF TypesOK, Request, tables
<1>7. CASE (\E i \in DOMAIN numerology : AskDelete(i)) \/ AskReset
  <2>1. /\ at' \in {"delete", "clear"} /\ asked' \in AskedType
        /\ made' = made + 1 /\ made < MaxRequests
    BY <1>7 DEF AskDelete, AskReset, Ask, NoOne, AskedType, TypesOK
  <2>2. UNCHANGED <<schema, tables, next, old, cut, failed, misread, gap>> /\ at = "up"
    BY <1>7 DEF AskDelete, AskReset, Ask
  <2> QED BY <1>0, <2>1, <2>2 DEF TypesOK, Request, tables
<1>8. CASE Place
  <2>1. DOMAIN numerology' = DOMAIN numerology /\ numerology' \in [DOMAIN numerology -> Row]
    BY <1>8, PlaceFacts
  <2>2. Table(numerology')
    BY <1>0, <2>1
  <2> QED BY <1>8, <2>2 DEF Place, TypesOK, Request, history
<1>9. CASE Upsert
  <2> DEFINE i == IF asked.idx = 0 THEN NewIdx(numerology) ELSE asked.idx
             row == [position |-> asked.place, name |-> asked.name, sound |-> FALSE]
  <2>1. row \in Row
    BY <1>9 DEF Row, Upsert, TypesOK, AskedType
  <2>2. i \in Nat \ {0}
    BY NewRow DEF TypesOK, AskedType
  <2>3. numerology' = With(numerology, i, row)
    BY <1>9 DEF Upsert
  <2> HIDE DEF i, row
  <2>4. Table(numerology')
    <3>1. /\ numerology' \in [DOMAIN numerology \cup {i} -> Row]
          /\ DOMAIN numerology' = DOMAIN numerology \cup {i}
          /\ \E n \in Nat : DOMAIN numerology \cup {i} \subseteq 1 .. n
      BY <2>1, <2>2, <2>3, WithRow
    <3> QED BY <3>1
  <2> QED BY <1>9, <2>4 DEF Upsert, TypesOK, Request, history
<1>10. CASE Delete
  <2>1. DOMAIN numerology' \subseteq DOMAIN numerology /\ numerology' \in [DOMAIN numerology' -> Row]
    BY <1>0, <1>10 DEF Delete
  <2>2. Table(numerology')
    BY <1>0, <2>1
  <2> QED BY <1>10, <2>2 DEF Delete, TypesOK, Request, history
<1>11. CASE Renumber
  <2>1. DOMAIN numerology' = DOMAIN numerology /\ numerology' \in [DOMAIN numerology -> Row]
    BY <1>11, RenumberFacts
  <2>2. Table(numerology') /\ asked' \in AskedType
    BY <1>0, <1>11, <2>1 DEF Renumber, NoOne, AskedType
  <2> QED BY <1>11, <2>2 DEF Renumber, TypesOK, history
<1>12. CASE Clear
  <2>1. Table(numerology')
    BY <1>12, NoRows DEF Clear
  <2> QED BY <1>0, <1>12, <2>1 DEF Clear, TypesOK, Request
<1>13. CASE Restart \/ RequestFails
  <2>1. /\ UNCHANGED <<schema, tables, made, old, misread>> /\ at' \in {"boosts", "up"}
        /\ failed' \in {{}, failed}
        /\ asked' = NoOne /\ next' = 1 /\ gap' = (gap \/ at \in {"upsert", "renumber"})
        /\ cut' = [w \in Windows |-> IF w = at THEN cut[w] + 1 ELSE cut[w]]
    BY <1>13 DEF Restart, RequestFails, Cut
  <2>2. cut' \in [Windows -> Nat]
    BY <2>1 DEF TypesOK
  <2>3. gap' \in BOOLEAN /\ asked' \in AskedType
    BY <2>1 DEF TypesOK, NoOne, AskedType
  <2> QED BY <1>0, <2>1, <2>2, <2>3 DEF TypesOK, Startup, tables
<1>14. CASE UNCHANGED vars
  BY <1>14 DEF vars, tables, history, TypesOK
<1>15. CASE Requested
  BY <1>6, <1>7, <1>8, <1>9, <1>10, <1>11, <1>12, <1>15, Requests
<1> QED
  BY <1>1, <1>2, <1>3, <1>4, <1>5, <1>13, <1>14, <1>15 DEF Next, Started

(* What is there.                                                          *)
LEMMA SchemaStep ==
  ASSUME TypesOK, SchemaOK, [Next]_vars
  PROVE  SchemaOK'
<1>1. CASE CreateBoosts \/ AddCustomKey \/ AddCustomValue \/ AddListType
  BY <1>1 DEF CreateBoosts, AddCustomKey, AddCustomValue, AddListType, Adds, Swallowed, SchemaOK, Columns,
              Early, Startup, tables
<1>2. CASE TypeBoosts \/ TypeStreams
  BY <1>2 DEF TypeBoosts, TypeStreams, SchemaOK, Early, Startup
<1>3. CASE NumerologyTable
  BY <1>3 DEF NumerologyTable, Adds, SchemaOK, Early, Startup, tables
<1>4. CASE InsertDefault
  <2>1. "numerology" \in schema /\ "sound_file" \notin schema /\ UNCHANGED schema
    BY <1>4 DEF InsertDefault, SchemaOK, Early
  <2>2. at' \in {"defaults", "redefault", "sounds", "up"} /\ (at = "redefault" => at' \in {"redefault", "up"})
    BY <1>4 DEF InsertDefault
  <2>3. at = "defaults" => at' \in Startup
    BY <1>4 DEF InsertDefault, Startup
  <2>4. at \in {"defaults", "redefault"}
    BY <1>4 DEF InsertDefault
  <2>5. at = "redefault" => "webhooks" \notin schema
    BY DEF SchemaOK, Startup
  <2> QED BY <2>1, <2>2, <2>3, <2>4, <2>5 DEF SchemaOK, Early
<1>5. CASE CopySounds \/ DropSounds \/ CopyWebhooks \/ ArchiveWebhooks
  BY <1>5 DEF CopySounds, DropSounds, CopyWebhooks, ArchiveWebhooks, SchemaOK, Early, Startup, tables
<1>6. CASE Requested
  <2>1. at \notin Early /\ at' \notin Early /\ "sound_file" \notin schema /\ "webhooks" \notin schema
    BY <1>6, RequestedFrame DEF Request, SchemaOK, Early, Startup
  <2> QED BY <1>6, <2>1, RequestedFrame DEF SchemaOK, Request
<1>7. CASE Restart \/ RequestFails
  <2>1. UNCHANGED <<schema, tables>> /\ (at' = "boosts" \/ (at \in Request /\ at' = "up"))
    BY <1>7 DEF Restart, RequestFails, Cut
  <2> QED BY <2>1 DEF SchemaOK, Early, Startup, Request, tables
<1>8. CASE UNCHANGED vars
  BY <1>8 DEF vars, tables, SchemaOK
<1> QED
  BY <1>1, <1>2, <1>3, <1>4, <1>5, <1>6, <1>7, <1>8 DEF Next, Started

----------------------------------------------------------------------------
(* A default row goes behind those that are there.                         *)
LEMMA InsertFacts ==
  ASSUME TypesOK, RowsOK, InsertDefault
  PROVE  Inserted(numerology', next)
<1>1. DOMAIN numerology = 1 .. next - 1 /\ \A i \in 1 .. next - 1 :
        numerology[i].position = i /\ numerology[i].name = i
  BY DEF InsertDefault, RowsOK, Inserted
<1>2. next \in Nat /\ next >= 1
  BY DatabaseAssumption DEF TypesOK
<1>3. NewIdx(numerology) = next
  <2>1. next - 1 \in Nat /\ DOMAIN numerology \subseteq 1 .. next - 1
    BY <1>1, <1>2
  <2>2. NewIdx(numerology) \in 1 .. (next - 1) + 1 /\ \A i \in DOMAIN numerology : i < NewIdx(numerology)
    BY <2>1, NewIdxFacts
  <2>3. next = 1 \/ next - 1 \in DOMAIN numerology
    BY <1>1, <1>2
  <2> QED BY <1>2, <2>2, <2>3
<1>4. /\ DOMAIN numerology' = DOMAIN numerology \cup {next}
      /\ numerology'[next] = [position |-> next, name |-> next, sound |-> FALSE]
      /\ \A i \in DOMAIN numerology : i # next => numerology'[i] = numerology[i]
  BY <1>3 DEF InsertDefault, With
<1>5. 1 .. next = (1 .. next - 1) \cup {next}
  BY <1>2
<1>6. ASSUME NEW i \in 1 .. next
      PROVE  numerology'[i].position = i /\ numerology'[i].name = i
  <2>1. CASE i = next
    BY <1>4, <2>1
  <2>2. CASE i \in 1 .. next - 1
    <3>1. i \in DOMAIN numerology /\ i # next
      BY <1>1, <1>2, <2>2
    <3> QED BY <1>1, <1>4, <2>2, <3>1
  <2> QED BY <1>5, <2>1, <2>2
<1> QED BY <1>1, <1>4, <1>5, <1>6 DEF Inserted

(* Such a table is in order.                                               *)
LEMMA InsertedDense ==
  ASSUME NEW n \in Nat, NEW tbl, Inserted(tbl, n)
  PROVE  Dense(tbl)
<1>1. Cardinality(1 .. n) = n
  BY FS_Interval
<1> QED BY <1>1 DEF Inserted, Dense

(* Names.                                                                  *)
LEMMA RowsInit ==
  ASSUME Init
  PROVE  RowsOK
<1>1. PICK n \in Nat : /\ numerology \in [1 .. n -> Row]
                       /\ \A i \in 1 .. n : /\ numerology[i].name = Defaults + i
                                            /\ numerology[i].name <= Defaults + MaxOld
  BY OldRowsFacts DEF Init
<1>2. DOMAIN numerology = 1 .. n /\ at = "boosts" /\ made = 0
  BY <1>1 DEF Init
<1>3. \A i, j \in 1 .. n : numerology[i].name = numerology[j].name => i = j
  BY <1>1, DatabaseAssumption
<1>4. \A i \in DOMAIN numerology : numerology[i].name <= Defaults + MaxOld + made
  BY <1>1, <1>2, DatabaseAssumption
<1> QED BY <1>2, <1>3, <1>4 DEF RowsOK, NamesAreUnique

(* Steps that add no row.                                                  *)
LEMMA SameRows ==
  ASSUME TypesOK, RowsOK, made' = made \/ made' = made + 1,
         DOMAIN numerology' \subseteq DOMAIN numerology,
         \A i \in DOMAIN numerology' : numerology'[i].name = numerology[i].name
  PROVE  /\ NamesAreUnique'
         /\ \A i \in DOMAIN numerology' : numerology'[i].name <= Defaults + MaxOld + made'
<1>1. NamesAreUnique'
  BY DEF RowsOK, NamesAreUnique
<1>2. ASSUME NEW i \in DOMAIN numerology'
      PROVE  numerology'[i].name <= Defaults + MaxOld + made'
  <2>1. i \in DOMAIN numerology /\ numerology[i] \in Row /\ made \in Int
    BY DEF TypesOK
  <2>2. numerology[i].name \in Int /\ numerology[i].name <= Defaults + MaxOld + made
    BY <2>1, DatabaseAssumption DEF Row, Names, RowsOK
  <2> QED BY <2>1, <2>2, DatabaseAssumption
<1> QED BY <1>1, <1>2

(* Names, through all of it: a save that is cut, or a reset, included.     *)
LEMMA RowsStep ==
  ASSUME TypesOK, SchemaOK, RowsOK, [Next]_vars
  PROVE  RowsOK'
<1>0. /\ Defaults \in Nat \ {0} /\ MaxOld \in Nat /\ MaxRequests \in Nat /\ made \in Nat
      /\ \A i \in DOMAIN numerology : numerology[i] \in Row /\ numerology[i].name \in Int
  BY DatabaseAssumption DEF TypesOK, Row, Names
<1>1. CASE \/ CreateBoosts \/ AddCustomKey \/ AddCustomValue \/ AddListType \/ TypeBoosts \/ TypeStreams
           \/ CopySounds \/ CopyWebhooks \/ ArchiveWebhooks
  <2>1. UNCHANGED <<numerology, made>> /\ at' \notin {"place", "upsert", "defaults", "redefault"}
    BY <1>1 DEF CreateBoosts, AddCustomKey, AddCustomValue, AddListType, Adds, Swallowed, TypeBoosts, TypeStreams,
                CopySounds, CopyWebhooks, ArchiveWebhooks, tables, history
  <2> QED BY <2>1, SameRows DEF RowsOK
<1>2. CASE NumerologyTable
  <2>1. UNCHANGED <<numerology, made, next>> /\ next = 1 /\ at' \in {"defaults", "sounds"}
        /\ (at' = "defaults" => "numerology" \notin schema)
    BY <1>2 DEF NumerologyTable, Adds, tables, history, TypesOK
  <2>2. at' = "defaults" => Inserted(numerology', next' - 1)
    <3>1. at' = "defaults" => DOMAIN numerology = {} /\ 1 .. next' - 1 = {}
      BY <2>1, NoRows DEF SchemaOK
    <3> QED BY <2>1, <3>1 DEF Inserted
  <2> QED BY <2>1, <2>2, SameRows DEF RowsOK
<1>3. CASE InsertDefault
  <2>1. Inserted(numerology', next) /\ next \in 1 .. Defaults /\ next \in Nat
    BY <1>0, <1>3, InsertFacts DEF TypesOK
  <2>2. at' \in {"defaults", "redefault"} => next' = next + 1
    BY <1>3, <2>1 DEF InsertDefault
  <2>3. at' \notin {"place", "upsert"} /\ UNCHANGED made
    BY <1>3 DEF InsertDefault, history
  <2>4. at' \in {"defaults", "redefault"} => Inserted(numerology', next' - 1)
    BY <2>1, <2>2
  <2>5. NamesAreUnique'
    BY <2>1 DEF Inserted, NamesAreUnique
  <2>6. \A i \in DOMAIN numerology' : numerology'[i].name <= Defaults + MaxOld + made'
    BY <1>0, <2>1, <2>3 DEF Inserted
  <2> QED BY <2>3, <2>4, <2>5, <2>6 DEF RowsOK
<1>4. CASE DropSounds
  <2>1. /\ DOMAIN numerology' = DOMAIN numerology /\ at' = "webhooks" /\ made' = made
        /\ \A i \in DOMAIN numerology : numerology'[i] = [numerology[i] EXCEPT !.sound = FALSE]
    BY <1>4 DEF DropSounds, history
  <2>2. \A i \in DOMAIN numerology : numerology'[i].name = numerology[i].name
    BY <1>0, <2>1 DEF Row
  <2> QED BY <2>1, <2>2, SameRows DEF RowsOK
<1>5. CASE \E k \in 0 .. Defaults + MaxOld : AskAdd(k)
  <2>1. /\ asked'.idx = 0 /\ asked'.name = Defaults + MaxOld + made + 1 /\ at' = "place"
        /\ made' = made + 1
    BY <1>5, AskFacts
  <2>2. UNCHANGED numerology
    BY <1>5 DEF AskAdd, Ask, tables
  <2>3. \A i \in DOMAIN numerology : numerology[i].name # Defaults + MaxOld + made + 1
    BY <1>0 DEF RowsOK
  <2>4. NameIsOwn'
    <3>1. asked'.name <= Defaults + MaxOld + made'
      BY <1>0, <2>1 DEF RowsOK
    <3> QED BY <2>1, <2>2, <2>3, <3>1 DEF NameIsOwn
  <2> QED BY <2>1, <2>2, <2>4, SameRows DEF RowsOK
<1>6. CASE \E k \in 0 .. Defaults + MaxOld, i \in DOMAIN numerology : AskPlace(i, k)
  <2>1. PICK i \in DOMAIN numerology : /\ asked'.idx = i /\ asked'.name = numerology[i].name /\ at' = "place"
                                       /\ made' = made + 1
    BY <1>6, AskPlaceFacts
  <2>2. UNCHANGED numerology
    BY <1>6 DEF AskPlace, Ask, tables
  <2>3. i # 0
    BY DEF TypesOK
  <2>4. NameIsOwn'
    <3>1. asked'.name <= Defaults + MaxOld + made'
      BY <1>0, <2>1 DEF RowsOK
    <3> QED BY <2>1, <2>2, <2>3, <3>1 DEF NameIsOwn
  <2> QED BY <2>1, <2>2, <2>4, SameRows DEF RowsOK
<1>7. CASE (\E i \in DOMAIN numerology : AskDelete(i)) \/ AskReset
  <2>1. at' \in {"delete", "clear"} /\ made' = made + 1 /\ UNCHANGED numerology
    BY <1>7 DEF AskDelete, AskReset, Ask, tables
  <2> QED BY <2>1, SameRows DEF RowsOK
<1>8. CASE Place
  <2>1. DOMAIN numerology' = DOMAIN numerology /\ \A i \in DOMAIN numerology : numerology'[i].name = numerology[i].name
    BY <1>8, PlaceFacts
  <2>2. at = "place" /\ at' = "upsert" /\ UNCHANGED <<asked, made>>
    BY <1>8 DEF Place, history
  <2>3. NameIsOwn'
    BY <2>1, <2>2 DEF NameIsOwn, RowsOK
  <2> QED BY <2>1, <2>2, <2>3, SameRows DEF RowsOK
<1>9. CASE Upsert
  <2>1. at = "upsert" /\ at' = "renumber" /\ UNCHANGED made /\ numerology' = With(numerology, Target, Given)
    BY <1>9 DEF Upsert, Target, Given, history
  <2>2. /\ DOMAIN numerology' = DOMAIN numerology \cup {Target}
        /\ numerology'[Target].name = asked.name
        /\ \A i \in DOMAIN numerology \ {Target} : numerology'[i].name = numerology[i].name
    BY <2>1 DEF With, Given
  <2>3. \A i \in DOMAIN numerology \ {Target} : numerology[i].name # asked.name
    BY <2>1 DEF RowsOK, NameIsOwn, NamesAreUnique, Target
  <2>4. NamesAreUnique'
    <3> HIDE DEF Target
    <3> QED BY <2>2, <2>3 DEF RowsOK, NamesAreUnique
  <2>5. asked.name <= Defaults + MaxOld + made
    BY <2>1 DEF RowsOK, NameIsOwn
  <2>6. \A i \in DOMAIN numerology' : numerology'[i].name <= Defaults + MaxOld + made'
    <3> HIDE DEF Target
    <3> QED BY <2>1, <2>2, <2>5 DEF RowsOK
  <2> QED BY <2>1, <2>4, <2>6 DEF RowsOK
<1>10. CASE Delete
  <2>1. /\ at' = "renumber" /\ UNCHANGED made /\ DOMAIN numerology' \subseteq DOMAIN numerology
        /\ \A i \in DOMAIN numerology' : numerology'[i] = numerology[i]
    BY <1>10 DEF Delete, history
  <2> QED BY <2>1, SameRows DEF RowsOK
<1>11. CASE Renumber
  <2>1. DOMAIN numerology' = DOMAIN numerology /\ \A i \in DOMAIN numerology : numerology'[i].name = numerology[i].name
    BY <1>11, RenumberFacts
  <2>2. at' = "up" /\ UNCHANGED made
    BY <1>11 DEF Renumber, history
  <2> QED BY <2>1, <2>2, SameRows DEF RowsOK
<1>12. CASE Clear
  <2>1. numerology' = <<>> /\ next' = 1 /\ at' = "redefault" /\ UNCHANGED made
    BY <1>12 DEF Clear
  <2>2. DOMAIN numerology' = {} /\ 1 .. next' - 1 = {}
    BY <2>1, NoRows
  <2>3. Inserted(numerology', next' - 1)
    BY <2>2 DEF Inserted
  <2> QED BY <2>1, <2>2, <2>3, SameRows DEF RowsOK
<1>13. CASE Restart \/ RequestFails
  <2>1. at' \in {"boosts", "up"} /\ UNCHANGED <<numerology, made>>
    BY <1>13 DEF Restart, RequestFails, Cut, tables
  <2> QED BY <2>1, SameRows DEF RowsOK
<1>14. CASE UNCHANGED vars
  BY <1>14 DEF vars, tables, history, RowsOK, NamesAreUnique, NameIsOwn, Inserted
<1>15. CASE Requested
  BY <1>5, <1>6, <1>7, <1>8, <1>9, <1>10, <1>11, <1>12, <1>15, Requests
<1> QED
  BY <1>1, <1>2, <1>3, <1>4, <1>13, <1>14, <1>15 DEF Next, Started

----------------------------------------------------------------------------
(* The numerology is in order at the first start.                          *)
LEMMA PlacesInit ==
  ASSUME Init
  PROVE  PlacesOK
<1>1. Dense(numerology) /\ at = "boosts"
  BY OldRowsFacts DEF Init
<1> QED BY <1>1 DEF PlacesOK

(* The row that a save has made room for can be put there.                 *)
LEMMA PlacesPlaced ==
  ASSUME TypesOK, RowsOK, PlacesOK, Place
  PROVE  PlacesOK'
<1> DEFINE D == DOMAIN numerology
           k == asked.place
           x == asked.idx
<1>1. PICK n \in Nat : D \in SUBSET (1 .. n) /\ numerology \in [D -> Row]
  BY DEF TypesOK
<1>2. /\ k \in Nat /\ k \in Int /\ x \in Nat /\ asked.from \in Int /\ asked.name \in Names
      /\ at = "place" /\ at' = "upsert" /\ UNCHANGED <<asked, gap>> /\ NameIsOwn
      /\ IsFiniteSet(D)
  BY <1>1, Enumeration DEF TypesOK, AskedType, Place, history, RowsOK
<1>3. Given \in Row /\ Given.position = k
  BY <1>2 DEF Given, Row
<1>4. SUFFICES ASSUME ~gap
               PROVE  Renumberable(With(numerology', Target', Given))
  BY <1>2 DEF PlacesOK, Given
<1>5. Dense(numerology) /\ (x # 0 => x \in D /\ asked.from = numerology[x].position)
  BY <1>2, <1>4 DEF PlacesOK, NameIsOwn
<1>6. CASE x = 0
  <2> DEFINE top == Highest(numerology, k)
  <2>1. top \in Int /\ \A j \in D : numerology[j].position <= top
    <3> HIDE DEF D, k
    <3> QED BY <1>1, <1>2, RowPositions, MaxOfPositions
  <2>2. numerology' = Shifted(numerology, k, top, 1, 0)
    BY <1>6 DEF Place
  <2>3. DOMAIN numerology' = D
    BY <2>2 DEF Shifted
  <2>4. Target' = NewIdx(numerology)
    BY <1>2, <1>6, <2>3 DEF Target, NewIdx
  <2>5. NewIdx(numerology) \in Nat \ D
    BY NewRow
  <2> HIDE DEF D, k, top
  <2> QED BY <1>1, <1>2, <1>3, <1>5, <2>1, <2>2, <2>4, <2>5, RowPositions, AddRenumberable
<1>7. CASE x # 0
  <2> DEFINE from == numerology[x].position
             t == IF k < from THEN Shifted(numerology, k, from, 1, x) ELSE Shifted(numerology, from, k, -1, x)
  <2>1. Target' = x /\ from = asked.from /\ x \in D /\ from \in Int
    BY <1>1, <1>2, <1>5, <1>7 DEF Target, Row
  <2>2. CASE k = from
    <3>1. numerology' = numerology
      BY <1>7, <2>1, <2>2 DEF Place
    <3>2. Given.position = numerology[x].position
      BY <1>3, <2>2
    <3> HIDE DEF D, k, x, from
    <3> QED BY <1>2, <1>5, <1>7, <2>1, <3>1, <3>2, DenseWith DEF D
  <2>3. CASE k # from
    <3>1. numerology' = t
      BY <1>2, <1>7, <2>1, <2>3 DEF Place
    <3>2. Renumberable(With(t, x, Given))
      <4> HIDE DEF D, k, x
      <4> QED BY <1>1, <1>2, <1>3, <1>5, <2>1, RowPositions, MoveRenumberable
    <3> QED BY <2>1, <3>1, <3>2
  <2> QED BY <2>2, <2>3
<1> QED BY <1>6, <1>7

(* Whatever a statement does, and wherever it is the last that is run.     *)
LEMMA PlacesStep ==
  ASSUME TypesOK, RowsOK, PlacesOK, [Next]_vars
  PROVE  PlacesOK'
<1>0. PICK n \in Nat : /\ DOMAIN numerology \in SUBSET (1 .. n)
                       /\ numerology \in [DOMAIN numerology -> Row]
                       /\ IsFiniteSet(DOMAIN numerology)
  BY Enumeration DEF TypesOK
<1>1. CASE \/ CreateBoosts \/ AddCustomKey \/ AddCustomValue \/ AddListType \/ TypeBoosts \/ TypeStreams
           \/ NumerologyTable \/ CopySounds \/ CopyWebhooks \/ ArchiveWebhooks
  <2>1. UNCHANGED <<numerology, gap>> /\ at \notin {"upsert", "renumber"} /\ at' \notin {"place", "upsert", "renumber"}
    BY <1>1 DEF CreateBoosts, AddCustomKey, AddCustomValue, AddListType, NumerologyTable, Adds, Swallowed,
                TypeBoosts, TypeStreams, CopySounds, CopyWebhooks, ArchiveWebhooks, tables, history
  <2> QED BY <2>1 DEF PlacesOK
<1>2. CASE InsertDefault
  <2>1. Inserted(numerology', next) /\ next \in Nat
    BY <1>2, InsertFacts, DatabaseAssumption DEF TypesOK
  <2>2. Dense(numerology')
    BY <2>1, InsertedDense
  <2>3. at' \notin {"place", "upsert", "renumber"}
    BY <1>2 DEF InsertDefault
  <2> QED BY <2>2, <2>3 DEF PlacesOK
<1>3. CASE DropSounds
  <2>1. /\ DOMAIN numerology' = DOMAIN numerology /\ at = "dropSounds" /\ at' = "webhooks" /\ UNCHANGED gap
        /\ \A i \in DOMAIN numerology : numerology'[i] = [numerology[i] EXCEPT !.sound = FALSE]
    BY <1>3 DEF DropSounds, history
  <2>2. SamePositions(numerology, numerology')
    BY <1>0, <2>1 DEF SamePositions, Row
  <2>3. Dense(numerology) => Dense(numerology')
    BY <2>2, SameOrder
  <2> QED BY <2>1, <2>3 DEF PlacesOK
<1>4. CASE \E k \in 0 .. Defaults + MaxOld : AskAdd(k)
  <2>1. at = "up" /\ at' = "place" /\ UNCHANGED <<numerology, gap>> /\ asked'.idx = 0
    BY <1>4 DEF AskAdd, Ask, tables
  <2> QED BY <2>1 DEF PlacesOK
<1>5. CASE \E k \in 0 .. Defaults + MaxOld, i \in DOMAIN numerology : AskPlace(i, k)
  <2>1. /\ at = "up" /\ at' = "place" /\ UNCHANGED <<numerology, gap>>
        /\ asked'.from = numerology[asked'.idx].position
    BY <1>5 DEF AskPlace, Ask, tables
  <2> QED BY <2>1 DEF PlacesOK
<1>6. CASE (\E i \in DOMAIN numerology : AskDelete(i)) \/ AskReset
  <2>1. at = "up" /\ at' \in {"delete", "clear"} /\ UNCHANGED <<numerology, gap>>
    BY <1>6 DEF AskDelete, AskReset, Ask, tables
  <2> QED BY <2>1 DEF PlacesOK
<1>7. CASE Place
  BY <1>7, PlacesPlaced
<1>8. CASE Upsert
  <2>1. numerology' = With(numerology, Target, Given) /\ at = "upsert" /\ at' = "renumber" /\ UNCHANGED gap
    BY <1>8 DEF Upsert, Target, Given, history
  <2> QED BY <2>1 DEF PlacesOK
<1>9. CASE Delete
  <2>1. /\ numerology' = [j \in DOMAIN numerology \ {asked.idx} |-> numerology[j]]
        /\ at = "delete" /\ at' = "renumber" /\ UNCHANGED gap
    BY <1>9 DEF Delete, history
  <2>2. Dense(numerology) => Renumberable(numerology')
    BY <1>0, <2>1, RowPositions, DeleteRenumberable
  <2> QED BY <2>1, <2>2 DEF PlacesOK
<1>10. CASE Renumber
  <2>1. numerology' = Renumbered(numerology) /\ at = "renumber" /\ at' = "up" /\ UNCHANGED gap
    BY <1>10 DEF Renumber, history
  <2>2. Renumberable(numerology) => Dense(numerology')
    BY <1>0, <2>1, RowPositions, RenumberedDense
  <2> QED BY <2>1, <2>2 DEF PlacesOK
<1>11. CASE Clear
  <2>1. Dense(numerology') /\ at' = "redefault"
    BY <1>11, NoRows DEF Clear
  <2> QED BY <2>1 DEF PlacesOK
<1>12. CASE Restart \/ RequestFails
  <2>1. at' \in {"boosts", "up"} /\ UNCHANGED numerology /\ gap' = (gap \/ at \in {"upsert", "renumber"})
    BY <1>12 DEF Restart, RequestFails, Cut, tables
  <2>2. ~gap' => ~gap /\ at \notin {"upsert", "renumber"}
    BY <2>1 DEF TypesOK
  <2> QED BY <2>1, <2>2 DEF PlacesOK
<1>13. CASE UNCHANGED vars
  BY <1>13 DEF vars, tables, history, PlacesOK, Target, Given
<1>14. CASE Requested
  BY <1>4, <1>5, <1>6, <1>7, <1>8, <1>9, <1>10, <1>11, <1>14, Requests
<1> QED
  BY <1>1, <1>2, <1>3, <1>12, <1>13, <1>14 DEF Next, Started

----------------------------------------------------------------------------
(* Rows whose positions differ can be enumerated in their order.           *)
LEMMA ByPositionFacts ==
  ASSUME NEW tbl, IsFiniteSet(DOMAIN tbl), Dense(tbl), NEW S \in SUBSET DOMAIN tbl
  PROVE  /\ Cardinality(S) \in Nat
         /\ ByPosition(tbl, S) \in [1 .. Cardinality(S) -> S] /\ InPlaces(tbl, ByPosition(tbl, S))
         /\ \A i \in S : \E k \in 1 .. Cardinality(S) : ByPosition(tbl, S)[k] = i
<1> DEFINE m == Cardinality(DOMAIN tbl)
           P == {tbl[i].position : i \in S}
           q == Cardinality(P)
           RowAt(v) == CHOOSE i \in S : tbl[i].position = v
<1>1. /\ m \in Nat /\ P \in SUBSET (1 .. m)
      /\ \A i, j \in S : tbl[i].position = tbl[j].position => i = j
  BY FS_CardinalityType DEF Dense
<1>2. q \in Nat /\ \E e \in [1 .. q -> P] :
        /\ \A j, k \in 1 .. q : j < k => e[j] < e[k]
        /\ \A v \in P : \E k \in 1 .. q : e[k] = v
  <2> HIDE DEF P, m
  <2> QED BY <1>1, Enumeration
<1>3. PICK e \in [1 .. q -> P] :
        /\ \A j, k \in 1 .. q : j < k => e[j] < e[k]
        /\ \A v \in P : \E k \in 1 .. q : e[k] = v
  BY <1>2
<1>4. \A v \in P : RowAt(v) \in S /\ tbl[RowAt(v)].position = v
  OBVIOUS
<1> DEFINE s == [k \in 1 .. q |-> RowAt(e[k])]
<1>5. /\ s \in [1 .. q -> S] /\ DOMAIN s = 1 .. q
      /\ \A k \in 1 .. q : tbl[s[k]].position = e[k]
  <2> HIDE DEF P, q, RowAt
  <2> QED BY <1>3, <1>4
<1>6. \A i \in S : \E k \in 1 .. q : s[k] = i
  <2>1. ASSUME NEW i \in S
        PROVE  \E k \in 1 .. q : s[k] = i
    <3>1. PICK k \in 1 .. q : e[k] = tbl[i].position
      BY <1>3
    <3>2. s[k] \in S /\ tbl[s[k]].position = tbl[i].position
      <4> HIDE DEF s, q
      <4> QED BY <1>5, <3>1
    <3> HIDE DEF s, q
    <3> QED BY <1>1, <3>1, <3>2
  <2> QED BY <2>1
<1>7. InPlaces(tbl, s)
  <2> HIDE DEF s, q
  <2> QED BY <1>3, <1>5 DEF InPlaces
<1>8. s \in Bijection(1 .. q, S)
  <2>1. \A j, k \in 1 .. q : s[j] = s[k] => j = k
    <3> HIDE DEF s, q
    <3>1. \A j, k \in 1 .. q : s[j] = s[k] => e[j] = e[k]
      BY <1>5
    <3>2. \A j, k \in 1 .. q : e[j] \in Int /\ (j < k \/ k < j \/ j = k)
      BY <1>1, <1>2, <1>3
    <3> QED BY <1>3, <3>1, <3>2
  <2> HIDE DEF s, q
  <2> QED BY <1>5, <1>6, <2>1 DEF Bijection, Injection, Surjection, IsInjective
<1>9. Cardinality(S) = q
  <2> HIDE DEF s, q
  <2> QED BY <1>2, <1>8, FS_CountingElements DEF ExistsBijection
<1>10. \E f \in Surjection(1 .. Cardinality(S), S) : InPlaces(tbl, f)
  <2> HIDE DEF s, q
  <2> QED BY <1>7, <1>8, <1>9 DEF Bijection
<1>11. /\ ByPosition(tbl, S) \in Surjection(1 .. Cardinality(S), S)
       /\ InPlaces(tbl, ByPosition(tbl, S))
  BY <1>10, Zenon DEF ByPosition
<1> HIDE DEF q
<1> QED BY <1>2, <1>9, <1>11 DEF Surjection

(* So can rows by their idx.                                               *)
LEMMA ByIdxFacts ==
  ASSUME NEW n \in Nat, NEW S \in SUBSET (1 .. n)
  PROVE  /\ ByIdx(S) \in [1 .. Cardinality(S) -> S]
         /\ \A i \in S : \E k \in 1 .. Cardinality(S) : ByIdx(S)[k] = i
<1>1. PICK e \in [1 .. Cardinality(S) -> S] :
        /\ \A j, k \in 1 .. Cardinality(S) : j < k => e[j] < e[k]
        /\ \A i \in S : \E k \in 1 .. Cardinality(S) : e[k] = i
  BY Enumeration
<1>2. e \in Surjection(1 .. Cardinality(S), S) /\ DOMAIN e = 1 .. Cardinality(S)
  BY <1>1 DEF Surjection
<1>3. \E s \in Surjection(1 .. Cardinality(S), S) : \A j, k \in DOMAIN s : j < k => s[j] < s[k]
  BY <1>1, <1>2
<1>4. ByIdx(S) \in Surjection(1 .. Cardinality(S), S)
  BY <1>3, Zenon DEF ByIdx
<1> QED BY <1>4 DEF Surjection

(* ROW_NUMBER() of the k-th row in the order of the positions is k.        *)
LEMMA RowNumber ==
  ASSUME TypesOK, NEW m \in Nat, NEW W \in SUBSET DOMAIN numerology, IsFiniteSet(W),
         NEW s \in [1 .. m -> W], InPlaces(numerology, s), \A i \in W : \E k \in 1 .. m : s[k] = i
  PROVE  /\ Cardinality(W) = m
         /\ \A k \in 1 .. m :
              1 + Cardinality({j \in W : numerology[j].position < numerology[s[k]].position}) = k
<1> DEFINE rank == [i \in W |-> CHOOSE k \in 1 .. m : s[k] = i]
           pos(i) == numerology[i].position
           Below(v) == {j \in W : rank[j] < v}
           Before(i) == {j \in W : pos(j) < pos(i)}
<1>1. \A i \in W : pos(i) \in Int
  BY DEF TypesOK, Row
<1>2. \A j, k \in 1 .. m : j < k => pos(s[j]) < pos(s[k])
  BY DEF InPlaces
<1>3. \A i \in W : rank[i] \in 1 .. m /\ s[rank[i]] = i
  OBVIOUS
<1>4. \A j, k \in 1 .. m : s[j] = s[k] => j = k
  <2>1. \A j, k \in 1 .. m : (j < k \/ k < j \/ j = k) /\ s[j] \in W /\ s[k] \in W
    OBVIOUS
  <2> HIDE DEF pos
  <2> QED BY <1>1, <1>2, <2>1
<1>5. s \in Bijection(1 .. m, W)
  BY <1>4 DEF Bijection, Injection, Surjection, IsInjective
<1>6. Cardinality(W) = m
  BY <1>5, FS_CountingElements DEF ExistsBijection
<1>7. rank \in [W -> 1 .. Cardinality(W)] /\ \A i, j \in W : rank[i] = rank[j] => i = j
  <2>1. rank \in [W -> 1 .. m]
    BY <1>3
  <2> HIDE DEF rank
  <2> QED BY <1>3, <1>6, <2>1
<1>8. ASSUME NEW k \in 1 .. m
      PROVE  1 + Cardinality(Before(s[k])) = k
  <2>1. ASSUME NEW j \in W
        PROVE  pos(j) < pos(s[k]) <=> rank[j] < k
    <3>1. rank[j] \in 1 .. m /\ s[rank[j]] = j /\ s[k] \in W
      BY <1>3
    <3> HIDE DEF rank, pos
    <3>2. pos(j) \in Int /\ pos(s[k]) \in Int /\ rank[j] \in Int /\ k \in Int
      BY <1>1, <3>1
    <3>3. rank[j] < k => pos(j) < pos(s[k])
      BY <1>2, <3>1
    <3>4. k < rank[j] => pos(s[k]) < pos(j)
      BY <1>2, <3>1
    <3>5. k = rank[j] => pos(s[k]) = pos(j)
      BY <3>1
    <3> QED BY <3>2, <3>3, <3>4, <3>5
  <2>2. Before(s[k]) = Below(k)
    <3> HIDE DEF rank, pos
    <3> QED BY <2>1
  <2>3. \A v \in 1 .. Cardinality(W) : Cardinality(Below(v)) = v - 1
    <3> HIDE DEF rank
    <3>1. \A v \in 1 .. Cardinality(W) :
            (\E i \in W : rank[i] = v) /\ Cardinality({j \in W : rank[j] < v}) = v - 1
      BY <1>7, RankCount, Zenon
    <3> QED BY <3>1
  <2> HIDE DEF Below, Before
  <2>4. Cardinality(Below(k)) = k - 1
    BY <1>6, <2>3
  <2> QED BY <2>2, <2>4
<1> QED BY <1>6, <1>8

----------------------------------------------------------------------------
(* Triggers have positions as OrderFacts means it.                         *)
LEMMA EntryPositions == HavePositions(Entry)
  BY DEF HavePositions, Entry

(* The last position is among the rows' numbers, and the last of them if a *)
(* row is there.                                                           *)
LEMMA LastFacts ==
  ASSUME NEW T \in Nat, triggers \in [1 .. T -> Entry],
         \A i \in 1 .. T : triggers[i].position \in 1 .. T
  PROVE  /\ LastPosition \in 0 .. T
         /\ (T # 0 => \E i \in 1 .. T : triggers[i].position = T) => LastPosition = T
<1> DEFINE top == Highest(triggers, 0)
<1>1. /\ top \in Int /\ 0 <= top /\ top <= T
      /\ \A j \in 1 .. T : triggers[j].position <= top
  <2> DEFINE D == 1 .. T
             k == 0
  <2>1. /\ D \in SUBSET (1 .. T) /\ triggers \in [D -> Entry] /\ k \in Int
        /\ k <= T /\ \A j \in D : triggers[j].position <= T
    OBVIOUS
  <2> HIDE DEF D, k, top
  <2>2. Highest(triggers, k) \in Int /\ k <= Highest(triggers, k)
    BY <2>1, EntryPositions, MaxOfPositions
  <2>3. \A j \in D : triggers[j].position <= Highest(triggers, k)
    BY <2>1, EntryPositions, MaxOfPositions
  <2>4. Highest(triggers, k) <= T
    <3>1. \A b \in Int : k <= b /\ (\A j \in D : triggers[j].position <= b) => Highest(triggers, k) <= b
      BY <2>1, EntryPositions, MaxOfPositions, Zenon
    <3> QED BY <2>1, <3>1
  <2> QED BY <2>2, <2>3, <2>4 DEF D, k, top
<1> HIDE DEF top
<1>2. ASSUME T # 0 => \E i \in 1 .. T : triggers[i].position = T
      PROVE  top = T
  <2>1. CASE T = 0
    BY <1>1, <2>1
  <2>2. CASE T # 0
    <3>1. PICK i \in 1 .. T : triggers[i].position = T
      BY <1>2, <2>2
    <3> QED BY <1>1, <3>1
  <2> QED BY <2>1, <2>2
<1>3. top \in 0 .. T
  BY <1>1
<1> QED BY <1>2, <1>3 DEF top, LastPosition

(* The rows of the INSERT after those that are there.                      *)
LEMMA AppendFacts ==
  ASSUME NEW T \in Nat, triggers \in [1 .. T -> Entry],
         NEW L \in Nat, NEW new \in [1 .. L -> Entry]
  PROVE  /\ WithRows(new) \in [1 .. T + L -> Entry]
         /\ \A i \in 1 .. T : WithRows(new)[i] = triggers[i]
         /\ \A k \in 1 .. L : T + k \in 1 .. T + L /\ WithRows(new)[T + k] = new[k]
<1>1. DOMAIN triggers = 1 .. T /\ new \in Seq(Entry) /\ Len(new) = L
  OBVIOUS
<1>2. NewIdx(triggers) = T + 1
  <2>1. NewIdx(triggers) \in 1 .. T + 1 /\ \A i \in DOMAIN triggers : i < NewIdx(triggers)
    BY <1>1, NewIdxFacts
  <2>2. T = 0 \/ T \in DOMAIN triggers
    BY <1>1
  <2> QED BY <2>1, <2>2
<1>3. NewIdx(triggers) - 1 = T
  BY <1>2
<1>4. WithRows(new) = [i \in 1 .. T \cup (T + 1 .. T + L) |->
                         IF i \in 1 .. T THEN triggers[i] ELSE new[i - T]]
  BY <1>1, <1>3 DEF WithRows
<1>5. 1 .. T \cup (T + 1 .. T + L) = 1 .. T + L
  OBVIOUS
<1>6. \A i \in 1 .. T + L : i \notin 1 .. T => i - T \in 1 .. L
  OBVIOUS
<1>7. \A k \in 1 .. L : T + k \in 1 .. T + L /\ T + k \notin 1 .. T /\ (T + k) - T = k
  OBVIOUS
<1> QED BY <1>4, <1>5, <1>6, <1>7

(* Counting copies.                                                        *)
LEMMA Products ==
  ASSUME NEW c \in Nat, NEW n \in Nat
  PROVE  c * n \in Nat /\ (c + 1) * n = c * n + n /\ (c = 0 \/ n = 0 => c * n = 0)
  OBVIOUS

(* One more copy of the sounds, in the order of the numerology.            *)
LEMMA SoundsCopied ==
  ASSUME old.sounds \in Seq(Names), old.webhooks \in Seq(Nat),
         NEW s \in Nat, NEW w \in Nat, w = 0 \/ Len(old.webhooks) = 0,
         NEW e0 \in BOOLEAN, NEW e1 \in BOOLEAN, Holds(triggers, e0, s, w),
         NEW base \in 0 .. s * Len(old.sounds),
         e1 => e0 /\ base = s * Len(old.sounds),
         NEW new \in [1 .. Len(old.sounds) -> Entry],
         \A j \in 1 .. Len(old.sounds) : new[j].position - base \in 1 .. Len(old.sounds),
         \A k \in 1 .. Len(old.sounds) : \E j \in 1 .. Len(old.sounds) :
           new[j] = [position |-> base + k, source |-> <<"sound", old.sounds[k]>>]
  PROVE  Holds(WithRows(new), e1, s + 1, w)
<1> DEFINE sounds == Len(old.sounds)
           webhooks == Len(old.webhooks)
           T == s * sounds
           t == WithRows(new)
<1>1. sounds \in Nat /\ webhooks \in Nat
  OBVIOUS
<1>2. /\ T \in Nat /\ (s + 1) * sounds = T + sounds /\ w * webhooks = 0
      /\ s * sounds + w * webhooks = T /\ (s + 1) * sounds + w * webhooks = T + sounds
  <2>1. T \in Nat /\ (s + 1) * sounds = T + sounds /\ w * webhooks = 0
    <3>1. w = 0 \/ webhooks = 0
      OBVIOUS
    <3> HIDE DEF sounds, webhooks
    <3> QED BY <1>1, <3>1, Products
  <2> DEFINE N == (s + 1) * sounds
             P == w * webhooks
  <2>2. T \in Nat /\ sounds \in Nat /\ N = T + sounds /\ P = 0
    BY <1>1, <2>1
  <2> HIDE DEF N, P, T, sounds, webhooks
  <2>3. T + P = T /\ N + P = T + sounds
    BY <2>2
  <2> QED BY <2>2, <2>3 DEF N, P, T
<1> HIDE DEF T
<1>3. /\ triggers \in [1 .. T -> Entry]
      /\ \A i \in 1 .. T : triggers[i].position \in 1 .. T
      /\ e0 /\ T # 0 => \E i \in 1 .. T : triggers[i].position = T
      /\ \A c \in 0 .. s - 1, k \in 1 .. sounds :
           Has(triggers, e0, c, sounds, k, <<"sound", old.sounds[k]>>)
  BY <1>2 DEF Holds
<1>4. /\ t \in [1 .. T + sounds -> Entry]
      /\ \A i \in 1 .. T : t[i] = triggers[i]
      /\ \A k \in 1 .. sounds : T + k \in 1 .. T + sounds /\ t[T + k] = new[k]
  <2>1. new \in [1 .. sounds -> Entry]
    OBVIOUS
  <2>2. T \in Nat /\ sounds \in Nat /\ triggers \in [1 .. T -> Entry]
    BY <1>1, <1>2, <1>3
  <2> HIDE DEF sounds, T
  <2> QED BY <2>1, <2>2, AppendFacts, Zenon
<1>5. \A j \in 1 .. sounds : new[j] \in Entry /\ new[j].position - base \in 1 .. sounds
  OBVIOUS
<1>6. \A k \in 1 .. sounds : \E j \in 1 .. sounds :
        new[j] = [position |-> base + k, source |-> <<"sound", old.sounds[k]>>]
  OBVIOUS
<1>b. base \in Nat /\ base <= T /\ (e1 => e0 /\ base = T)
  BY <1>2 DEF T
<1> HIDE DEF t, T, sounds, webhooks
<1>7. \A i \in 1 .. T + sounds : i \in 1 .. T \/ \E k \in 1 .. sounds : i = T + k
  <2>1. \A i \in 1 .. T + sounds : i \in 1 .. T \/ (i - T \in 1 .. sounds /\ i = T + (i - T))
    BY <1>1, <1>2
  <2> QED BY <2>1
<1>8. \A i \in 1 .. T + sounds : t[i].position \in 1 .. T + sounds
  <2>1. ASSUME NEW i \in 1 .. T + sounds
        PROVE  t[i].position \in 1 .. T + sounds
    <3>1. CASE i \in 1 .. T
      BY <1>1, <1>2, <1>3, <1>4, <3>1
    <3>2. CASE \E k \in 1 .. sounds : i = T + k
      <4>1. PICK k \in 1 .. sounds : i = T + k
        BY <3>2
      <4>2. t[i] = new[k] /\ new[k] \in Entry /\ new[k].position - base \in 1 .. sounds
        BY <1>4, <1>5, <4>1
      <4>3. new[k].position \in Int
        BY <4>2 DEF Entry
      <4> DEFINE v == new[k].position
      <4>4. t[i].position = v /\ v \in Int /\ v - base \in 1 .. sounds
        BY <4>2, <4>3
      <4>5. T \in Nat /\ sounds \in Nat
        BY <1>1, <1>2
      <4> HIDE DEF v
      <4>6. v \in 1 .. T + sounds
        BY <1>b, <4>4, <4>5
      <4> QED BY <4>4, <4>6, Zenon
    <3> QED BY <1>7, <3>1, <3>2
  <2> QED BY <2>1
<1>9. e1 /\ T + sounds # 0 => \E i \in 1 .. T + sounds : t[i].position = T + sounds
  <2> SUFFICES ASSUME e1, T + sounds # 0
               PROVE  \E i \in 1 .. T + sounds : t[i].position = T + sounds
    OBVIOUS
  <2>1. CASE sounds = 0
    BY <1>2, <1>3, <1>4, <1>b, <2>1
  <2>2. CASE sounds # 0
    <3>1. sounds \in 1 .. sounds
      BY <1>1, <2>2
    <3>2. PICK j \in 1 .. sounds : new[j] = [position |-> T + sounds, source |-> <<"sound", old.sounds[sounds]>>]
      BY <1>6, <1>b, <3>1
    <3>3. t[T + j].position = T + sounds /\ T + j \in 1 .. T + sounds
      BY <1>4, <3>2
    <3> QED BY <3>3
  <2> QED BY <2>1, <2>2
<1>10. ASSUME NEW c \in 0 .. (s + 1) - 1, NEW k \in 1 .. sounds
       PROVE  Has(t, e1, c, sounds, k, <<"sound", old.sounds[k]>>)
  <2>1. CASE c = s
    <3>1. PICK j \in 1 .. sounds : new[j] = [position |-> base + k, source |-> <<"sound", old.sounds[k]>>]
      BY <1>6
    <3>2. t[T + j] = new[j] /\ T + j \in DOMAIN t
      BY <1>4
    <3>3. c * sounds = T
      BY <2>1 DEF T
    <3>4. t[T + j].source = <<"sound", old.sounds[k]>> /\ (e1 => t[T + j].position = T + k)
      BY <1>b, <3>1, <3>2
    <3>5. T + j \in T + 1 .. T + sounds
      BY <1>1, <1>2
    <3> QED BY <3>2, <3>3, <3>4, <3>5 DEF Has, Is
  <2>2. CASE c # s
    <3>1. c \in 0 .. s - 1
      BY <2>2
    <3>2. Has(triggers, e0, c, sounds, k, <<"sound", old.sounds[k]>>)
      BY <1>3, <3>1
    <3>3. \A i \in DOMAIN triggers : i \in DOMAIN t /\ t[i] = triggers[i]
      <4>1. DOMAIN triggers = 1 .. T /\ DOMAIN t = 1 .. T + sounds
        BY <1>3, <1>4
      <4> QED BY <1>1, <1>2, <1>4, <4>1
    <3> QED BY <1>b, <3>2, <3>3 DEF Has, Is
  <2> QED BY <2>1, <2>2
<1>11. ~ \E c \in 0 .. w - 1, k \in 1 .. webhooks : TRUE
  BY <1>1 DEF webhooks
<1>12. t \in [1 .. (s + 1) * sounds + w * webhooks -> Entry]
  BY <1>2, <1>4
<1> QED
  BY <1>2, <1>8, <1>9, <1>10, <1>11, <1>12 DEF Holds, t, sounds, webhooks

(* One more copy of the webhooks, in the order of their idx.               *)
LEMMA WebhooksCopied ==
  ASSUME old.sounds \in Seq(Names), old.webhooks \in Seq(Nat),
         NEW s \in Nat, NEW w \in Nat,
         NEW e0 \in BOOLEAN, NEW e1 \in BOOLEAN, Holds(triggers, e0, s, w),
         NEW base \in 0 .. s * Len(old.sounds) + w * Len(old.webhooks),
         e1 => e0 /\ base = s * Len(old.sounds) + w * Len(old.webhooks),
         NEW new \in [1 .. Len(old.webhooks) -> Entry],
         \A k \in 1 .. Len(old.webhooks) :
           new[k] = [position |-> base + k, source |-> <<"webhook", k>>]
  PROVE  Holds(WithRows(new), e1, s, w + 1)
<1> DEFINE sounds == Len(old.sounds)
           webhooks == Len(old.webhooks)
           T == s * sounds + w * webhooks
           t == WithRows(new)
<1>1. sounds \in Nat /\ webhooks \in Nat
  OBVIOUS
<1>2. T \in Nat /\ s * sounds + (w + 1) * webhooks = T + webhooks
  <2>1. s * sounds \in Nat /\ w * webhooks \in Nat /\ (w + 1) * webhooks = w * webhooks + webhooks
    <3> HIDE DEF sounds, webhooks
    <3> QED BY <1>1, Products
  <2> HIDE DEF sounds, webhooks
  <2> QED BY <1>1, <2>1 DEF T
<1>3. /\ triggers \in [1 .. T -> Entry]
      /\ \A i \in 1 .. T : triggers[i].position \in 1 .. T
      /\ e0 /\ T # 0 => \E i \in 1 .. T : triggers[i].position = T
      /\ \A c \in 0 .. s - 1, k \in 1 .. sounds :
           Has(triggers, e0, c, sounds, k, <<"sound", old.sounds[k]>>)
      /\ \A c \in 0 .. w - 1, k \in 1 .. webhooks :
           Is(triggers, e0, s * sounds + c * webhooks + k, s * sounds + c * webhooks + k, <<"webhook", k>>)
  BY DEF Holds
<1>4. \A k \in 1 .. webhooks : new[k] = [position |-> base + k, source |-> <<"webhook", k>>]
  OBVIOUS
<1>b. base \in Nat /\ base <= T /\ (e1 => e0 /\ base = T)
  <2>1. base \in 0 .. T /\ (e1 => e0 /\ base = T)
    OBVIOUS
  <2> HIDE DEF T
  <2> QED BY <1>2, <2>1
<1> HIDE DEF T
<1>5. /\ t \in [1 .. T + webhooks -> Entry]
      /\ \A i \in 1 .. T : t[i] = triggers[i]
      /\ \A k \in 1 .. webhooks : T + k \in 1 .. T + webhooks /\ t[T + k] = new[k]
  <2>1. new \in [1 .. webhooks -> Entry]
    OBVIOUS
  <2>2. T \in Nat /\ webhooks \in Nat /\ triggers \in [1 .. T -> Entry]
    BY <1>1, <1>2, <1>3
  <2> HIDE DEF webhooks
  <2> QED BY <2>1, <2>2, AppendFacts, Zenon
<1>a. \A k \in 1 .. webhooks : t[T + k].position = base + k /\ t[T + k].source = <<"webhook", k>>
  <2>1. ASSUME NEW k \in 1 .. webhooks
        PROVE  t[T + k].position = base + k /\ t[T + k].source = <<"webhook", k>>
    <3>1. new[k] = [position |-> base + k, source |-> <<"webhook", k>>]
      BY <1>4
    <3>2. t[T + k] = new[k]
      BY <1>5
    <3> HIDE DEF t
    <3> QED BY <3>1, <3>2
  <2> QED BY <2>1
<1> HIDE DEF t, sounds, webhooks
<1>6. \A i \in 1 .. T + webhooks : t[i].position \in 1 .. T + webhooks
  <2>1. ASSUME NEW i \in 1 .. T + webhooks
        PROVE  t[i].position \in 1 .. T + webhooks
    <3>1. CASE i \in 1 .. T
      BY <1>1, <1>2, <1>3, <1>5, <3>1
    <3>2. CASE i \notin 1 .. T
      <4>1. i - T \in 1 .. webhooks /\ T + (i - T) = i
        BY <1>1, <1>2, <3>2
      <4>2. t[i].position = base + (i - T)
        BY <1>a, <4>1, Zenon
      <4> QED BY <1>1, <1>2, <1>b, <4>1, <4>2
    <3> QED BY <3>1, <3>2
  <2> QED BY <2>1
<1>7. e1 /\ T + webhooks # 0 => \E i \in 1 .. T + webhooks : t[i].position = T + webhooks
  <2> SUFFICES ASSUME e1, T + webhooks # 0
               PROVE  \E i \in 1 .. T + webhooks : t[i].position = T + webhooks
    OBVIOUS
  <2>1. CASE webhooks = 0
    BY <1>2, <1>3, <1>5, <1>b, <2>1
  <2>2. CASE webhooks # 0
    <3>1. webhooks \in 1 .. webhooks
      BY <1>1, <2>2
    <3>2. T + webhooks \in 1 .. T + webhooks /\ t[T + webhooks].position = T + webhooks
      BY <1>5, <1>a, <1>b, <3>1
    <3> QED BY <3>2
  <2> QED BY <2>1, <2>2
<1>8. \A i, p, q : Is(triggers, e0, i, p, q) => Is(t, e1, i, p, q)
  <2>1. DOMAIN triggers = 1 .. T /\ DOMAIN t = 1 .. T + webhooks
    BY <1>3, <1>5
  <2>2. \A i \in DOMAIN triggers : i \in DOMAIN t /\ t[i] = triggers[i]
    BY <1>1, <1>2, <1>5, <2>1
  <2> QED BY <1>b, <2>2 DEF Is
<1>9. \A c \in 0 .. s - 1, k \in 1 .. sounds : Has(t, e1, c, sounds, k, <<"sound", old.sounds[k]>>)
  BY <1>3, <1>8 DEF Has
<1>10. ASSUME NEW c \in 0 .. (w + 1) - 1, NEW k \in 1 .. webhooks
       PROVE  Is(t, e1, s * sounds + c * webhooks + k, s * sounds + c * webhooks + k, <<"webhook", k>>)
  <2>1. CASE c = w
    <3>1. s * sounds + c * webhooks + k = T + k
      BY <2>1 DEF T
    <3>2. T + k \in DOMAIN t
      BY <1>5
    <3> QED BY <1>a, <1>b, <3>1, <3>2 DEF Is
  <2>2. CASE c # w
    <3>1. c \in 0 .. w - 1
      BY <2>2
    <3> QED BY <1>3, <1>8, <3>1
  <2> QED BY <2>1, <2>2
<1>11. t \in [1 .. s * sounds + (w + 1) * webhooks -> Entry]
  BY <1>2, <1>5
<1> QED
  BY <1>2, <1>6, <1>7, <1>9, <1>10, <1>11 DEF Holds, t, sounds, webhooks

(* Copies at the first start: none, of sounds and webhooks that are there. *)
LEMMA CopiesInit ==
  ASSUME Init
  PROVE  CopiesOK
<1> DEFINE W == WithSound(numerology)
           m == Cardinality(W)
           s == ByPosition(numerology, W)
<1>1. PICK n \in 0 .. MaxOld :
        /\ "webhooks" \notin schema => n = 0
        /\ old = [sounds |-> [k \in 1 .. m |-> numerology[s[k]].name], webhooks |-> [k \in 1 .. n |-> k],
                  lists |-> listType]
  BY DEF Init
<1>2. PICK r \in Nat : numerology \in [1 .. r -> Row] /\ Dense(numerology)
  BY OldRowsFacts DEF Init
<1>3. DOMAIN numerology = 1 .. r /\ IsFiniteSet(DOMAIN numerology) /\ W \in SUBSET DOMAIN numerology
  BY <1>2, FS_Interval DEF WithSound
<1>4. /\ m \in Nat /\ s \in [1 .. m -> W] /\ InPlaces(numerology, s)
      /\ \A i \in W : \E k \in 1 .. m : s[k] = i
  BY <1>2, <1>3, ByPositionFacts
<1>5. \A k \in 1 .. m : numerology[s[k]].name \in Names
  <2> HIDE DEF W, m, s
  <2> QED BY <1>2, <1>3, <1>4 DEF Row
<1>6. /\ old.sounds \in Seq(Names) /\ Len(old.sounds) = m
      /\ \A k \in 1 .. m : old.sounds[k] = numerology[s[k]].name
      /\ old.webhooks \in Seq(Nat) /\ Len(old.webhooks) = n
  <2> HIDE DEF W, m, s
  <2> QED BY <1>1, <1>4, <1>5, DatabaseAssumption
<1>7. /\ at = "boosts" /\ triggers = <<>> /\ cut = [a \in Windows |-> 0]
      /\ "sound_file" \notin schema => W = {}
  BY DEF Init
<1>8. "sound_file" \notin schema => m = 0
  <2> HIDE DEF m, W
  <2> QED BY <1>7, FS_EmptySet DEF m
<1>9. /\ SoundCopies \in Nat /\ WebhookCopies \in Nat
      /\ SoundCopies = 0 \/ Len(old.sounds) = 0
      /\ WebhookCopies = 0 \/ Len(old.webhooks) = 0
  BY <1>1, <1>6, <1>7, <1>8 DEF SoundCopies, WebhookCopies, Windows
<1>10. Holds(triggers, ~misread, SoundCopies, WebhookCopies)
  <2>1. /\ Len(old.sounds) \in Nat /\ Len(old.webhooks) \in Nat
        /\ SoundCopies * Len(old.sounds) = 0 /\ WebhookCopies * Len(old.webhooks) = 0
    <3>1. Len(old.sounds) \in Nat /\ Len(old.webhooks) \in Nat
      BY <1>6
    <3> QED BY <1>9, <3>1, Products
  <2>2. 1 .. SoundCopies * Len(old.sounds) + WebhookCopies * Len(old.webhooks) = {}
    BY <2>1
  <2>3. <<>> \in [{} -> Entry]
    OBVIOUS
  <2>4. \A c \in 0 .. SoundCopies - 1, k \in 1 .. Len(old.sounds) : FALSE
    BY <1>9
  <2>5. \A c \in 0 .. WebhookCopies - 1, k \in 1 .. Len(old.webhooks) : FALSE
    BY <1>9
  <2> QED BY <1>7, <2>1, <2>2, <2>3, <2>4, <2>5 DEF Holds
<1>11. Lists(s)
  <2> HIDE DEF m, s
  <2> QED BY <1>4, <1>6 DEF Lists
<1>12. s \in [1 .. Len(old.sounds) -> WithSound(numerology)]
  BY <1>4, <1>6
<1> QED
  <2> HIDE DEF m, s, W
  <2>1. "webhooks" \in schema \/ Len(old.webhooks) = 0
    BY <1>1, <1>6
  <2>2. cut["archive"] = 0
    BY <1>7 DEF Windows
  <2> QED BY <1>6, <1>10, <1>11, <1>12, <2>1, <2>2 DEF CopiesOK

----------------------------------------------------------------------------
(* What CopySounds inserts is a copy of the sounds.                        *)
LEMMA CopySoundsCopies ==
  ASSUME TypesOK, SchemaOK, CopiesOK, CopySounds, "sound_file" \in schema
  PROVE  Holds(triggers', ~misread', SoundCopies + 1, WebhookCopies)
<1> DEFINE W == WithSound(numerology)
           m == Len(old.sounds)
           rows == ByIdx(W)
           Number(i) == 1 + Cardinality({j \in W : numerology[j].position < numerology[i].position})
           T == SoundCopies * m
           new(base) == [k \in DOMAIN rows |-> [position |-> base + Number(rows[k]),
                                                source |-> <<"sound", numerology[rows[k]].name>>]]
<1>1. PICK n \in Nat : DOMAIN numerology \subseteq 1 .. n /\ numerology \in [DOMAIN numerology -> Row]
  BY DEF TypesOK
<1>2. W \in SUBSET DOMAIN numerology /\ W \in SUBSET (1 .. n) /\ IsFiniteSet(W)
  <2>1. W \in SUBSET DOMAIN numerology /\ W \in SUBSET (1 .. n)
    BY <1>1 DEF WithSound
  <2> QED BY <2>1, Enumeration
<1>3. PICK s \in [1 .. m -> W] : Lists(s)
  BY DEF CopiesOK
<1>4. /\ m \in Nat /\ InPlaces(numerology, s)
      /\ \A i \in W : \E k \in 1 .. m : s[k] = i
      /\ \A k \in 1 .. m : old.sounds[k] = numerology[s[k]].name
  <2>1. m \in Nat
    BY LenProperties DEF CopiesOK
  <2> QED BY <1>3, <2>1 DEF Lists
<1>5. Cardinality(W) = m /\ \A k \in 1 .. m : Number(s[k]) = k
  <2>1. W \in SUBSET DOMAIN numerology /\ IsFiniteSet(W) /\ m \in Nat /\ s \in [1 .. m -> W]
    BY <1>2, <1>3, <1>4
  <2>2. InPlaces(numerology, s) /\ \A i \in W : \E k \in 1 .. m : s[k] = i
    BY <1>4
  <2> HIDE DEF W, m, Number
  <2>3. /\ Cardinality(W) = m
        /\ \A k \in 1 .. m :
             1 + Cardinality({j \in W : numerology[j].position < numerology[s[k]].position}) = k
    BY <2>1, <2>2, RowNumber
  <2> QED BY <2>3, Zenon DEF Number
<1>6. rows \in [1 .. m -> W] /\ DOMAIN rows = 1 .. m /\ \A i \in W : \E k \in 1 .. m : rows[k] = i
  <2>1. rows \in [1 .. Cardinality(W) -> W] /\ \A i \in W : \E k \in 1 .. Cardinality(W) : rows[k] = i
    <3> HIDE DEF W
    <3> QED BY <1>2, ByIdxFacts
  <2> HIDE DEF W, m, rows
  <2> QED BY <1>5, <2>1
<1>7. /\ at = "sounds" /\ cut["dropSounds"] \in Nat /\ cut["archive"] \in Nat
  BY DEF CopySounds, TypesOK, Windows
<1>a. PICK base \in {0, LastPosition} : Reads(base) /\ triggers' = WithRows(new(base))
  BY DEF CopySounds
<1>8. /\ SoundCopies \in Nat /\ WebhookCopies \in Nat
      /\ WebhookCopies = 0 \/ Len(old.webhooks) = 0
      /\ Holds(triggers, ~misread, SoundCopies, WebhookCopies) /\ Len(old.webhooks) \in Nat
  <2>1. Holds(triggers, ~misread, SoundCopies, WebhookCopies)
    BY DEF CopiesOK
  <2>2. SoundCopies \in Nat /\ WebhookCopies \in Nat
    BY <1>7 DEF SoundCopies, WebhookCopies
  <2>3. /\ Len(old.webhooks) \in Nat /\ cut["archive"] = 0
        /\ "webhooks" \in schema \/ Len(old.webhooks) = 0
    BY DEF CopiesOK
  <2> QED BY <1>7, <2>1, <2>2, <2>3 DEF WebhookCopies
<1>9. T \in Nat /\ SoundCopies * m + WebhookCopies * Len(old.webhooks) = T
  <2>1. T \in Nat /\ WebhookCopies * Len(old.webhooks) = 0
    BY <1>4, <1>8, Products
  <2> HIDE DEF m
  <2> QED BY <2>1
<1>10. base \in 0 .. T /\ base \in Nat /\ (~misread' => ~misread /\ base = T)
  <2>1. /\ triggers \in [1 .. T -> Entry] /\ \A i \in 1 .. T : triggers[i].position \in 1 .. T
        /\ ~misread => (T # 0 => \E i \in 1 .. T : triggers[i].position = T)
    BY <1>8, <1>9 DEF Holds
  <2> HIDE DEF T
  <2>2. LastPosition \in 0 .. T /\ (~misread => LastPosition = T)
    BY <1>9, <2>1, LastFacts
  <2> QED BY <1>9, <1>a, <2>2 DEF Reads
<1> HIDE DEF Number, T, W, rows, m
<1>11. ASSUME NEW j \in 1 .. m
       PROVE  \E k \in 1 .. m :
                /\ rows[j] = s[k]
                /\ new(base)[j] = [position |-> base + k, source |-> <<"sound", old.sounds[k]>>]
  <2>1. PICK k \in 1 .. m : s[k] = rows[j]
    BY <1>4, <1>6
  <2>2. new(base)[j] = [position |-> base + Number(rows[j]), source |-> <<"sound", numerology[rows[j]].name>>]
    BY <1>6
  <2>3. Number(rows[j]) = k /\ numerology[rows[j]].name = old.sounds[k]
    BY <1>4, <1>5, <2>1
  <2> HIDE DEF new
  <2>4. new(base)[j] = [position |-> base + k, source |-> <<"sound", old.sounds[k]>>]
    BY <1>10, <2>2, <2>3
  <2> QED BY <2>1, <2>4
<1>12. ASSUME NEW k \in 1 .. m
       PROVE  \E j \in 1 .. m :
                new(base)[j] = [position |-> base + k, source |-> <<"sound", old.sounds[k]>>]
  <2>1. PICK j \in 1 .. m : rows[j] = s[k]
    BY <1>3, <1>6
  <2>2. new(base)[j] = [position |-> base + Number(rows[j]), source |-> <<"sound", numerology[rows[j]].name>>]
    BY <1>6
  <2>3. Number(rows[j]) = k /\ numerology[rows[j]].name = old.sounds[k]
    BY <1>4, <1>5, <2>1
  <2> HIDE DEF new
  <2>4. new(base)[j] = [position |-> base + k, source |-> <<"sound", old.sounds[k]>>]
    BY <1>10, <2>2, <2>3
  <2> QED BY <2>4
<1>13. \A k \in 1 .. m : old.sounds[k] \in Names
  BY <1>4 DEF CopiesOK, m
<1>14. ASSUME NEW j \in 1 .. m
       PROVE  new(base)[j] \in Entry /\ new(base)[j].position - base \in 1 .. m
  <2>1. PICK k \in 1 .. m : new(base)[j] = [position |-> base + k, source |-> <<"sound", old.sounds[k]>>]
    BY <1>11
  <2> HIDE DEF new
  <2> QED BY <1>4, <1>10, <1>13, <2>1 DEF Entry
<1>15. new(base) \in [1 .. m -> Entry]
  BY <1>6, <1>14
<1> HIDE DEF new
<1> QED
  BY <1>8, <1>10, <1>12, <1>14, <1>15, <1>a, SoundsCopied DEF CopiesOK, TypesOK, T, m

(* And what CopyWebhooks inserts one of the webhooks.                      *)
LEMMA CopyWebhooksCopies ==
  ASSUME TypesOK, CopiesOK, CopyWebhooks, "webhooks" \in schema
  PROVE  Holds(triggers', ~misread', SoundCopies, WebhookCopies + 1)
<1> DEFINE sounds == Len(old.sounds)
           m == Len(old.webhooks)
           T == SoundCopies * sounds + WebhookCopies * m
           new(base) == [k \in DOMAIN old.webhooks |-> [position |-> base + k, source |-> <<"webhook", k>>]]
<1>1. /\ cut["dropSounds"] \in Nat /\ cut["archive"] \in Nat
  BY DEF TypesOK, Windows
<1>a. PICK base \in {0, LastPosition} : Reads(base) /\ triggers' = WithRows(new(base))
  BY DEF CopyWebhooks
<1>2. /\ SoundCopies \in Nat /\ WebhookCopies \in Nat /\ sounds \in Nat /\ m \in Nat
      /\ Holds(triggers, ~misread, SoundCopies, WebhookCopies) /\ DOMAIN old.webhooks = 1 .. m
  BY <1>1 DEF SoundCopies, WebhookCopies, CopiesOK
<1>3. T \in Nat
  <2>1. SoundCopies * sounds \in Nat /\ WebhookCopies * m \in Nat
    <3> HIDE DEF sounds, m
    <3> QED BY <1>2, Products
  <2> QED BY <2>1
<1>4. base \in 0 .. T /\ base \in Nat /\ (~misread' => ~misread /\ base = T)
  <2>1. /\ triggers \in [1 .. T -> Entry] /\ \A i \in 1 .. T : triggers[i].position \in 1 .. T
        /\ ~misread => (T # 0 => \E i \in 1 .. T : triggers[i].position = T)
    BY <1>2 DEF Holds
  <2> HIDE DEF T
  <2>2. LastPosition \in 0 .. T /\ (~misread => LastPosition = T)
    BY <1>3, <2>1, LastFacts
  <2> QED BY <1>3, <1>a, <2>2 DEF Reads
<1> HIDE DEF T, m, sounds
<1>5. \A k \in 1 .. m : [position |-> base + k, source |-> <<"webhook", k>>] \in Entry
  BY <1>2, <1>4 DEF Entry
<1>6. /\ new(base) \in [1 .. m -> Entry]
      /\ \A k \in 1 .. m : new(base)[k] = [position |-> base + k, source |-> <<"webhook", k>>]
  BY <1>2, <1>5
<1> HIDE DEF new
<1> QED
  BY <1>2, <1>4, <1>6, <1>a, WebhooksCopied DEF CopiesOK, TypesOK, T, m, sounds

(* Steps that copy nothing.                                                *)
LEMMA SameCopies ==
  ASSUME CopiesOK, UNCHANGED <<triggers, old, misread>>,
         SoundCopies' = SoundCopies, WebhookCopies' = WebhookCopies,
         "sound_file" \in schema' =>
           /\ "sound_file" \in schema /\ UNCHANGED numerology
           /\ cut'["archive"] = cut["archive"]
           /\ "webhooks" \in schema => "webhooks" \in schema'
  PROVE  CopiesOK'
<1>1. Holds(triggers, ~misread, SoundCopies, WebhookCopies)'
  BY DEF CopiesOK, Holds, Has, Is
<1>2. CASE "sound_file" \notin schema'
  BY <1>1, <1>2 DEF CopiesOK
<1>3. CASE "sound_file" \in schema'
  <2>1. PICK s \in [1 .. Len(old.sounds) -> WithSound(numerology)] : Lists(s)
    BY <1>3 DEF CopiesOK
  <2>2. s \in [1 .. Len(old.sounds') -> WithSound(numerology')] /\ Lists(s)'
    BY <1>3, <2>1 DEF Lists, WithSound, InPlaces
  <2> QED BY <1>1, <1>3, <2>2 DEF CopiesOK
<1> QED BY <1>2, <1>3

(* A copy is counted when the INSERT is run, and once more if the process  *)
(* ends before the statement that keeps it from being run again.           *)
LEMMA CopiesStep ==
  ASSUME TypesOK, SchemaOK, CopiesOK, [Next]_vars
  PROVE  CopiesOK'
<1>0. cut["dropSounds"] \in Nat /\ cut["archive"] \in Nat
  BY DEF TypesOK, Windows
<1>1. CASE CreateBoosts \/ AddCustomKey \/ AddCustomValue \/ AddListType \/ NumerologyTable
  <2>1. /\ UNCHANGED <<triggers, old, numerology, misread>>
        /\ {at, at'} \cap {"dropSounds", "archive"} = {}
        /\ cut'["dropSounds"] = cut["dropSounds"] /\ cut'["archive"] = cut["archive"]
        /\ "sound_file" \in schema' <=> "sound_file" \in schema
        /\ "webhooks" \in schema' <=> "webhooks" \in schema
    BY <1>1 DEF CreateBoosts, AddCustomKey, AddCustomValue, AddListType, NumerologyTable, Adds, Swallowed,
                Columns, Windows, tables, history
  <2> QED BY <2>1, SameCopies DEF SoundCopies, WebhookCopies
<1>2. CASE TypeBoosts \/ TypeStreams
  <2>1. /\ UNCHANGED <<triggers, old, misread, numerology, cut, schema>>
        /\ {at, at'} \cap {"dropSounds", "archive"} = {}
    BY <1>2 DEF TypeBoosts, TypeStreams, history
  <2> QED BY <2>1, SameCopies DEF SoundCopies, WebhookCopies
<1>3. CASE InsertDefault
  <2>1. /\ UNCHANGED <<triggers, old, misread, cut, schema>> /\ at \in {"defaults", "redefault"}
        /\ {at, at'} \cap {"dropSounds", "archive"} = {}
    BY <1>3 DEF InsertDefault, history
  <2>2. "sound_file" \notin schema
    BY <2>1 DEF SchemaOK, Early
  <2> QED BY <2>1, <2>2, SameCopies DEF SoundCopies, WebhookCopies
<1>4. CASE CopySounds
  <2>1. at = "sounds" /\ UNCHANGED <<schema, numerology, old, cut>>
    BY <1>4 DEF CopySounds, history
  <2>2. CASE "sound_file" \notin schema
    <3>1. at' = "webhooks" /\ UNCHANGED <<triggers, misread>>
      BY <1>4, <2>2 DEF CopySounds
    <3> QED BY <2>1, <2>2, <3>1, SameCopies DEF SoundCopies, WebhookCopies
  <2>3. CASE "sound_file" \in schema
    <3>1. at' = "dropSounds"
      BY <1>4, <2>3 DEF CopySounds
    <3>2. SoundCopies' = SoundCopies + 1 /\ WebhookCopies' = WebhookCopies
      BY <1>0, <2>1, <2>3, <3>1 DEF SoundCopies, WebhookCopies
    <3>3. Holds(triggers', ~misread', SoundCopies', WebhookCopies')
      BY <1>4, <2>3, <3>2, CopySoundsCopies
    <3>4. Holds(triggers, ~misread, SoundCopies, WebhookCopies)'
      BY <2>1, <3>3 DEF Holds, Has, Is
    <3> QED BY <2>1, <3>4 DEF CopiesOK, Lists, WithSound, InPlaces
  <2> QED BY <2>2, <2>3
<1>5. CASE DropSounds
  <2>1. /\ UNCHANGED <<triggers, old, misread, cut>> /\ at = "dropSounds" /\ at' = "webhooks"
        /\ schema' = schema \ {"sound_file"}
    BY <1>5 DEF DropSounds, history
  <2> QED BY <2>1, SameCopies DEF SoundCopies, WebhookCopies
<1>6. CASE CopyWebhooks
  <2>1. at = "webhooks" /\ UNCHANGED <<schema, numerology, old, cut>> /\ "sound_file" \notin schema
    BY <1>6 DEF CopyWebhooks, history, SchemaOK, Early
  <2>2. CASE "webhooks" \notin schema
    <3>1. at' = "up" /\ UNCHANGED <<triggers, misread>>
      BY <1>6, <2>2 DEF CopyWebhooks
    <3> QED BY <2>1, <2>2, <3>1, SameCopies DEF SoundCopies, WebhookCopies
  <2>3. CASE "webhooks" \in schema
    <3>1. at' = "archive"
      BY <1>6, <2>3 DEF CopyWebhooks
    <3>2. SoundCopies' = SoundCopies /\ WebhookCopies' = WebhookCopies + 1
      BY <1>0, <2>1, <2>3, <3>1 DEF SoundCopies, WebhookCopies
    <3>3. Holds(triggers', ~misread', SoundCopies', WebhookCopies')
      BY <1>6, <2>3, <3>2, CopyWebhooksCopies
    <3>4. Holds(triggers, ~misread, SoundCopies, WebhookCopies)'
      BY <2>1, <3>3 DEF Holds
    <3> QED BY <2>1, <3>4 DEF CopiesOK
  <2> QED BY <2>2, <2>3
<1>7. CASE ArchiveWebhooks
  <2>1. /\ UNCHANGED <<tables, old, misread, cut>> /\ at = "archive" /\ at' = "up"
        /\ schema' = schema \ {"webhooks"}
    BY <1>7 DEF ArchiveWebhooks, history
  <2>2. "sound_file" \notin schema
    BY <2>1 DEF SchemaOK, Early
  <2> QED BY <2>1, <2>2, SameCopies DEF SoundCopies, WebhookCopies, tables
<1>8. CASE Requested
  <2>1. /\ at \in Request \cup {"up"} /\ at' \in Request \cup {"up"}
        /\ UNCHANGED <<schema, triggers, old, misread, cut>>
    BY <1>8, RequestedFrame
  <2>2. "sound_file" \notin schema /\ {at, at'} \cap {"dropSounds", "archive"} = {}
    BY <2>1 DEF SchemaOK, Early, Request
  <2> QED BY <2>1, <2>2, SameCopies DEF SoundCopies, WebhookCopies
<1>9. CASE Restart \/ RequestFails
  <2>1. /\ UNCHANGED <<schema, tables, old, misread>> /\ at' \in {"boosts", "up"}
        /\ cut' = [w \in Windows |-> IF w = at THEN cut[w] + 1 ELSE cut[w]]
    BY <1>9 DEF Restart, RequestFails, Cut
  <2>2. \A w \in {"dropSounds", "archive"} : cut'[w] = IF w = at THEN cut[w] + 1 ELSE cut[w]
    BY <2>1 DEF Windows
  <2>3. /\ at = "dropSounds" => "sound_file" \in schema
        /\ at = "archive" => "webhooks" \in schema /\ "sound_file" \notin schema
    BY DEF SchemaOK, Early
  <2>4. SoundCopies' = SoundCopies
    BY <1>0, <2>1, <2>2, <2>3 DEF SoundCopies
  <2>5. WebhookCopies' = WebhookCopies
    BY <1>0, <2>1, <2>2, <2>3 DEF WebhookCopies
  <2>6. "sound_file" \in schema => cut'["archive"] = cut["archive"]
    BY <2>2, <2>3
  <2> QED BY <2>1, <2>4, <2>5, <2>6, SameCopies DEF tables
<1>10. CASE UNCHANGED vars
  <2>1. UNCHANGED <<at, schema, numerology, triggers, old, misread, cut>>
    BY <1>10 DEF vars, tables, history
  <2> QED BY <2>1, SameCopies DEF SoundCopies, WebhookCopies
<1> QED
  BY <1>1, <1>2, <1>3, <1>4, <1>5, <1>6, <1>7, <1>8, <1>9, <1>10 DEF Next, Started

----------------------------------------------------------------------------
(* The invariant, step by step.                                            *)
LEMMA NextIInv == IInv /\ [Next]_vars => IInv'
  BY TypesStep, SchemaStep, BoostsStep, RowsStep, PlacesStep, CopiesStep DEF IInv

(* And from the first start on.                                            *)
LEMMA Invariance == Spec => []IInv
<1>1. Init => IInv
  BY TypesInit, BoostsInit, RowsInit, PlacesInit, CopiesInit DEF IInv
<1> QED
  BY <1>1, NextIInv, PTL DEF Spec

(* However often the first start of a new release is cut short, or goes on *)
(* past an ALTER that failed, a boost stays in its list or gets into that  *)
(* of its action, and the columns are there, unless the ALTER failed in    *)
(* this start or what depends on it was not carried out after it.          *)
THEOREM BoostsStayListed == Spec => []BoostsAreListed
<1>1. ASSUME IInv, at = "up"
      PROVE  /\ "customKey" \notin failed => "custom_key" \in schema
             /\ "customKey" \notin failed /\ cut["customValue"] = 0 => "custom_value" \in schema
             /\ "listType" \notin failed => "list_type" \in schema
  BY <1>1 DEF IInv, BoostsOK
<1>2. ASSUME IInv, at = "up", "listType" \notin failed, cut["typeBoosts"] + cut["typeStreams"] = 0,
             NEW a \in DOMAIN old.lists
      PROVE  IF old.lists[a] # Null THEN listType[a] = old.lists[a]
             ELSE listType[a] \in IF FromAction[a] = 0 THEN {1, 2} ELSE {FromAction[a]}
  <2>1. Listed(a) /\ a \in Actions
    BY <1>1, <1>2 DEF IInv, BoostsOK
  <2>2. FromAction[a] = IF a \in BoostLike THEN 1 ELSE IF a = 1 THEN 2 ELSE 0
    BY <2>1 DEF FromAction
  <2> QED BY <2>1, <2>2 DEF Listed
<1>3. IInv => BoostsAreListed
  BY <1>1, <1>2 DEF BoostsAreListed
<1> QED
  BY <1>3, Invariance, PTL

(* The numerologies are at 1 .. n whenever the program is up, whatever was *)
(* asked for and wherever a start or a reset was cut, unless a save ended  *)
(* between its statements and there has been no reset since.               *)
THEOREM NumerologyStaysDense == Spec => []PositionsAreDense
<1>1. ASSUME IInv
      PROVE  TypeOK
  <2>1. PICK top \in Nat : /\ triggers \in [1 .. top -> Entry]
                           /\ \A i \in 1 .. top : triggers[i].position \in 1 .. top
    <3> DEFINE T == SoundCopies * Len(old.sounds) + WebhookCopies * Len(old.webhooks)
    <3>1. /\ SoundCopies \in Nat /\ WebhookCopies \in Nat
          /\ Len(old.sounds) \in Nat /\ Len(old.webhooks) \in Nat
      <4>1. cut["dropSounds"] \in Nat /\ cut["archive"] \in Nat
        BY <1>1 DEF IInv, TypesOK, Windows
      <4>2. SoundCopies \in Nat /\ WebhookCopies \in Nat
        BY <4>1 DEF SoundCopies, WebhookCopies
      <4>3. Len(old.sounds) \in Nat /\ Len(old.webhooks) \in Nat
        BY <1>1, LenProperties DEF IInv, CopiesOK
      <4> QED BY <4>2, <4>3
    <3>2. T \in Nat
      <4>1. SoundCopies * Len(old.sounds) \in Nat /\ WebhookCopies * Len(old.webhooks) \in Nat
        BY <3>1, Products
      <4> QED BY <4>1
    <3> QED BY <1>1, <3>2 DEF IInv, CopiesOK, Holds
  <2>2. \A i \in DOMAIN triggers : i \in Nat \ {0} /\ triggers[i].position \in Nat \ {0}
    BY <2>1
  <2>3. \A i \in DOMAIN numerology : i \in Nat \ {0} /\ numerology[i] \in Row
    BY <1>1 DEF IInv, TypesOK
  <2> QED BY <1>1, <2>2, <2>3 DEF IInv, TypesOK, TypeOK, Row, AskedType
<1>2. ASSUME IInv, at = "up", ~gap
      PROVE  {numerology[i].position : i \in DOMAIN numerology} = 1 .. Cardinality(DOMAIN numerology)
  <2>1. Dense(numerology) /\ IsFiniteSet(DOMAIN numerology)
    BY <1>2, Enumeration DEF IInv, PlacesOK, TypesOK
  <2> QED BY <2>1, DensePositions
<1>3. IInv => PositionsAreDense
  BY <1>1, <1>2 DEF IInv, RowsOK, PositionsAreDense
<1> QED
  BY <1>3, Invariance, PTL

(* In no state of a start that migrates is an old sound or an old webhook  *)
(* neither in the table it came from nor among the triggers.               *)
THEOREM SourcesStay == Spec => []SourcesSurvive
<1> DEFINE migrated == {triggers[i].source : i \in DOMAIN triggers}
           sounds   == {numerology[i].name : i \in WithSound(numerology)}
<1>0. ASSUME NEW i, NEW p, NEW q, Is(triggers, ~misread, i, p, q)
      PROVE  q \in migrated
  BY <1>0 DEF Is
<1>1. ASSUME IInv, NEW k \in DOMAIN old.sounds
      PROVE  (old.sounds[k] \in sounds /\ "sound_file" \in schema) \/ <<"sound", old.sounds[k]>> \in migrated
  <2>1. k \in 1 .. Len(old.sounds)
    BY <1>1 DEF IInv, CopiesOK
  <2>2. CASE "sound_file" \in schema
    <3>1. PICK s \in [1 .. Len(old.sounds) -> WithSound(numerology)] : Lists(s)
      BY <1>1, <2>2 DEF IInv, CopiesOK
    <3>2. old.sounds[k] = numerology[s[k]].name /\ s[k] \in WithSound(numerology)
      BY <2>1, <3>1 DEF Lists
    <3> QED BY <2>2, <3>2
  <2>3. CASE "sound_file" \notin schema
    <3>1. 0 \in 0 .. SoundCopies - 1
      BY <1>1, <2>3 DEF IInv, TypesOK, SoundCopies, Windows
    <3>2. Has(triggers, ~misread, 0, Len(old.sounds), k, <<"sound", old.sounds[k]>>)
      BY <1>1, <2>1, <3>1 DEF IInv, CopiesOK, Holds
    <3> HIDE DEF migrated
    <3> QED BY <1>0, <3>2 DEF Has
  <2> QED BY <2>2, <2>3
<1>2. ASSUME IInv, NEW k \in DOMAIN old.webhooks
      PROVE  "webhooks" \in schema \/ <<"webhook", k>> \in migrated
  <2>1. k \in 1 .. Len(old.webhooks)
    BY <1>2 DEF IInv, CopiesOK
  <2>2. CASE "webhooks" \notin schema
    <3>1. 0 \in 0 .. WebhookCopies - 1
      BY <1>2, <2>2 DEF IInv, TypesOK, WebhookCopies, Windows
    <3> DEFINE i == SoundCopies * Len(old.sounds) + 0 * Len(old.webhooks) + k
    <3>2. Is(triggers, ~misread, i, i, <<"webhook", k>>)
      BY <1>2, <2>1, <3>1 DEF IInv, CopiesOK, Holds
    <3> HIDE DEF migrated
    <3> QED BY <1>0, <3>2
  <2> QED BY <2>2
<1>3. IInv => SourcesSurvive
  BY <1>1, <1>2 DEF SourcesSurvive
<1> QED
  BY <1>3, Invariance, PTL

(* What a start makes of the tables of an older release: the sounds in the *)
(* order of the numerology, then the webhooks, each once and once more for *)
(* every start that was cut before it could note that they were copied.    *)
THEOREM StaysMigratedInOrder == Spec => []MigratedInOrder
<1>1. ASSUME IInv, at = "up"
      PROVE  /\ SoundCopies = 1 + cut["dropSounds"] /\ WebhookCopies = 1 + cut["archive"]
             /\ SoundCopies \in Nat /\ WebhookCopies \in Nat
             /\ cut["dropSounds"] \in Nat /\ cut["archive"] \in Nat
  BY <1>1 DEF IInv, TypesOK, SchemaOK, Early, Startup, SoundCopies, WebhookCopies, Windows
<1>2. ASSUME IInv, at = "up"
      PROVE  LET top == (1 + cut["dropSounds"]) * Len(old.sounds) + (1 + cut["archive"]) * Len(old.webhooks)
             IN  top \in Nat /\ DOMAIN triggers = 1 .. top /\ Cardinality(DOMAIN triggers) = top
  <2> DEFINE top == (1 + cut["dropSounds"]) * Len(old.sounds) + (1 + cut["archive"]) * Len(old.webhooks)
  <2>1. Len(old.sounds) \in Nat /\ Len(old.webhooks) \in Nat
    BY <1>2 DEF IInv, CopiesOK
  <2>2. (1 + cut["dropSounds"]) * Len(old.sounds) \in Nat /\ (1 + cut["archive"]) * Len(old.webhooks) \in Nat
    BY <1>1, <1>2, <2>1, Products
  <2>3. top \in Nat /\ DOMAIN triggers = 1 .. top
    <3>1. top \in Nat
      BY <2>2
    <3>2. DOMAIN triggers = 1 .. SoundCopies * Len(old.sounds) + WebhookCopies * Len(old.webhooks)
      BY <1>2 DEF IInv, CopiesOK, Holds
    <3>3. SoundCopies * Len(old.sounds) + WebhookCopies * Len(old.webhooks) = top
      BY <1>1, <1>2
    <3> HIDE DEF top
    <3> QED BY <3>1, <3>2, <3>3
  <2> HIDE DEF top
  <2>4. Cardinality(1 .. top) = top
    BY <2>3, FS_Interval
  <2> QED BY <2>3, <2>4 DEF top
<1>3. ASSUME IInv, at = "up", NEW c \in 0 .. cut["dropSounds"], NEW k \in 1 .. Len(old.sounds)
      PROVE  Has(triggers, ~misread, c, Len(old.sounds), k, <<"sound", old.sounds[k]>>)
  <2>1. c \in 0 .. SoundCopies - 1
    BY <1>1, <1>3
  <2> QED BY <1>3, <2>1 DEF IInv, CopiesOK, Holds
<1>4. ASSUME IInv, at = "up", NEW c \in 0 .. cut["archive"], NEW k \in 1 .. Len(old.webhooks)
      PROVE  LET i == (1 + cut["dropSounds"]) * Len(old.sounds) + c * Len(old.webhooks) + k
             IN  Is(triggers, ~misread, i, i, <<"webhook", k>>)
  <2> DEFINE i == SoundCopies * Len(old.sounds) + c * Len(old.webhooks) + k
  <2>1. c \in 0 .. WebhookCopies - 1
    BY <1>1, <1>4
  <2>2. Is(triggers, ~misread, i, i, <<"webhook", k>>)
    BY <1>4, <2>1 DEF IInv, CopiesOK, Holds
  <2> QED BY <1>1, <1>4, <2>2
<1>5. IInv => MigratedInOrder
  BY <1>2, <1>3, <1>4 DEF MigratedInOrder, Has, Is
<1> QED
  BY <1>5, Invariance, PTL
=============================================================================
