---------------------------- MODULE PageProofs ------------------------------
(***************************************************************************)
(* Proofs about what the page does beside its list: the dialog with a      *)
(* boost's TLV, for all lists and any number of openings; the confetti,    *)
(* for any number of particles and shots and any height of the window; the *)
(* queue of sounds and MIDI notes, for all lists of triggers and however   *)
(* many; and the reply dialog, for every set of rows and any number of     *)
(* openings, replies and requests for metadata.  Then about what it        *)
(* computes: the blocks of a message of any length that is hashed in any   *)
(* two parts, the words or the date for a boost of any age, and what any   *)
(* numerology list tells of any amount.                                    *)
(***************************************************************************)
EXTENDS PageEffects, ReplyDialog, PageReading, OrderFacts, TLAPS

ListName == setConfig(pathname)

Request == [index : Indexes[ListName], waits : BOOLEAN]

(* An answer that is shown was asked for, and the link goes with it.       *)
TableOK ==
  /\ table.says \notin {"nothing", "loading"} =>
       /\ table.row = download
       /\ \E k \in DOMAIN infos : table.row = RowOf(infos[k].index)
       /\ overtaken \/ table.row = RowOf(infos[Len(infos)].index)

(* The inductive invariant: requests are about rows of the page's list.    *)
InfoInv ==
  /\ pathname \in {"/", "/streams", "/sent"}
  /\ infos \in Seq(Request)
  /\ TableOK

----------------------------------------------------------------------------
(* Asking for the newest boost that is not newer than a row of the list    *)
(* finds that row (api_v1_boosts with old and a count of one).             *)
LEMMA QueriedIsRow ==
  ASSUME NEW list \in ListNames, NEW index \in Indexes[list]
  PROVE  Queried(list, index) = <<list, index>>
<1> DEFINE found == {i \in Indexes[list] : i <= index}
<1>1. Indexes[list] \subseteq Nat
  BY InfoAssumption DEF InfoAssumption
<1>2. index \in found /\ \A j \in found : j <= index
  BY <1>1
<1>3. \A i \in found : (\A j \in found : j <= i) => i = index
  BY <1>1, <1>2
<1> HIDE DEF found
<1>4. (CHOOSE i \in found : \A j \in found : j <= i) = index
  BY <1>2, <1>3
<1>5. found # {}
  BY <1>2
<1> QED BY <1>4, <1>5 DEF Queried, found

(* A page has one list. *)
LEMMA ListOfPage ==
  ASSUME pathname \in {"/", "/streams", "/sent"}
  PROVE  ListName \in ListNames
BY DEF ListName, setConfig, ListNames

(* An answer, or the failure, of request k: the requests stay what they    *)
(* are about.                                                              *)
LEMMA InfoAnswered ==
  ASSUME infos \in Seq(Request), NEW k \in DOMAIN infos,
         infos' = [infos EXCEPT ![k].waits = FALSE], pathname' = pathname
  PROVE  /\ infos' \in Seq(Request) /\ DOMAIN infos' = DOMAIN infos
         /\ Len(infos') = Len(infos)
         /\ \A j \in DOMAIN infos : infos'[j].index = infos[j].index
<1>1. \A j \in DOMAIN infos : infos[j] \in Request
  BY ElementOfSeq, LenProperties
<1>2. infos' = [infos EXCEPT ![k] = [infos[k] EXCEPT !.waits = FALSE]]
  OBVIOUS
<1>3. [infos[k] EXCEPT !.waits = FALSE] \in Request
  BY <1>1 DEF Request
<1>4. infos' \in Seq(Request) /\ Len(infos') = Len(infos)
  BY <1>2, <1>3, ExceptSeq, LenProperties
<1>5. DOMAIN infos' = DOMAIN infos
  BY <1>2
<1>6. \A j \in DOMAIN infos : infos'[j].index = infos[j].index
  BY <1>1, <1>2 DEF Request
<1> QED BY <1>4, <1>5, <1>6

(* Opening the dialog adds a request and shows nothing yet. *)
LEMMA InfoOpened ==
  ASSUME InfoInv, NEW index \in Indexes[ListName], OpenInfo(index)
  PROVE  InfoInv'
<1>1. /\ pathname' = pathname /\ infos' = Append(infos, [index |-> index, waits |-> TRUE])
      /\ table'.says = "loading"
  BY DEF OpenInfo
<1>2. [index |-> index, waits |-> TRUE] \in Request
  BY DEF Request
<1>3. infos' \in Seq(Request)
  BY <1>1, <1>2, AppendProperties DEF InfoInv
<1>4. Request' = Request
  BY <1>1 DEF Request, ListName
<1> QED BY <1>1, <1>3, <1>4 DEF InfoInv, TableOK

(* An answer shows the row that its request was about. *)
LEMMA InfoReceived ==
  ASSUME InfoInv, NEW k \in DOMAIN infos, ReceiveInfo(k)
  PROVE  InfoInv'
<1>0. /\ infos \in Seq(Request) /\ pathname' = pathname /\ ListName \in ListNames
      /\ infos' = [infos EXCEPT ![k].waits = FALSE]
      /\ overtaken' = (k # Len(infos))
  BY ListOfPage DEF ReceiveInfo, InfoInv
<1>1. infos[k].index \in Indexes[ListName]
  <2>1. infos[k] \in Request
    BY <1>0, ElementOfSeq, LenProperties
  <2> QED BY <2>1 DEF Request
<1>2. Queried(ListName, infos[k].index) = <<ListName, infos[k].index>>
  BY <1>0, <1>1, QueriedIsRow
<1>3. <<ListName, infos[k].index>> # NoRow
  BY <1>0 DEF NoRow, ListNames
<1>4. table'.row = <<ListName, infos[k].index>> /\ download' = <<ListName, infos[k].index>>
  <2> DEFINE row == Queried(ListName, infos[k].index)
  <2>1. row # NoRow => Show(row)
    BY DEF ReceiveInfo, ListName
  <2> HIDE DEF row
  <2>2. row = <<ListName, infos[k].index>> /\ row # NoRow
    BY <1>2, <1>3 DEF row
  <2>3. table'.row = row /\ download' = row
    BY <2>1, <2>2 DEF Show
  <2> QED BY <2>2, <2>3
<1>5. /\ infos' \in Seq(Request) /\ DOMAIN infos' = DOMAIN infos /\ Len(infos') = Len(infos)
      /\ \A j \in DOMAIN infos : infos'[j].index = infos[j].index
  BY <1>0, InfoAnswered
<1>6. Request' = Request /\ ListName' = ListName
  BY <1>0 DEF Request, ListName
<1>7. table'.row = <<ListName', infos'[k].index>> /\ k \in DOMAIN infos'
  BY <1>4, <1>5, <1>6
<1>8. overtaken' \/ table'.row = <<ListName', infos'[Len(infos')].index>>
  BY <1>0, <1>5, <1>7
<1>9. TableOK'
  BY <1>4, <1>7, <1>8 DEF TableOK, RowOf, ListName
<1> QED BY <1>0, <1>5, <1>6, <1>9 DEF InfoInv

(* A request that fails leaves the dialog as it was. *)
LEMMA InfoFailed ==
  ASSUME InfoInv, NEW k \in DOMAIN infos, InfoFails(k)
  PROVE  InfoInv'
<1>0. /\ infos \in Seq(Request) /\ pathname' = pathname
      /\ infos' = [infos EXCEPT ![k].waits = FALSE]
      /\ table' = table /\ download' = download /\ overtaken' = overtaken
  BY DEF InfoFails, InfoInv
<1>1. /\ infos' \in Seq(Request) /\ DOMAIN infos' = DOMAIN infos /\ Len(infos') = Len(infos)
      /\ \A j \in DOMAIN infos : infos'[j].index = infos[j].index
  BY <1>0, InfoAnswered
<1>2. Request' = Request /\ setConfig(pathname)' = setConfig(pathname)
  BY <1>0 DEF Request, ListName
<1>3. Len(infos) \in DOMAIN infos
  <2>1. DOMAIN infos = 1 .. Len(infos) /\ Len(infos) \in Nat
    BY <1>0, LenProperties
  <2> QED BY <2>1
<1>4. TableOK'
  <2>1. SUFFICES ASSUME table.says \notin {"nothing", "loading"}
                 PROVE  TableOK'
    BY <1>0 DEF TableOK
  <2>2. PICK j \in DOMAIN infos : table.row = RowOf(infos[j].index)
    BY <2>1 DEF InfoInv, TableOK
  <2>3. overtaken \/ table.row = RowOf(infos[Len(infos)].index)
    BY <2>1 DEF InfoInv, TableOK
  <2>4. table.row = download
    BY <2>1 DEF InfoInv, TableOK
  <2>5. table'.row = <<setConfig(pathname)', infos'[j].index>> /\ j \in DOMAIN infos'
    BY <1>0, <1>1, <1>2, <2>2 DEF RowOf
  <2>6. overtaken' \/ table'.row = <<setConfig(pathname)', infos'[Len(infos')].index>>
    BY <1>0, <1>1, <1>2, <1>3, <2>3 DEF RowOf
  <2> QED BY <1>0, <2>4, <2>5, <2>6 DEF TableOK, RowOf
<1> QED BY <1>0, <1>1, <1>2, <1>4 DEF InfoInv

----------------------------------------------------------------------------
(* What the dialog shows is the row it was opened at last, or the answer   *)
(* of an earlier opening that came after it, and the link downloads it:    *)
(* for all lists, all rows that are not JSON and any number of openings.   *)
THEOREM DialogShowsItsRow == InfoSpec => []InfoIsOfItsRow
<1>1. InfoInit => InfoInv
  BY EmptySeq DEF InfoInit, InfoInv, TableOK
<1>2. InfoInv /\ [InfoNext]_infoVars => InfoInv'
  <2> SUFFICES ASSUME InfoInv, [InfoNext]_infoVars
               PROVE  InfoInv'
    OBVIOUS
  <2>1. ASSUME NEW index \in Indexes[setConfig(pathname)], OpenInfo(index)
        PROVE  InfoInv'
    BY <2>1, InfoOpened DEF ListName
  <2>2. ASSUME NEW k \in DOMAIN infos, ReceiveInfo(k)
        PROVE  InfoInv'
    BY <2>2, InfoReceived
  <2>3. ASSUME NEW k \in DOMAIN infos, InfoFails(k)
        PROVE  InfoInv'
    BY <2>3, InfoFailed
  <2>4. CASE UNCHANGED infoVars
    BY <2>4 DEF infoVars, InfoInv, TableOK, Request, ListName, RowOf
  <2> QED BY <2>1, <2>2, <2>3, <2>4 DEF InfoNext
<1>3. InfoInv => InfoIsOfItsRow
  BY DEF InfoInv, TableOK, InfoIsOfItsRow
<1> QED BY <1>1, <1>2, <1>3, PTL DEF InfoSpec

(* However shots, frames and timeouts follow each other, the browser owes  *)
(* one frame while the animation runs and none otherwise, and no particle  *)
(* is left behind by an animation that has ended.                          *)
THEOREM OneAnimationRuns == ConfettiSpec => []OneAnimation
<1> DEFINE ConfettiInv == OneAnimation /\ animationTimer \in BOOLEAN
<1>1. ConfettiInit => ConfettiInv
  BY DEF ConfettiInit, OneAnimation
<1>2. ConfettiInv /\ [ConfettiNext]_confettiVars => ConfettiInv'
  <2> SUFFICES ASSUME ConfettiInv, [ConfettiNext]_confettiVars
               PROVE  ConfettiInv'
    OBVIOUS
  <2>1. CASE ShootConfetti
    BY <2>1 DEF ShootConfetti, OneAnimation
  <2>2. CASE Frame
    <3>1. CASE particles = <<>>
      <4>1. animationTimer' = FALSE /\ frames' = frames - 1 /\ particles' = <<>> /\ frames > 0
        BY <2>2, <3>1 DEF Frame
      <4>2. frames = 1
        BY <4>1 DEF OneAnimation
      <4>3. frames' = 0
        BY <4>1, <4>2
      <4> QED BY <4>1, <4>3 DEF OneAnimation
    <3>2. CASE particles # <<>>
      BY <2>2, <3>2 DEF Frame, OneAnimation
    <3> QED BY <3>1, <3>2
  <2>3. CASE StopConfetti
    BY <2>3 DEF StopConfetti, OneAnimation
  <2>4. CASE UNCHANGED confettiVars
    BY <2>4 DEF confettiVars, OneAnimation
  <2> QED BY <2>1, <2>2, <2>3, <2>4 DEF ConfettiNext
<1>3. ConfettiInv => OneAnimation
  OBVIOUS
<1> QED BY <1>1, <1>2, <1>3, PTL DEF ConfettiSpec

----------------------------------------------------------------------------
(* EffectsQueue.                                                           *)

Play == [n : Nat, parts : [Parts -> PartStates]]

(* Each trigger is started or waits, under its own number. *)
Numbered ==
  /\ Len(plays) + Len(queue) = Len(wanted)
  /\ \A k \in DOMAIN plays : plays[k].n = k
  /\ \A j \in DOMAIN queue : queue[j] = Len(plays) + j

(* The flag tells of the last trigger only, so the ones before it must     *)
(* have been settled.                                                      *)
EarlierSettled == \A k \in DOMAIN plays : k < Len(plays) => Settled(plays[k].parts)

FlagOK == playing <=> plays # <<>> /\ ~Settled(plays[Len(plays)].parts)

(* The inductive invariant. *)
QueueInv == QueueTypeOK /\ Numbered /\ EarlierSettled /\ FlagOK

----------------------------------------------------------------------------
(* A part that is asked for or goes on is changed: a promise settled       *)
(* before stays settled.                                                   *)
LEMMA SettledStays ==
  ASSUME NEW parts \in [Parts -> PartStates], NEW p \in Parts, NEW state \in PartStates,
         parts[p] \in {"asking", "going"}, Settled(parts)
  PROVE  Settled([parts EXCEPT ![p] = state])
<1>1. Rejected(parts)
  BY DEF Settled, Resolved
<1>2. PICK q \in Parts : parts[q] = "failed"
  BY <1>1 DEF Rejected
<1>3. q # p /\ [parts EXCEPT ![p] = state][q] = "failed"
  BY <1>2
<1> QED BY <1>3 DEF Settled, Rejected

(* The parts a trigger is started with. *)
LEMMA StartedType ==
  ASSUME NEW has
  PROVE  Started(has) \in [Parts -> PartStates]
BY DEF Started, PartStates

(* Starting the next trigger while nothing plays. *)
LEMMA NextStarted ==
  ASSUME QueueInv, ~playing, NEW has, DoTrigger(Len(plays) + 1, has)
  PROVE  /\ plays' \in Seq(Play) /\ playing' \in BOOLEAN
         /\ Len(plays') = Len(plays) + 1
         /\ \A k \in DOMAIN plays' : plays'[k].n = k
         /\ EarlierSettled' /\ FlagOK'
<1> DEFINE new == [n |-> Len(plays) + 1, parts |-> Started(has)]
<1>1. plays \in Seq(Play) /\ Len(plays) \in Nat /\ DOMAIN plays = 1 .. Len(plays)
  BY LenProperties DEF QueueInv, QueueTypeOK, Play
<1>2. new \in Play
  BY <1>1, StartedType DEF Play
<1>3. plays' = Append(plays, new) /\ playing' = ~Settled(Started(has))
  BY DEF DoTrigger
<1> HIDE DEF new
<1>4. /\ plays' \in Seq(Play)
      /\ Len(plays') = Len(plays) + 1
      /\ \A k \in 1 .. Len(plays) : plays'[k] = plays[k]
      /\ plays'[Len(plays) + 1] = new
  BY <1>1, <1>2, <1>3, AppendProperties
<1>5. DOMAIN plays' = 1 .. Len(plays) + 1
  BY <1>4, LenProperties
<1>6. new.n = Len(plays) + 1 /\ new.parts = Started(has)
  BY DEF new
<1>7. playing' \in BOOLEAN
  BY <1>3 DEF Settled, Rejected
<1>8. \A k \in DOMAIN plays' : plays'[k].n = k
  <2>1. \A k \in 1 .. Len(plays) : plays'[k].n = k
    BY <1>1, <1>4 DEF QueueInv, Numbered
  <2>2. \A k \in DOMAIN plays' : k \in 1 .. Len(plays) \/ k = Len(plays) + 1
    BY <1>1, <1>5
  <2> QED BY <1>4, <1>6, <2>1, <2>2
<1>9. EarlierSettled'
  <2>1. ASSUME NEW k \in 1 .. Len(plays)
        PROVE  Settled(plays[k].parts)
    <3>1. CASE k < Len(plays)
      BY <1>1, <3>1 DEF QueueInv, EarlierSettled
    <3>2. CASE k = Len(plays)
      <4>1. plays # <<>>
        BY <1>1, <3>2
      <4> QED BY <3>2, <4>1 DEF QueueInv, FlagOK
    <3>3. Len(plays) \in Nat
      BY <1>1
    <3>4. k < Len(plays) \/ k = Len(plays)
      BY <3>3
    <3> QED BY <3>1, <3>2, <3>4
  <2>2. \A k \in DOMAIN plays' : k < Len(plays') => k \in 1 .. Len(plays)
    BY <1>1, <1>4, <1>5
  <2>3. \A k \in DOMAIN plays' : k < Len(plays') => Settled(plays'[k].parts)
    BY <1>4, <2>1, <2>2
  <2> QED BY <2>3 DEF EarlierSettled, Settled, Rejected, Resolved
<1>10. FlagOK'
  <2>1. plays' # <<>>
    BY <1>1, <1>5
  <2>2. plays'[Len(plays')].parts = Started(has)
    BY <1>4, <1>6
  <2>3. playing' = ~Settled(plays'[Len(plays')].parts)
    BY <1>3, <2>2
  <2> QED BY <2>1, <2>3 DEF FlagOK, Settled, Rejected, Resolved
<1> QED BY <1>4, <1>7, <1>8, <1>9, <1>10

(* A part of a trigger that was started goes on or ends. *)
LEMMA PartMoves ==
  ASSUME QueueInv, NEW k \in DOMAIN plays, NEW p \in Parts, NEW state \in PartStates,
         plays[k].parts[p] \in {"asking", "going"}, Becomes(k, p, state),
         midiOutput' \in {"unknown", "none", "some"}
  PROVE  QueueInv'
<1> DEFINE parts == [plays[k].parts EXCEPT ![p] = state]
           last  == Len(plays)
<1>1. plays \in Seq(Play) /\ last \in Nat /\ DOMAIN plays = 1 .. last
  BY LenProperties DEF QueueInv, QueueTypeOK, Play
<1>2. plays[k] \in Play
  BY <1>1, ElementOfSeq
<1>3. parts \in [Parts -> PartStates] /\ plays[k].parts \in [Parts -> PartStates]
  BY <1>2 DEF Play
<1>4. /\ plays' = [plays EXCEPT ![k].parts = parts]
      /\ playing' = (playing /\ (Settled(plays[k].parts) \/ ~Settled(parts)))
      /\ wanted' = wanted /\ queue' = queue
  BY DEF Becomes
<1>5. Settled(plays[k].parts) => Settled(parts)
  BY <1>3, SettledStays
<1> HIDE DEF parts
<1>6. /\ plays' \in Seq(Play) /\ Len(plays') = last
      /\ plays'[k].parts = parts /\ plays'[k].n = plays[k].n
      /\ \A j \in DOMAIN plays : j # k => plays'[j] = plays[j]
  <2> DEFINE e == [plays[k] EXCEPT !.parts = parts]
  <2>1. e \in Play /\ e.parts = parts /\ e.n = plays[k].n
    BY <1>2, <1>3 DEF Play
  <2>2. plays' = [plays EXCEPT ![k] = e]
    BY <1>4
  <2> HIDE DEF e
  <2> QED BY <1>1, <2>1, <2>2, ExceptSeq
<1>7. DOMAIN plays' = 1 .. last
  BY <1>6, LenProperties
<1>8. playing' \in BOOLEAN
  BY <1>4 DEF QueueInv, QueueTypeOK
<1>9. QueueTypeOK'
  <2>1. wanted' \in Seq(SUBSET Parts) /\ queue' \in Seq(Nat)
    BY <1>4 DEF QueueInv, QueueTypeOK
  <2> QED BY <1>6, <1>8, <2>1 DEF QueueTypeOK, Play
<1>10. Numbered'
  <2>1. \A j \in DOMAIN plays' : plays'[j].n = j
    BY <1>1, <1>6, <1>7 DEF QueueInv, Numbered
  <2> QED BY <1>4, <1>6, <2>1 DEF QueueInv, Numbered
<1>11. EarlierSettled'
  <2>1. ASSUME NEW j \in DOMAIN plays', j < Len(plays')
        PROVE  Settled(plays'[j].parts)
    <3>1. j \in DOMAIN plays /\ j < last /\ Settled(plays[j].parts)
      BY <1>1, <1>6, <1>7, <2>1 DEF QueueInv, EarlierSettled
    <3> QED BY <1>5, <1>6, <3>1
  <2> QED BY <2>1 DEF EarlierSettled, Settled, Rejected, Resolved
<1>12. FlagOK'
  <2>1. plays # <<>> /\ plays' # <<>>
    BY <1>1, <1>7
  <2>2. playing <=> ~Settled(plays[last].parts)
    BY <2>1 DEF QueueInv, FlagOK
  <2>3. CASE k = last
    <3>1. plays'[last].parts = parts
      BY <1>6, <2>3
    <3>2. playing' <=> ~Settled(parts)
      BY <1>4, <1>5, <2>2, <2>3
    <3>3. playing' <=> ~Settled(plays'[Len(plays')].parts)
      BY <1>6, <3>1, <3>2
    <3> QED BY <2>1, <3>3 DEF FlagOK, Settled, Rejected, Resolved
  <2>4. CASE k # last
    <3>1. k < last /\ last \in DOMAIN plays
      BY <1>1, <2>4
    <3>2. Settled(plays[k].parts) /\ plays'[last] = plays[last]
      BY <1>6, <2>4, <3>1 DEF QueueInv, EarlierSettled
    <3>3. playing' <=> ~Settled(plays'[Len(plays')].parts)
      BY <1>4, <1>6, <2>2, <3>2
    <3> QED BY <2>1, <3>3 DEF FlagOK, Settled, Rejected, Resolved
  <2> QED BY <2>3, <2>4
<1> QED BY <1>9, <1>10, <1>11, <1>12 DEF QueueInv
----------------------------------------------------------------------------
(* The queue starts empty. *)
LEMMA QueueStarts == QueueInit => QueueInv
<1> SUFFICES ASSUME QueueInit PROVE QueueInv
  OBVIOUS
<1>1. /\ <<>> \in Seq(SUBSET Parts) /\ <<>> \in Seq(Nat) /\ <<>> \in Seq(Play)
      /\ Len(<<>>) = 0 /\ DOMAIN <<>> = {}
  BY EmptySeq
<1>2. QueueTypeOK
  BY <1>1 DEF QueueInit, QueueTypeOK, Play
<1>3. Numbered /\ EarlierSettled /\ FlagOK
  BY <1>1 DEF QueueInit, Numbered, EarlierSettled, FlagOK
<1> QED BY <1>2, <1>3 DEF QueueInv

(* Every step keeps the order and the flag. *)
LEMMA QueueStep ==
  ASSUME QueueInv, [QueueNext]_queueVars
  PROVE  QueueInv'
<1> DEFINE last == Len(plays)
<1>0. /\ wanted \in Seq(SUBSET Parts) /\ Len(wanted) \in Nat
      /\ queue \in Seq(Nat) /\ Len(queue) \in Nat /\ DOMAIN queue = 1 .. Len(queue)
      /\ last \in Nat
      /\ midiOutput \in {"unknown", "none", "some"}
  BY LenProperties DEF QueueInv, QueueTypeOK
<1>1. ASSUME NEW list \in Lists, HandleTriggers(list)
      PROVE  QueueInv'
  <2>1. list \in Seq(SUBSET Parts) /\ list # <<>> /\ Len(list) \in Nat \ {0}
    BY ListsAssumption, EmptySeq DEF ListsAssumption
  <2>2. wanted' = wanted \o list /\ midiOutput' = midiOutput
    BY <1>1 DEF HandleTriggers
  <2>3. wanted' \in Seq(SUBSET Parts) /\ Len(wanted') = Len(wanted) + Len(list)
    BY <1>0, <2>1, <2>2, ConcatProperties
  <2>4. CASE ~playing /\ queue = <<>>
    <3> DEFINE m == Len(list) - 1
               rest == [i \in 1 .. m |-> last + 1 + i]
    <3>1. Len(wanted) = last
      BY <1>0, <2>4, EmptySeq DEF QueueInv, Numbered
    <3>2. DoTrigger(last + 1, list[1]) /\ queue' = rest
      BY <1>1, <2>4, <3>1 DEF HandleTriggers
    <3>3. m \in Nat /\ \A i \in 1 .. m : last + 1 + i \in Nat
      BY <1>0, <2>1
    <3>4. /\ plays' \in Seq(Play) /\ playing' \in BOOLEAN /\ Len(plays') = last + 1
          /\ \A k \in DOMAIN plays' : plays'[k].n = k
          /\ EarlierSettled' /\ FlagOK'
      BY <2>4, <3>2, NextStarted
    <3> HIDE DEF m
    <3>5. rest \in Seq(Nat) /\ Len(rest) = m /\ DOMAIN rest = 1 .. m
      <4>1. rest \in [1 .. m -> Nat]
        BY <3>3
      <4>2. rest \in Seq(Nat)
        BY <3>3, <4>1, SeqDef
      <4>3. DOMAIN rest = 1 .. Len(rest) /\ Len(rest) \in Nat
        BY <4>2, LenProperties
      <4>4. DOMAIN rest = 1 .. m
        OBVIOUS
      <4> QED BY <3>3, <4>2, <4>3, <4>4
    <3>6. \A j \in DOMAIN rest : rest[j] = last + 1 + j
      BY <3>5
    <3>7. Len(plays') + Len(rest) = Len(wanted')
      BY <1>0, <2>1, <2>3, <3>1, <3>4, <3>5 DEF m
    <3> HIDE DEF rest
    <3>8. Numbered'
      BY <3>2, <3>4, <3>6, <3>7 DEF Numbered
    <3>9. QueueTypeOK'
      BY <1>0, <2>2, <2>3, <3>2, <3>4, <3>5 DEF QueueTypeOK, Play
    <3> QED BY <3>4, <3>8, <3>9 DEF QueueInv
  <2>5. CASE ~(~playing /\ queue = <<>>)
    <3> DEFINE m == Len(list)
               more == [i \in 1 .. m |-> Len(wanted) + i]
    <3>1. queue' = queue \o more /\ playing' = playing /\ plays' = plays
      BY <1>1, <2>5 DEF HandleTriggers
    <3>2. m \in Nat /\ \A i \in 1 .. m : Len(wanted) + i \in Nat
      BY <1>0, <2>1
    <3> HIDE DEF m
    <3>3. more \in Seq(Nat) /\ Len(more) = m
      <4>1. more \in [1 .. m -> Nat]
        BY <3>2
      <4>2. more \in Seq(Nat)
        BY <3>2, <4>1, SeqDef
      <4>3. DOMAIN more = 1 .. Len(more) /\ Len(more) \in Nat
        BY <4>2, LenProperties
      <4>4. DOMAIN more = 1 .. m
        OBVIOUS
      <4> QED BY <3>2, <4>2, <4>3, <4>4
    <3>4. \A i \in 1 .. m : more[i] = Len(wanted) + i
      OBVIOUS
    <3> HIDE DEF more
    <3>5. /\ queue' \in Seq(Nat) /\ Len(queue') = Len(queue) + m
          /\ \A i \in 1 .. Len(queue) + m :
               queue'[i] = IF i <= Len(queue) THEN queue[i] ELSE more[i - Len(queue)]
      BY <1>0, <3>1, <3>3, ConcatProperties
    <3>6. DOMAIN queue' = 1 .. Len(queue) + m
      BY <3>5, LenProperties
    <3>7. last + Len(queue) = Len(wanted) /\ \A j \in 1 .. Len(queue) : queue[j] = last + j
      BY <1>0 DEF QueueInv, Numbered
    <3>8. \A j \in DOMAIN queue' : queue'[j] = last + j
      <4> SUFFICES ASSUME NEW j \in 1 .. Len(queue) + m
                   PROVE  queue'[j] = last + j
        BY <3>6
      <4>1. CASE j <= Len(queue)
        BY <1>0, <3>2, <3>5, <3>7, <4>1
      <4>2. CASE j > Len(queue)
        <5>1. j - Len(queue) \in 1 .. m
          BY <1>0, <3>2, <4>2
        <5>2. Len(queue) \in Nat /\ Len(wanted) \in Nat /\ last \in Nat
          BY <1>0
        <5>3. queue'[j] = more[j - Len(queue)]
          BY <3>2, <3>5, <4>2, <5>2
        <5>4. more[j - Len(queue)] = Len(wanted) + (j - Len(queue))
          BY <3>4, <5>1
        <5>5. Len(wanted) + (j - Len(queue)) = last + j
          BY <3>2, <3>7, <5>2
        <5> QED BY <5>3, <5>4, <5>5
      <4> QED BY <1>0, <3>2, <4>1, <4>2
    <3>9. Numbered'
      <4>1. Len(queue') = Len(queue) + m /\ Len(wanted') = Len(wanted) + m
        BY <2>3, <3>5 DEF m
      <4>2. Len(plays') = last /\ last + Len(queue) = Len(wanted)
        BY <3>1, <3>7
      <4>3. last \in Nat /\ Len(queue) \in Nat /\ Len(wanted) \in Nat
        BY <1>0
      <4> HIDE DEF last
      <4>4. Len(plays') + Len(queue') = Len(wanted')
        BY <3>2, <4>1, <4>2, <4>3
      <4>5. \A k \in DOMAIN plays' : plays'[k].n = k
        BY <3>1 DEF QueueInv, Numbered
      <4> QED BY <3>1, <3>8, <4>4, <4>5 DEF Numbered, last
    <3>10. QueueTypeOK'
      BY <2>2, <2>3, <3>1, <3>5 DEF QueueInv, QueueTypeOK
    <3>11. EarlierSettled' /\ FlagOK'
      BY <3>1 DEF QueueInv, EarlierSettled, FlagOK, Settled, Rejected, Resolved
    <3> QED BY <3>9, <3>10, <3>11 DEF QueueInv
  <2> QED BY <2>4, <2>5
<1>2. ASSUME Tick
      PROVE  QueueInv'
  <2> DEFINE has == wanted[Head(queue)]
  <2>1. /\ ~playing /\ queue # <<>> /\ queue' = Tail(queue)
        /\ DoTrigger(Head(queue), has)
        /\ wanted' = wanted /\ midiOutput' = midiOutput
    BY <1>2 DEF Tick
  <2> HIDE DEF has
  <2>2. Len(queue) \in Nat \ {0} /\ Head(queue) = queue[1]
    BY <1>0, <2>1, EmptySeq
  <2>3. Head(queue) = last + 1
    BY <1>0, <2>2 DEF QueueInv, Numbered
  <2>4. /\ plays' \in Seq(Play) /\ playing' \in BOOLEAN /\ Len(plays') = last + 1
        /\ \A k \in DOMAIN plays' : plays'[k].n = k
        /\ EarlierSettled' /\ FlagOK'
    BY <2>1, <2>3, NextStarted
  <2>5. /\ queue' \in Seq(Nat) /\ Len(queue') = Len(queue) - 1
        /\ \A i \in 1 .. Len(queue') : queue'[i] = queue[i + 1]
    BY <1>0, <2>1, HeadTailProperties
  <2>6. DOMAIN queue' = 1 .. Len(queue) - 1
    BY <2>5, LenProperties
  <2>7. \A j \in DOMAIN queue' : queue'[j] = Len(plays') + j
    <3> SUFFICES ASSUME NEW j \in 1 .. Len(queue) - 1
                 PROVE  queue'[j] = last + 1 + j
      BY <2>4, <2>6
    <3>0. DOMAIN queue = 1 .. Len(queue)
      BY <1>0, LenProperties
    <3>1. j + 1 \in DOMAIN queue /\ queue'[j] = queue[j + 1]
      <4>1. j + 1 \in 1 .. Len(queue)
        BY <2>2
      <4>2. j \in 1 .. Len(queue')
        BY <2>2, <2>5
      <4>3. queue'[j] = queue[j + 1]
        BY <2>5, <4>2
      <4> QED BY <3>0, <4>1, <4>3
    <3>2. queue[j + 1] = last + (j + 1)
      BY <3>1 DEF QueueInv, Numbered
    <3>3. last \in Nat /\ Len(queue) \in Nat
      BY <1>0
    <3>4. last + (j + 1) = last + 1 + j
      BY <3>3
    <3> QED BY <3>1, <3>2, <3>4
  <2>8. Numbered'
    <3>1. Len(plays') + Len(queue') = Len(wanted')
      BY <1>0, <2>1, <2>2, <2>4, <2>5 DEF QueueInv, Numbered
    <3> QED BY <2>4, <2>7, <3>1 DEF Numbered
  <2>9. QueueTypeOK'
    BY <1>0, <2>1, <2>4, <2>5 DEF QueueTypeOK, Play
  <2> QED BY <2>4, <2>8, <2>9 DEF QueueInv
<1>3. ASSUME PartStep
      PROVE  QueueInv'
  <2>1. PICK k \in DOMAIN plays :
          InitMIDI(k) \/ RefuseSound(k) \/ \E p \in Parts : EndPart(k, p) \/ HangPart(k, p)
    BY <1>3 DEF PartStep
  <2>2. CASE InitMIDI(k)
    <3>1. \E state \in PartStates : Becomes(k, "midi", state)
      BY <2>2 DEF InitMIDI, PartStates
    <3>2. midiOutput' \in {"unknown", "none", "some"}
      BY <1>0, <2>2 DEF InitMIDI
    <3>3. plays[k].parts["midi"] \in {"asking", "going"} /\ "midi" \in Parts
      BY <2>2 DEF InitMIDI, Parts
    <3> QED BY <3>1, <3>2, <3>3, PartMoves
  <2>3. CASE RefuseSound(k)
    <3>1. /\ plays[k].parts["sound"] \in {"asking", "going"} /\ "sound" \in Parts
          /\ "failed" \in PartStates /\ Becomes(k, "sound", "failed")
          /\ midiOutput' \in {"unknown", "none", "some"}
      BY <1>0, <2>3 DEF RefuseSound, Parts, PartStates
    <3> QED BY <3>1, PartMoves
  <2>4. ASSUME NEW p \in Parts, EndPart(k, p) \/ HangPart(k, p)
        PROVE  QueueInv'
    <3>1. /\ plays[k].parts[p] \in {"asking", "going"}
          /\ Becomes(k, p, "done") \/ Becomes(k, p, "hung")
          /\ midiOutput' \in {"unknown", "none", "some"}
      BY <1>0, <2>4 DEF EndPart, HangPart
    <3>2. {"done", "hung"} \subseteq PartStates
      BY DEF PartStates
    <3> QED BY <3>1, <3>2, PartMoves
  <2> QED BY <2>1, <2>2, <2>3, <2>4
<1>4. ASSUME UNCHANGED queueVars
      PROVE  QueueInv'
  <2> USE <1>4 DEF queueVars
  <2>1. QueueTypeOK' /\ Numbered'
    BY DEF QueueInv, QueueTypeOK, Numbered
  <2>2. EarlierSettled' /\ FlagOK'
    BY DEF QueueInv, EarlierSettled, FlagOK, Settled, Rejected, Resolved
  <2> QED BY <2>1, <2>2 DEF QueueInv
<1> QED BY <1>1, <1>2, <1>3, <1>4 DEF QueueNext

----------------------------------------------------------------------------
(* TriggerQueue starts the triggers in the order the boosts bring them,    *)
(* each of them once, and none while an earlier one sounds, unless a part  *)
(* of that one was rejected.                                               *)
THEOREM TriggersTakeTurns == QueueSpec => []PlayedInTurn
<1>1. QueueInv => PlayedInTurn
  <2> SUFFICES ASSUME QueueInv PROVE PlayedInTurn
    OBVIOUS
  <2>1. ASSUME NEW k \in DOMAIN plays, k < Len(plays), UnderWay(plays[k].parts)
        PROVE  Rejected(plays[k].parts)
    <3>1. Settled(plays[k].parts)
      BY <2>1 DEF QueueInv, EarlierSettled
    <3>2. ~Resolved(plays[k].parts)
      BY <2>1 DEF UnderWay, Resolved
    <3> QED BY <3>1, <3>2 DEF Settled
  <2> QED BY <2>1 DEF QueueInv, Numbered, PlayedInTurn
<1> QED BY <1>1, QueueStarts, QueueStep, PTL DEF QueueSpec

----------------------------------------------------------------------------
(* The page as a whole: what an event or a click sets off is a step of one *)
(* of the machines on it and leaves the others alone.                      *)
LEMMA PageRunsItsParts == Spec => QueueSpec /\ ConfettiSpec /\ InfoSpec
<1>1. Init => QueueInit /\ ConfettiInit /\ InfoInit
  BY DEF Init
<1>2. [Next]_vars => [QueueNext]_queueVars /\ [ConfettiNext]_confettiVars /\ [InfoNext]_infoVars
  BY DEF Next, Triggers, Falling, Display, Opening, vars
<1> QED BY <1>1, <1>2, PTL DEF Spec, QueueSpec, ConfettiSpec, InfoSpec

(* On the page triggers take turns, one animation runs and the dialog is   *)
(* about its row, whatever else happens on it.                             *)
THEOREM PageKeepsOrder ==
  Spec => [](PlayedInTurn /\ OneAnimation /\ InfoIsOfItsRow)
BY PageRunsItsParts, TriggersTakeTurns, OneAnimationRuns, DialogShowsItsRow, PTL

----------------------------------------------------------------------------
(* ReplyDialog.                                                            *)

ReplyRecord == [row : Rows, from : {"node", "browser"}, opening : 1..MaxOpenings,
                state : {"paying", "marking", "answered", "done", "failed"}]
FetchRecord == [kind : {"metadata", "list"}, rows : SUBSET Rows,
                state : {"asked", "read", "stored", "done", "failed"},
                as : [Rows -> {"fetch", "reply", "replied"}],
                told : SUBSET Rows, over : SUBSET Rows]
Buttons == [Rows -> {"fetch", "reply", "replied", "gone"}]

(* What says that a reply succeeded, wherever it is held, is true.         *)
PaidOK ==
  /\ \A n \in DOMAIN replies :
       replies[n].state \in {"marking", "answered", "done"} => paid[replies[n].row] > 0
  /\ \A f \in DOMAIN fetches, r \in Rows : fetches[f].as[r] = "replied" => paid[r] > 0
  /\ \A r \in Rows : button[r] = "replied" \/ replySent[r] => paid[r] > 0

(* A reply the present opening of the dialog sent, and that has not failed.*)
Current(n) == replies[n].opening = dialog.opening /\ replies[n].state # "failed"

(* There is one at most, and none while the button can be clicked.         *)
OpeningOK ==
  /\ dialog.shown => dialog.opening > 0
  /\ \A n \in DOMAIN replies : replies[n].opening <= dialog.opening
  /\ \A n, m \in DOMAIN replies : Current(n) /\ Current(m) => n = m \/ dialog.stray
  /\ OncePerOpening

(* A reply goes to a row that is in need of no metadata.                   *)
Addressed(r) == r \in Fetchable => r \in resolved

AddressedOK ==
  /\ \A r \in Rows : button[r] \in {"reply", "replied"} => Addressed(r)
  /\ dialog.opening > 0 => Addressed(dialog.index)
  /\ \A n \in DOMAIN replies : Addressed(replies[n].row)
  /\ \A f \in DOMAIN fetches :
       /\ fetches[f].kind = "list" /\ fetches[f].state = "read" =>
            \A r \in Rows : fetches[f].as[r] # "fetch" => Addressed(r)
       /\ fetches[f].state = "stored" => \A r \in fetches[f].rows : Addressed(r)

(* What the page has been told of is in the database, or could not be      *)
(* stored, and so it is in whatever is read for a request made later; what *)
(* was paid for is due to a reply.                                         *)
Kept(r) == replySent[r] \/ r \in unstored

ToldOK ==
  /\ \A n \in DOMAIN replies : replies[n].state \in {"answered", "done"} => Kept(replies[n].row)
  /\ \A r \in Rows : paid[r] > 0 =>
       \E n \in DOMAIN replies : replies[n].row = r /\ replies[n].state # "paying"
  /\ \A f \in DOMAIN fetches : fetches[f].told \subseteq Told
  /\ \A f \in DOMAIN fetches : fetches[f].state \in {"read", "stored", "done"} =>
       \A r \in fetches[f].told : fetches[f].as[r] = "replied" \/ r \in unstored

ShownOK ==
  /\ \A r \in Rows : drawn[r] # 0 =>
       drawn[r] \in DOMAIN fetches /\ fetches[drawn[r]].state = "done"
  /\ PaidIsShown

(* The inductive invariant. *)
DialogInv == TypeOK /\ PaidOK /\ OpeningOK /\ AddressedOK /\ ToldOK /\ ShownOK

----------------------------------------------------------------------------
(* One reply changes its state. *)
LEMMA ReplyMoves ==
  ASSUME replies \in Seq(ReplyRecord), NEW n \in DOMAIN replies,
         NEW s \in {"paying", "marking", "answered", "done", "failed"},
         replies' = [replies EXCEPT ![n].state = s]
  PROVE  /\ replies' \in Seq(ReplyRecord) /\ DOMAIN replies' = DOMAIN replies
         /\ replies'[n].state = s
         /\ replies'[n].row = replies[n].row /\ replies'[n].opening = replies[n].opening
         /\ \A k \in DOMAIN replies : k # n => replies'[k] = replies[k]
<1> DEFINE e == [replies[n] EXCEPT !.state = s]
<1>1. replies[n] \in ReplyRecord
  BY ElementOfSeq, LenProperties
<1>2. e \in ReplyRecord /\ e.state = s /\ e.row = replies[n].row /\ e.opening = replies[n].opening
  BY <1>1 DEF ReplyRecord
<1>3. replies' = [replies EXCEPT ![n] = e]
  OBVIOUS
<1> HIDE DEF e
<1>4. DOMAIN replies = 1 .. Len(replies) /\ Len(replies) \in Nat
  BY LenProperties
<1>5. /\ replies' \in Seq(ReplyRecord) /\ Len(replies') = Len(replies)
      /\ replies'[n] = e /\ \A k \in DOMAIN replies : k # n => replies'[k] = replies[k]
  BY <1>2, <1>3, <1>4, ExceptSeq
<1>6. DOMAIN replies' = DOMAIN replies
  BY <1>3
<1> QED BY <1>2, <1>5, <1>6

(* One request becomes another record. *)
LEMMA FetchMoves ==
  ASSUME fetches \in Seq(FetchRecord), NEW f \in DOMAIN fetches, NEW e \in FetchRecord,
         fetches' = [fetches EXCEPT ![f] = e]
  PROVE  /\ fetches' \in Seq(FetchRecord) /\ DOMAIN fetches' = DOMAIN fetches
         /\ fetches'[f] = e
         /\ \A k \in DOMAIN fetches : k # f => fetches'[k] = fetches[k]
<1>1. DOMAIN fetches = 1 .. Len(fetches) /\ Len(fetches) \in Nat
  BY LenProperties
<1>2. /\ fetches' \in Seq(FetchRecord) /\ Len(fetches') = Len(fetches)
      /\ fetches'[f] = e /\ \A k \in DOMAIN fetches : k # f => fetches'[k] = fetches[k]
  BY <1>1, ExceptSeq
<1>3. DOMAIN fetches' = DOMAIN fetches
  OBVIOUS
<1> QED BY <1>2, <1>3

(* What a record of a sequence is, and what appending one leaves alone.    *)
LEMMA Appended ==
  ASSUME NEW S, NEW seq \in Seq(S), NEW e \in S
  PROVE  /\ Append(seq, e) \in Seq(S)
         /\ DOMAIN seq = 1 .. Len(seq) /\ Len(seq) \in Nat
         /\ DOMAIN Append(seq, e) = 1 .. Len(seq) + 1
         /\ Append(seq, e)[Len(seq) + 1] = e
         /\ \A k \in DOMAIN seq : k \in DOMAIN Append(seq, e) /\ Append(seq, e)[k] = seq[k]
         /\ \A k \in DOMAIN Append(seq, e) : k \in DOMAIN seq \/ k = Len(seq) + 1
<1> DEFINE t == Append(seq, e)
<1>1. /\ t \in Seq(S) /\ Len(t) = Len(seq) + 1
      /\ \A k \in 1 .. Len(seq) : t[k] = seq[k]
      /\ t[Len(seq) + 1] = e
  BY AppendProperties
<1>2. Len(seq) \in Nat /\ DOMAIN seq = 1 .. Len(seq) /\ DOMAIN t = 1 .. Len(seq) + 1
  BY <1>1, LenProperties
<1> HIDE DEF t
<1>3. \A k \in DOMAIN seq : k \in DOMAIN t /\ t[k] = seq[k]
  BY <1>1, <1>2
<1>4. \A k \in DOMAIN t : k \in DOMAIN seq \/ k = Len(seq) + 1
  BY <1>2
<1> QED BY <1>1, <1>2, <1>3, <1>4 DEF t

(* TypeOK, with the records named. *)
LEMMA Types ==
  ASSUME TypeOK
  PROVE  /\ replies \in Seq(ReplyRecord) /\ fetches \in Seq(FetchRecord)
         /\ \A n \in DOMAIN replies : replies[n] \in ReplyRecord
         /\ \A f \in DOMAIN fetches : fetches[f] \in FetchRecord
         /\ dialog.index \in Rows /\ dialog.opening \in 0 .. MaxOpenings
         /\ dialog.enabled \in BOOLEAN /\ dialog.stray \in BOOLEAN /\ dialog.shown \in BOOLEAN
         /\ MaxOpenings \in Nat
         /\ button \in Buttons /\ paid \in [Rows -> Nat] /\ replySent \in [Rows -> BOOLEAN]
         /\ drawn \in [Rows -> Nat]
         /\ \A n \in DOMAIN replies : replies[n].row \in Rows
         /\ \A f \in DOMAIN fetches : fetches[f].as \in [Rows -> {"fetch", "reply", "replied"}]
                                      /\ fetches[f].rows \subseteq Rows
                                      /\ fetches[f].told \subseteq Rows
<1>1. replies \in Seq(ReplyRecord) /\ fetches \in Seq(FetchRecord)
  BY DEF TypeOK, ReplyRecord, FetchRecord
<1>2. /\ \A n \in DOMAIN replies : replies[n] \in ReplyRecord
      /\ \A f \in DOMAIN fetches : fetches[f] \in FetchRecord
  BY <1>1, ElementOfSeq, LenProperties
<1>3. \A n \in DOMAIN replies : replies[n].row \in Rows
  BY <1>2 DEF ReplyRecord
<1>4. \A f \in DOMAIN fetches : fetches[f].as \in [Rows -> {"fetch", "reply", "replied"}]
                                /\ fetches[f].rows \subseteq Rows /\ fetches[f].told \subseteq Rows
  BY <1>2 DEF FetchRecord
<1>5. drawn \in [Rows -> Nat]
  <2>1. \A r \in Rows : drawn[r] \in 0 .. Len(fetches) /\ Len(fetches) \in Nat
    BY <1>1, LenProperties DEF TypeOK
  <2> QED BY <2>1 DEF TypeOK
<1> QED BY <1>1, <1>2, <1>3, <1>4, <1>5, DialogAssumption DEF TypeOK, DialogAssumption, Buttons

(* The fields of a reply and of a request that are on their way. *)
LEMMA Failing ==
  ASSUME TypeOK, NEW n \in DOMAIN replies, Fail(n)
  PROVE  /\ dialog'.enabled = TRUE /\ dialog'.opening = dialog.opening
         /\ dialog'.stray = (dialog.stray \/ replies[n].opening # dialog.opening)
         /\ dialog' \in [shown : BOOLEAN, index : Rows, enabled : BOOLEAN,
                         opening : 0..MaxOpenings, stray : BOOLEAN]
<1> DEFINE stray == dialog.stray \/ replies[n].opening # dialog.opening
<1>1. stray \in BOOLEAN
  BY Types
<1>2. dialog' = [dialog EXCEPT !.enabled = TRUE, !.stray = stray]
  BY DEF Fail
<1>3. dialog \in [shown : BOOLEAN, index : Rows, enabled : BOOLEAN,
                  opening : 0..MaxOpenings, stray : BOOLEAN]
  BY DEF TypeOK
<1> HIDE DEF stray
<1>4. /\ dialog'.enabled = TRUE /\ dialog'.opening = dialog.opening /\ dialog'.stray = stray
      /\ dialog' \in [shown : BOOLEAN, index : Rows, enabled : BOOLEAN,
                      opening : 0..MaxOpenings, stray : BOOLEAN]
  BY <1>1, <1>2, <1>3
<1> QED BY <1>4 DEF stray

----------------------------------------------------------------------------
(* The system starts with nothing sent. *)
LEMMA DialogStarts == DialogInit => DialogInv
<1> SUFFICES ASSUME DialogInit PROVE DialogInv
  OBVIOUS
<1>1. DOMAIN replies = {} /\ DOMAIN fetches = {}
  BY EmptySeq DEF DialogInit
<1>2. TypeOK
  <2>1. (CHOOSE r \in Rows : TRUE) \in Rows
    BY DialogAssumption DEF DialogAssumption
  <2>2. replies \in Seq(ReplyRecord) /\ fetches \in Seq(FetchRecord)
    BY EmptySeq DEF DialogInit
  <2>3. button \in [Rows -> {"fetch", "reply", "replied", "gone"}]
    BY DEF DialogInit
  <2>4. 0 \in 0 .. MaxOpenings /\ Len(fetches) = 0 /\ 0 \in 0 .. Len(fetches)
    BY DialogAssumption, EmptySeq DEF DialogAssumption, DialogInit
  <2>5. drawn \in [Rows -> 0 .. Len(fetches)]
    BY <2>4 DEF DialogInit
  <2> QED BY <2>1, <2>2, <2>3, <2>4, <2>5 DEF DialogInit, TypeOK, ReplyRecord, FetchRecord
<1>3. PaidOK
  BY <1>1 DEF DialogInit, PaidOK
<1>4. OpeningOK /\ ShownOK
  BY <1>1 DEF DialogInit, OpeningOK, OncePerOpening, ShownOK, PaidIsShown
<1>5. AddressedOK /\ ToldOK
  BY <1>1 DEF DialogInit, AddressedOK, ToldOK, Addressed
<1> QED BY <1>2, <1>3, <1>4, <1>5 DEF DialogInv

----------------------------------------------------------------------------
(* The step kinds the invariants below are shown for. *)
Goes(n) == AddressFails(n) \/ BrowserPays(n) \/ MarkReplied(n) \/ NodePays(n) \/ Replied(n)

Fetches(f) == \/ ReadBoosts(f) \/ UpdateInvoice(f) \/ MetadataFetched(f)
              \/ MetadataFails(f) \/ ListFetched(f)

Idle == CloseDialog \/ HideDialog \/ \E r \in Rows : ShowDialog(r)

LEMMA StepKinds ==
  ASSUME DialogNext
  PROVE  \/ Idle \/ ChangeFilter
         \/ \E kind \in {"metadata", "list"}, rows \in SUBSET Rows : Ask(kind, rows)
         \/ \E from \in {"node", "browser"} : SendReply(from)
         \/ \E n \in DOMAIN replies : Goes(n)
         \/ \E f \in DOMAIN fetches : Fetches(f)
BY DEF DialogNext, User, Sending, Fetching, Goes, Fetches, Idle, FetchMetadata, GetBoosts

(* A click adds a reply of the present opening and disables the button. *)
LEMMA ReplySent ==
  ASSUME TypeOK, OpeningOK, NEW from \in {"node", "browser"}, SendReply(from)
  PROVE  /\ UNCHANGED <<button, hides, fetches, server, drawn>>
         /\ dialog.enabled = TRUE /\ dialog'.enabled = FALSE
         /\ dialog'.opening = dialog.opening /\ dialog'.stray = dialog.stray
         /\ dialog'.shown = dialog.shown /\ dialog.shown /\ dialog'.index = dialog.index
         /\ dialog' \in [shown : BOOLEAN, index : Rows, enabled : BOOLEAN,
                         opening : 0..MaxOpenings, stray : BOOLEAN]
         /\ replies' \in Seq(ReplyRecord)
         /\ \A k \in DOMAIN replies : k \in DOMAIN replies' /\ replies'[k] = replies[k]
         /\ \A k \in DOMAIN replies' : k \in DOMAIN replies \/ k = Len(replies) + 1
         /\ replies'[Len(replies) + 1] = Reply(from)
         /\ Reply(from).state = "paying" /\ Reply(from).opening = dialog.opening
         /\ Reply(from).row = dialog.index
<1>1. Reply(from) \in ReplyRecord
  <2>1. dialog.opening \in 1 .. MaxOpenings
    BY Types DEF SendReply, OpeningOK
  <2> QED BY <2>1, Types DEF Reply, ReplyRecord
<1>2. dialog.enabled = TRUE /\ dialog.shown /\ dialog' = [dialog EXCEPT !.enabled = FALSE]
  BY Types DEF SendReply
<1>3. dialog \in [shown : BOOLEAN, index : Rows, enabled : BOOLEAN,
                  opening : 0..MaxOpenings, stray : BOOLEAN]
  BY DEF TypeOK
<1>4. /\ dialog'.enabled = FALSE /\ dialog'.opening = dialog.opening
      /\ dialog'.stray = dialog.stray /\ dialog'.shown = dialog.shown
      /\ dialog'.index = dialog.index
      /\ dialog' \in [shown : BOOLEAN, index : Rows, enabled : BOOLEAN,
                      opening : 0..MaxOpenings, stray : BOOLEAN]
  BY <1>2, <1>3
<1>5. Reply(from).state = "paying" /\ Reply(from).opening = dialog.opening
      /\ Reply(from).row = dialog.index
  BY DEF Reply
<1>6. replies' = Append(replies, Reply(from)) /\ UNCHANGED <<button, hides, fetches, server, drawn>>
  BY DEF SendReply
<1>7. replies \in Seq(ReplyRecord)
  BY Types
<1>8. /\ replies'[Len(replies) + 1] = Reply(from) /\ replies' \in Seq(ReplyRecord)
      /\ \A k \in DOMAIN replies : k \in DOMAIN replies' /\ replies'[k] = replies[k]
      /\ \A k \in DOMAIN replies' : k \in DOMAIN replies \/ k = Len(replies) + 1
  BY <1>1, <1>6, <1>7, Appended
<1> QED BY <1>2, <1>4, <1>5, <1>6, <1>8

(* A request for metadata or a list is added, and has read nothing yet. *)
LEMMA FetchAsked ==
  ASSUME TypeOK, NEW kind \in {"metadata", "list"}, NEW rows \in SUBSET Rows, Ask(kind, rows)
  PROVE  /\ UNCHANGED <<button, dialog, replies, hides, server, drawn>>
         /\ fetches' \in Seq(FetchRecord) /\ Len(fetches') = Len(fetches) + 1 /\ Len(fetches) \in Nat
         /\ \A k \in DOMAIN fetches : k \in DOMAIN fetches' /\ fetches'[k] = fetches[k]
         /\ \A k \in DOMAIN fetches' :
              \/ k \in DOMAIN fetches
              \/ /\ fetches'[k].state = "asked" /\ fetches'[k].told = Told
                 /\ \A r \in Rows : fetches'[k].as[r] = "fetch"
<1> DEFINE e == [kind |-> kind, rows |-> rows, state |-> "asked", as |-> [r \in Rows |-> "fetch"],
                 told |-> Told, over |-> {}]
<1>1. Told \subseteq Rows
  BY Types DEF Told
<1>2. /\ e \in FetchRecord /\ e.state = "asked" /\ e.told = Told
      /\ \A r \in Rows : e.as[r] = "fetch"
  BY <1>1 DEF FetchRecord
<1>3. fetches' = Append(fetches, e) /\ UNCHANGED <<button, dialog, replies, hides, server, drawn>>
  BY DEF Ask
<1> HIDE DEF e
<1>4. fetches \in Seq(FetchRecord)
  BY Types
<1>5. /\ fetches'[Len(fetches) + 1] = e /\ fetches' \in Seq(FetchRecord)
      /\ DOMAIN fetches' = 1 .. Len(fetches) + 1 /\ Len(fetches) \in Nat
      /\ \A k \in DOMAIN fetches : k \in DOMAIN fetches' /\ fetches'[k] = fetches[k]
      /\ \A k \in DOMAIN fetches' : k \in DOMAIN fetches \/ k = Len(fetches) + 1
  BY <1>2, <1>3, <1>4, Appended
<1>6. Len(fetches') = Len(fetches) + 1
  BY <1>2, <1>3, <1>4, AppendProperties
<1> QED BY <1>2, <1>3, <1>5, <1>6

(* How a reply goes on: it fails, it is paid, or its answer arrives. *)
Outcome(n) ==
  LET r == replies[n].row
  IN
  \/ /\ Fail(n) /\ replies'[n].state = "failed"
     /\ button' = button
  \/ /\ replies'[n].state \in {"marking", "answered"} /\ paid'[r] > 0
     /\ dialog' = dialog /\ button' = button
  \/ /\ replies'[n].state = "done" /\ replies[n].state = "answered" /\ paid[r] > 0
     /\ UNCHANGED <<dialog, server>>
     /\ button' = [button EXCEPT ![r] = IF @ = "gone" THEN @ ELSE "replied"]

(* Every step of a reply is one of these outcomes. *)
LEMMA ReplyGoesOn ==
  ASSUME TypeOK, PaidOK, NEW n \in DOMAIN replies, Goes(n)
  PROVE  /\ replies[n].state \in {"paying", "marking", "answered"} /\ replies[n].row \in Rows
         /\ UNCHANGED <<fetches, resolved, drawn>> /\ DOMAIN replies' = DOMAIN replies
         /\ hides' \in Nat /\ replies' \in Seq(ReplyRecord)
         /\ replies'[n].row = replies[n].row /\ replies'[n].opening = replies[n].opening
         /\ \A k \in DOMAIN replies : k # n => replies'[k] = replies[k]
         /\ Outcome(n)
         /\ paid' \in [Rows -> Nat] /\ replySent' \in [Rows -> BOOLEAN]
         /\ \A q \in Rows : /\ paid'[q] >= paid[q]
                            /\ q # replies[n].row => paid'[q] = paid[q]
         /\ \A q \in Rows : replySent'[q] => replySent[q] \/ (q = replies[n].row /\ paid'[q] > 0)
         /\ \A q \in Rows : Kept(q) => Kept(q)'
         /\ unstored \subseteq unstored' /\ unstored' \subseteq Rows
         /\ replies'[n].state = "answered" =>
              replySent'[replies[n].row] \/ replies[n].row \in unstored'
<1> DEFINE r == replies[n].row
<1> USE DEF Goes
<1>1. /\ replies[n] \in ReplyRecord /\ r \in Rows /\ unstored \subseteq Rows /\ hides \in Nat
      /\ paid \in [Rows -> Nat] /\ replySent \in [Rows -> BOOLEAN]
  BY Types DEF TypeOK, ReplyRecord
<1>2. \E s \in {"marking", "answered", "done", "failed"} :
        replies' = [replies EXCEPT ![n].state = s]
  BY DEF AddressFails, BrowserPays, MarkReplied, NodePays, Replied, Fail
<1>3. /\ DOMAIN replies' = DOMAIN replies /\ replies' \in Seq(ReplyRecord)
      /\ replies'[n].row = r /\ replies'[n].opening = replies[n].opening
      /\ \A k \in DOMAIN replies : k # n => replies'[k] = replies[k]
  BY <1>2, ReplyMoves, Types
<1>4. ASSUME NEW s \in {"marking", "answered", "done", "failed"},
             replies' = [replies EXCEPT ![n].state = s]
      PROVE  replies'[n].state = s
  BY <1>4, ReplyMoves, Types
<1>5. /\ replies[n].state \in {"paying", "marking", "answered"}
      /\ UNCHANGED <<fetches, resolved, drawn>> /\ hides' \in Nat
  <2>1. hides' \in {hides, hides + 1}
    BY DEF AddressFails, BrowserPays, MarkReplied, NodePays, Replied, Fail
  <2>2. replies[n].state \in {"paying", "marking", "answered"} /\ UNCHANGED <<fetches, resolved, drawn>>
    BY DEF AddressFails, BrowserPays, MarkReplied, NodePays, Replied, Fail, server
  <2> QED BY <1>1, <2>1, <2>2
<1>6. replies[n].state \in {"marking", "answered"} => paid[r] > 0
  BY DEF PaidOK
<1>7. \/ paid' = paid
      \/ \E k \in {0, 1} : paid' = [paid EXCEPT ![r] = @ + k]
  BY DEF AddressFails, BrowserPays, MarkReplied, NodePays, Replied, server
<1>8. /\ paid' \in [Rows -> Nat]
      /\ \A q \in Rows : paid'[q] >= paid[q] /\ (q # r => paid'[q] = paid[q])
  <2> HIDE DEF r
  <2>1. CASE paid' = paid
    BY <1>1, <2>1
  <2>2. ASSUME NEW k \in {0, 1}, paid' = [paid EXCEPT ![r] = @ + k]
        PROVE  /\ paid' \in [Rows -> Nat]
               /\ \A q \in Rows : paid'[q] >= paid[q] /\ (q # r => paid'[q] = paid[q])
    <3>1. \A q \in Rows : paid'[q] = IF q = r THEN paid[q] + k ELSE paid[q]
      BY <1>1, <2>2
    <3>2. \A q \in Rows : paid[q] \in Nat /\ paid'[q] \in Nat
      BY <1>1, <3>1
    <3> QED BY <1>1, <2>2, <3>1, <3>2
  <2> QED BY <1>7, <2>1, <2>2
<1>9. Fail(n) => Outcome(n)
  BY <1>4 DEF Fail, Outcome
<1>10. CASE AddressFails(n)
  <2>1. Fail(n) /\ UNCHANGED <<replySent, unstored>>
    BY <1>10 DEF AddressFails, server
  <2>2. replies'[n].state = "failed"
    BY <1>4, <2>1 DEF Fail
  <2> QED BY <1>3, <1>5, <1>8, <1>9, <2>1, <2>2, <1>1 DEF Kept
<1>11. CASE BrowserPays(n)
  <2>1. UNCHANGED <<replySent, unstored>>
    BY <1>11 DEF BrowserPays
  <2>2. CASE Fail(n)
    <3>1. replies'[n].state = "failed"
      BY <1>4, <2>2 DEF Fail
    <3> QED BY <1>1, <1>3, <1>5, <1>8, <1>9, <2>1, <2>2, <3>1 DEF Kept
  <2>3. CASE /\ paid' = [paid EXCEPT ![r] = @ + 1]
             /\ replies' = [replies EXCEPT ![n].state = "marking"]
             /\ UNCHANGED <<button, dialog, hides, fetches, drawn>>
    <3>1. paid'[r] > 0
      BY <1>1, <2>3
    <3>2. replies'[n].state = "marking"
      BY <1>4, <2>3
    <3>3. Outcome(n)
      BY <2>3, <3>1, <3>2 DEF Outcome
    <3> QED BY <1>1, <1>3, <1>5, <1>8, <2>1, <3>2, <3>3 DEF Kept
  <2> QED BY <1>11, <2>2, <2>3 DEF BrowserPays
<1>12. CASE MarkReplied(n)
  <2>1. UNCHANGED <<paid, unstored>> /\ paid[r] > 0
    BY <1>6, <1>12 DEF MarkReplied
  <2>2. replySent' = replySent \/ replySent' = [replySent EXCEPT ![r] = TRUE]
    BY <1>12 DEF MarkReplied
  <2>3. /\ \A q \in Rows : replySent'[q] => replySent[q] \/ (q = r /\ paid'[q] > 0)
        /\ \A q \in Rows : replySent[q] => replySent'[q]
        /\ replySent' \in [Rows -> BOOLEAN]
    BY <1>1, <2>1, <2>2
  <2>4. Outcome(n) /\ (replies'[n].state = "answered" => replySent'[r])
    <3>1. CASE Fail(n)
      <4>1. replies'[n].state = "failed"
        BY <1>4, <3>1 DEF Fail
      <4> QED BY <1>9, <3>1, <4>1
    <3>2. CASE /\ replies' = [replies EXCEPT ![n].state = "answered"]
               /\ replySent' = [replySent EXCEPT ![replies[n].row] = TRUE]
               /\ UNCHANGED <<button, dialog, hides, fetches, drawn>>
      BY <1>1, <1>4, <2>1, <3>2 DEF Outcome
    <3> QED BY <1>12, <3>1, <3>2 DEF MarkReplied
  <2> QED BY <1>1, <1>3, <1>5, <1>8, <2>1, <2>3, <2>4 DEF Kept
<1>13. CASE NodePays(n)
  <2>1. CASE Fail(n) /\ UNCHANGED <<replySent, unstored>>
    <3>1. replies'[n].state = "failed"
      BY <1>4, <2>1 DEF Fail
    <3> QED BY <1>1, <1>3, <1>5, <1>8, <1>9, <2>1, <3>1 DEF Kept
  <2>2. ASSUME NEW stored \in BOOLEAN,
               paid' = [paid EXCEPT ![r] = @ + 1],
               replySent' = [replySent EXCEPT ![r] = @ \/ stored],
               unstored' = IF stored THEN unstored ELSE unstored \cup {r},
               \/ /\ replies' = [replies EXCEPT ![n].state = "answered"]
                  /\ UNCHANGED <<button, dialog, hides, fetches, drawn>>
               \/ Fail(n)
        PROVE  /\ Outcome(n)
               /\ replySent' \in [Rows -> BOOLEAN]
               /\ \A q \in Rows : replySent'[q] => replySent[q] \/ (q = r /\ paid'[q] > 0)
               /\ \A q \in Rows : Kept(q) => Kept(q)'
               /\ unstored \subseteq unstored' /\ unstored' \subseteq Rows
               /\ replySent'[r] \/ r \in unstored'
    <3>1. paid'[r] > 0
      BY <1>1, <2>2
    <3>2. Outcome(n)
      <4>1. CASE Fail(n)
        BY <1>9, <4>1
      <4>2. CASE /\ replies' = [replies EXCEPT ![n].state = "answered"]
                 /\ UNCHANGED <<button, dialog, hides, fetches, drawn>>
        BY <1>4, <3>1, <4>2 DEF Outcome
      <4> QED BY <2>2, <4>1, <4>2
    <3>3. \A q \in Rows : q # r => replySent'[q] = replySent[q]
      BY <1>1, <2>2
    <3>4. /\ replySent[r] \/ stored => replySent'[r]
          /\ replySent' \in [Rows -> BOOLEAN]
      BY <1>1, <2>2
    <3>5. unstored \subseteq unstored' /\ unstored' \subseteq Rows /\ (stored \/ r \in unstored')
      BY <1>1, <2>2
    <3>6. \A q \in Rows : replySent'[q] => replySent[q] \/ (q = r /\ paid'[q] > 0)
      BY <3>1, <3>3
    <3>7. \A q \in Rows : replySent[q] => replySent'[q]
      BY <3>3, <3>4
    <3>8. \A q \in Rows : Kept(q) => Kept(q)'
      BY <3>5, <3>7, Zenon DEF Kept
    <3>9. replySent'[r] \/ r \in unstored'
      BY <3>4, <3>5
    <3> HIDE DEF r
    <3> QED BY <3>2, <3>4, <3>5, <3>6, <3>8, <3>9
  <2>3. \/ Fail(n) /\ UNCHANGED <<replySent, unstored>>
        \/ \E stored \in BOOLEAN :
             /\ paid' = [paid EXCEPT ![r] = @ + 1]
             /\ replySent' = [replySent EXCEPT ![r] = @ \/ stored]
             /\ unstored' = IF stored THEN unstored ELSE unstored \cup {r}
             /\ \/ /\ replies' = [replies EXCEPT ![n].state = "answered"]
                   /\ UNCHANGED <<button, dialog, hides, fetches, drawn>>
                \/ Fail(n)
    BY <1>13 DEF NodePays
  <2> HIDE DEF r
  <2> QED BY <1>1, <1>3, <1>5, <1>8, <2>1, <2>2, <2>3 DEF r
<1>14. CASE Replied(n)
  <2>1. UNCHANGED server /\ paid[r] > 0 /\ replies[n].state = "answered"
    BY <1>6, <1>14 DEF Replied
  <2>2. replies'[n].state = "done"
    BY <1>4, <1>14 DEF Replied
  <2>3. Outcome(n)
    BY <1>14, <2>1, <2>2 DEF Replied, Outcome, RenderReplyButton
  <2> QED BY <1>1, <1>3, <1>5, <1>8, <2>1, <2>2, <2>3 DEF Kept, server
<1> QED BY <1>10, <1>11, <1>12, <1>13, <1>14

----------------------------------------------------------------------------
(* How a request goes on: it reads, it draws, or it ends or stores what it *)
(* has read without drawing anything.                                      *)
Reads(f) ==
  /\ fetches[f].state = "asked" /\ fetches'[f].state = "read"
  /\ UNCHANGED <<button, resolved, drawn>>
  /\ \A r \in Rows : fetches'[f].as[r] = IF fetches[f].kind = "metadata"
                                         THEN RenderReplyButton(replySent[r]) ELSE Offered(r)

Draws(f) ==
  /\ fetches[f].state \in {"read", "stored"} /\ fetches'[f].state = "done"
  /\ fetches'[f].as = fetches[f].as /\ resolved' = resolved
  /\ \E rows \in SUBSET Rows :
       /\ fetches[f].state = "stored" => rows = fetches[f].rows
       /\ fetches[f].state = "read" => fetches[f].kind = "list"
       /\ fetches'[f].over = rows \cap Told
       /\ \A r \in Rows : /\ button'[r] = IF r \in rows THEN fetches[f].as[r] ELSE button[r]
                          /\ drawn'[r] = IF r \in rows THEN f ELSE drawn[r]

Ends(f) ==
  /\ fetches'[f].as = fetches[f].as /\ fetches'[f].over = fetches[f].over /\ drawn' = drawn
  /\ \/ /\ fetches[f].state = "read" /\ fetches'[f].state = "stored"
        /\ resolved' = resolved \cup fetches[f].rows
     \/ /\ fetches'[f].state \in {"done", "failed"} /\ resolved' = resolved
        /\ fetches'[f].state = "done" => fetches[f].state = "stored"
  /\ \A r \in Rows : button'[r] = button[r] \/ button'[r] = "gone"

LEMMA FetchGoesOn ==
  ASSUME TypeOK, NEW f \in DOMAIN fetches, Fetches(f)
  PROVE  /\ fetches[f].state \in {"asked", "read", "stored"}
         /\ UNCHANGED <<dialog, replies, hides, paid, replySent, unstored>>
         /\ fetches' \in Seq(FetchRecord) /\ Len(fetches') = Len(fetches)
         /\ DOMAIN fetches' = DOMAIN fetches
         /\ fetches'[f].kind = fetches[f].kind /\ fetches'[f].rows = fetches[f].rows
         /\ fetches'[f].told = fetches[f].told
         /\ \A k \in DOMAIN fetches : k # f => fetches'[k] = fetches[k]
         /\ button' \in Buttons /\ resolved \subseteq resolved' /\ resolved' \subseteq Rows
         /\ drawn' \in [Rows -> 0 .. Len(fetches)]
         /\ Reads(f) \/ Draws(f) \/ Ends(f)
<1>1. /\ fetches[f] \in FetchRecord /\ fetches \in Seq(FetchRecord) /\ button \in Buttons
      /\ fetches[f].as \in [Rows -> {"fetch", "reply", "replied"}]
      /\ fetches[f].rows \subseteq Rows /\ fetches[f].told \subseteq Rows
      /\ replySent \in [Rows -> BOOLEAN] /\ resolved \subseteq Rows
      /\ drawn \in [Rows -> 0 .. Len(fetches)] /\ Told \subseteq Rows
      /\ f \in 0 .. Len(fetches)
  <2>1. f \in 0 .. Len(fetches)
    BY Types, LenProperties
  <2>2. Told \subseteq Rows
    BY Types DEF Told
  <2>3. /\ fetches[f] \in FetchRecord /\ fetches \in Seq(FetchRecord) /\ button \in Buttons
        /\ fetches[f].as \in [Rows -> {"fetch", "reply", "replied"}]
        /\ fetches[f].rows \subseteq Rows /\ fetches[f].told \subseteq Rows
    BY Types
  <2>4. /\ replySent \in [Rows -> BOOLEAN] /\ resolved \subseteq Rows
        /\ drawn \in [Rows -> 0 .. Len(fetches)]
    BY DEF TypeOK
  <2> QED BY <2>1, <2>2, <2>3, <2>4
<1>a. fetches[f] = [kind |-> fetches[f].kind, rows |-> fetches[f].rows, state |-> fetches[f].state,
                    as |-> fetches[f].as, told |-> fetches[f].told, over |-> fetches[f].over]
      /\ fetches[f].kind \in {"metadata", "list"} /\ fetches[f].over \subseteq Rows
  BY <1>1 DEF FetchRecord
<1> DEFINE Turned(s, as, over) == [fetches[f] EXCEPT !.state = s, !.as = as, !.over = over]
<1>2. ASSUME NEW s \in {"asked", "read", "stored", "done", "failed"}, NEW over \in SUBSET Rows,
             NEW as \in [Rows -> {"fetch", "reply", "replied"}],
             fetches' = [fetches EXCEPT ![f] = Turned(s, as, over)]
      PROVE  /\ fetches' \in Seq(FetchRecord) /\ DOMAIN fetches' = DOMAIN fetches
             /\ Len(fetches') = Len(fetches)
             /\ fetches'[f].kind = fetches[f].kind /\ fetches'[f].rows = fetches[f].rows
             /\ fetches'[f].told = fetches[f].told
             /\ fetches'[f].state = s /\ fetches'[f].as = as /\ fetches'[f].over = over
             /\ \A k \in DOMAIN fetches : k # f => fetches'[k] = fetches[k]
  <2> DEFINE e == Turned(s, as, over)
  <2>1. /\ e \in FetchRecord /\ e.kind = fetches[f].kind /\ e.rows = fetches[f].rows
        /\ e.told = fetches[f].told /\ e.state = s /\ e.as = as /\ e.over = over
    BY <1>1 DEF FetchRecord
  <2>2. fetches' = [fetches EXCEPT ![f] = e]
    BY <1>2
  <2> HIDE DEF e, Turned
  <2>3. fetches \in Seq(FetchRecord)
    BY <1>1
  <2>4. /\ fetches' \in Seq(FetchRecord) /\ DOMAIN fetches' = DOMAIN fetches
        /\ fetches'[f] = e
        /\ \A k \in DOMAIN fetches : k # f => fetches'[k] = fetches[k]
    BY <2>1, <2>2, <2>3, FetchMoves
  <2>5. Len(fetches') = Len(fetches)
    <3>1. DOMAIN fetches = 1 .. Len(fetches) /\ DOMAIN fetches' = 1 .. Len(fetches')
          /\ Len(fetches) \in Nat /\ Len(fetches') \in Nat
      BY <2>3, <2>4, LenProperties
    <3> QED BY <2>4, <3>1
  <2> QED BY <2>1, <2>4, <2>5
<1>3. CASE ReadBoosts(f)
  <2> DEFINE as == [r \in Rows |-> IF fetches[f].kind = "metadata"
                                   THEN RenderReplyButton(replySent[r]) ELSE Offered(r)]
  <2>1. as \in [Rows -> {"fetch", "reply", "replied"}]
    BY DEF RenderReplyButton, Offered
  <2>2. fetches' = [fetches EXCEPT ![f] = Turned("read", as, fetches[f].over)]
    BY <1>3, <1>a DEF ReadBoosts
  <2>3. /\ fetches[f].state = "asked"
        /\ UNCHANGED <<button, dialog, replies, hides, server, drawn>>
    BY <1>3 DEF ReadBoosts
  <2>4. \A r \in Rows : as[r] = IF fetches[f].kind = "metadata"
                                THEN RenderReplyButton(replySent[r]) ELSE Offered(r)
    OBVIOUS
  <2> HIDE DEF as, Turned
  <2>5. /\ fetches'[f].as = as /\ fetches'[f].state = "read"
        /\ fetches' \in Seq(FetchRecord) /\ DOMAIN fetches' = DOMAIN fetches
        /\ Len(fetches') = Len(fetches)
        /\ fetches'[f].kind = fetches[f].kind /\ fetches'[f].rows = fetches[f].rows
        /\ fetches'[f].told = fetches[f].told
        /\ \A k \in DOMAIN fetches : k # f => fetches'[k] = fetches[k]
    BY <1>2, <1>a, <2>1, <2>2
  <2>6. Reads(f)
    BY <2>3, <2>4, <2>5 DEF Reads, server
  <2> QED BY <1>1, <2>3, <2>5, <2>6 DEF server
<1>4. ASSUME NEW s \in {"stored", "done", "failed"},
             fetches' = [fetches EXCEPT ![f].state = s]
      PROVE  /\ fetches'[f].as = fetches[f].as /\ fetches'[f].state = s
             /\ fetches'[f].over = fetches[f].over
             /\ fetches' \in Seq(FetchRecord) /\ DOMAIN fetches' = DOMAIN fetches
             /\ Len(fetches') = Len(fetches)
             /\ fetches'[f].kind = fetches[f].kind /\ fetches'[f].rows = fetches[f].rows
             /\ fetches'[f].told = fetches[f].told
             /\ \A k \in DOMAIN fetches : k # f => fetches'[k] = fetches[k]
  <2>1. fetches' = [fetches EXCEPT ![f] = Turned(s, fetches[f].as, fetches[f].over)]
    BY <1>4, <1>a
  <2>2. s \in {"asked", "read", "stored", "done", "failed"} /\ fetches[f].over \in SUBSET Rows
        /\ fetches[f].as \in [Rows -> {"fetch", "reply", "replied"}]
    BY <1>1, <1>a
  <2> HIDE DEF Turned
  <2> QED BY <1>2, <2>1, <2>2
<1>5. CASE UpdateInvoice(f)
  <2>1. /\ fetches[f].state = "read" /\ fetches' = [fetches EXCEPT ![f].state = "stored"]
        /\ resolved' = resolved \cup fetches[f].rows
        /\ UNCHANGED <<button, dialog, replies, hides, paid, replySent, unstored, drawn>>
    BY <1>5 DEF UpdateInvoice
  <2>2. Ends(f)
    BY <1>4, <2>1 DEF Ends
  <2> QED BY <1>1, <1>4, <2>1, <2>2
<1>6. CASE MetadataFails(f)
  <2>1. /\ fetches[f].state \in {"asked", "read", "stored"}
        /\ fetches' = [fetches EXCEPT ![f].state = "failed"]
        /\ UNCHANGED <<button, dialog, replies, hides, server, drawn>>
    BY <1>6 DEF MetadataFails
  <2>2. Ends(f)
    BY <1>4, <2>1 DEF Ends, server
  <2> QED BY <1>1, <1>4, <2>1, <2>2 DEF server
<1>7. ASSUME NEW rows \in SUBSET Rows, Draw(f, rows), fetches[f].state \in {"read", "stored"},
             fetches[f].state = "stored" => rows = fetches[f].rows,
             fetches[f].state = "read" => fetches[f].kind = "list"
      PROVE  /\ UNCHANGED <<dialog, replies, hides, paid, replySent, unstored>>
             /\ fetches' \in Seq(FetchRecord) /\ DOMAIN fetches' = DOMAIN fetches
             /\ Len(fetches') = Len(fetches)
             /\ fetches'[f].kind = fetches[f].kind /\ fetches'[f].rows = fetches[f].rows
             /\ fetches'[f].told = fetches[f].told
             /\ \A k \in DOMAIN fetches : k # f => fetches'[k] = fetches[k]
             /\ button' \in Buttons /\ resolved \subseteq resolved' /\ resolved' \subseteq Rows
             /\ drawn' \in [Rows -> 0 .. Len(fetches)]
             /\ Draws(f)
  <2>1. rows \cap Told \in SUBSET Rows
    OBVIOUS
  <2>2. fetches' = [fetches EXCEPT ![f] = Turned("done", fetches[f].as, rows \cap Told)]
    BY <1>7, <1>a DEF Draw
  <2>3. /\ fetches'[f].as = fetches[f].as /\ fetches'[f].state = "done"
        /\ fetches'[f].over = rows \cap Told
        /\ fetches' \in Seq(FetchRecord) /\ DOMAIN fetches' = DOMAIN fetches
        /\ Len(fetches') = Len(fetches)
        /\ fetches'[f].kind = fetches[f].kind /\ fetches'[f].rows = fetches[f].rows
        /\ fetches'[f].told = fetches[f].told
        /\ \A k \in DOMAIN fetches : k # f => fetches'[k] = fetches[k]
    BY <1>1, <1>2, <2>1, <2>2
  <2>4. /\ button' = [r \in Rows |-> IF r \in rows THEN fetches[f].as[r] ELSE button[r]]
        /\ drawn' = [r \in Rows |-> IF r \in rows THEN f ELSE drawn[r]]
        /\ UNCHANGED <<dialog, replies, hides, server>>
    BY <1>7 DEF Draw
  <2>5. button' \in Buttons
    BY <1>1, <2>4 DEF Buttons
  <2>6. drawn' \in [Rows -> 0 .. Len(fetches)]
    BY <1>1, <2>4
  <2>7. Draws(f)
    BY <1>7, <2>3, <2>4 DEF Draws, server
  <2> QED BY <1>1, <2>3, <2>4, <2>5, <2>6, <2>7 DEF server
<1>8. CASE MetadataFetched(f)
  <2>1. CASE Draw(f, fetches[f].rows)
    BY <1>1, <1>7, <1>8, <2>1 DEF MetadataFetched
  <2>2. CASE /\ fetches' = [fetches EXCEPT ![f].state = "done"]
             /\ button' = [r \in Rows |-> IF r \in fetches[f].rows THEN "gone" ELSE button[r]]
             /\ UNCHANGED <<dialog, replies, hides, server, drawn>>
    <3>1. fetches[f].state = "stored"
      BY <1>8 DEF MetadataFetched
    <3>2. button' \in Buttons /\ \A r \in Rows : button'[r] = button[r] \/ button'[r] = "gone"
      BY <1>1, <2>2 DEF Buttons
    <3>3. Ends(f)
      BY <1>4, <2>2, <3>1, <3>2 DEF Ends, server
    <3> QED BY <1>1, <1>4, <2>2, <3>1, <3>2, <3>3 DEF server
  <2> QED BY <1>8, <2>1, <2>2 DEF MetadataFetched
<1>9. CASE ListFetched(f)
  <2>1. PICK rows \in SUBSET Rows : Draw(f, rows)
    BY <1>9 DEF ListFetched
  <2>2. fetches[f].state = "read" /\ fetches[f].kind = "list"
    BY <1>9 DEF ListFetched
  <2> QED BY <1>7, <2>1, <2>2
<1> QED BY <1>3, <1>5, <1>6, <1>8, <1>9 DEF Fetches

----------------------------------------------------------------------------
(* Every step keeps the types. *)
LEMMA DialogTypes ==
  ASSUME TypeOK, PaidOK, OpeningOK, DialogNext
  PROVE  TypeOK'
<1> USE Types
<1>0. MaxOpenings \in Nat /\ dialog.opening \in 0 .. MaxOpenings /\ hides \in Nat
  BY DEF TypeOK
<1>a. /\ button \in Buttons
      /\ dialog \in [shown : BOOLEAN, index : Rows, enabled : BOOLEAN,
                     opening : 0..MaxOpenings, stray : BOOLEAN]
  BY DEF TypeOK
<1>1. ASSUME Idle
      PROVE  TypeOK'
  <2>1. dialog' \in [shown : BOOLEAN, index : Rows, enabled : BOOLEAN,
                     opening : 0..MaxOpenings, stray : BOOLEAN]
    <3>1. ASSUME NEW r \in Rows, ShowDialog(r)
          PROVE  dialog' \in [shown : BOOLEAN, index : Rows, enabled : BOOLEAN,
                              opening : 0..MaxOpenings, stray : BOOLEAN]
      <4>1. dialog' = [shown |-> TRUE, index |-> r, enabled |-> TRUE,
                       opening |-> dialog.opening + 1, stray |-> FALSE]
            /\ dialog.opening < MaxOpenings
        BY <3>1 DEF ShowDialog
      <4>2. dialog.opening + 1 \in 0 .. MaxOpenings
        BY <1>0, <4>1
      <4> QED BY <4>1, <4>2
    <3>2. CASE CloseDialog \/ HideDialog
      <4>1. dialog' = [dialog EXCEPT !.shown = FALSE]
        BY <3>2 DEF CloseDialog, HideDialog
      <4> QED BY <1>a, <4>1
    <3> QED BY <1>1, <3>1, <3>2 DEF Idle
  <2>2. hides' \in Nat
    BY <1>0, <1>1 DEF Idle, CloseDialog, HideDialog, ShowDialog
  <2>3. UNCHANGED <<button, replies, fetches, server, drawn>>
    BY <1>1 DEF Idle, CloseDialog, HideDialog, ShowDialog
  <2> QED BY <2>1, <2>2, <2>3 DEF TypeOK, server
<1>2. ASSUME NEW from \in {"node", "browser"}, SendReply(from)
      PROVE  TypeOK'
  BY <1>2, ReplySent DEF TypeOK, ReplyRecord, server
<1>3. ASSUME NEW n \in DOMAIN replies, Goes(n)
      PROVE  TypeOK'
  <2>1. dialog' \in [shown : BOOLEAN, index : Rows, enabled : BOOLEAN,
                     opening : 0..MaxOpenings, stray : BOOLEAN]
    <3>1. dialog' = dialog \/ Fail(n)
      BY <1>3 DEF Goes, AddressFails, BrowserPays, MarkReplied, NodePays, Replied
    <3> QED BY <1>3, <1>a, <3>1, Failing
  <2>2. button' \in Buttons
    BY <1>3, <1>a, ReplyGoesOn DEF Outcome, Buttons
  <2>3. /\ replies' \in Seq(ReplyRecord) /\ hides' \in Nat /\ paid' \in [Rows -> Nat]
        /\ replySent' \in [Rows -> BOOLEAN] /\ unstored' \subseteq Rows
        /\ UNCHANGED <<fetches, resolved, drawn>>
    BY <1>3, ReplyGoesOn
  <2> QED BY <2>1, <2>2, <2>3 DEF TypeOK, ReplyRecord, Buttons
<1>4. ASSUME NEW kind \in {"metadata", "list"}, NEW rows \in SUBSET Rows, Ask(kind, rows)
      PROVE  TypeOK'
  <2>1. /\ UNCHANGED <<button, dialog, replies, hides, server, drawn>>
        /\ fetches' \in Seq(FetchRecord) /\ Len(fetches') = Len(fetches) + 1 /\ Len(fetches) \in Nat
    BY <1>4, FetchAsked
  <2>2. drawn' \in [Rows -> 0 .. Len(fetches')]
    BY <2>1 DEF TypeOK
  <2> QED BY <2>1, <2>2 DEF TypeOK, FetchRecord, server
<1>5. ASSUME NEW f \in DOMAIN fetches, Fetches(f)
      PROVE  TypeOK'
  <2>1. /\ UNCHANGED <<dialog, replies, hides, paid, replySent, unstored>>
        /\ fetches' \in Seq(FetchRecord) /\ Len(fetches') = Len(fetches)
        /\ button' \in Buttons /\ resolved' \subseteq Rows
        /\ drawn' \in [Rows -> 0 .. Len(fetches)]
    BY <1>5, FetchGoesOn
  <2> QED BY <2>1 DEF TypeOK, FetchRecord, Buttons
<1>6. CASE ChangeFilter
  <2>1. button' \in Buttons
    BY <1>6 DEF ChangeFilter, Buttons
  <2> QED BY <1>6, <2>1 DEF ChangeFilter, TypeOK, Buttons, server
<1> QED BY <1>1, <1>2, <1>3, <1>4, <1>5, <1>6, StepKinds

(* Every step shows and records only replies that were paid. *)
LEMMA PaidStep ==
  ASSUME DialogInv, DialogNext
  PROVE  PaidOK'
<1>0. /\ TypeOK /\ PaidOK /\ OpeningOK /\ button \in Buttons
      /\ \A k \in DOMAIN replies : replies[k].row \in Rows
  BY Types DEF DialogInv
<1>1. CASE Idle \/ ChangeFilter
  <2>1. /\ UNCHANGED <<replies, fetches, paid, replySent>>
        /\ \A r \in Rows : button'[r] = "replied" => button[r] = "replied"
    BY <1>0, <1>1 DEF Idle, CloseDialog, HideDialog, ShowDialog, ChangeFilter, server
  <2> QED BY <1>0, <2>1 DEF PaidOK
<1>2. ASSUME NEW from \in {"node", "browser"}, SendReply(from)
      PROVE  PaidOK'
  <2>1. UNCHANGED <<button, fetches, paid, replySent>>
    BY <1>0, <1>2, ReplySent DEF server
  <2>2. \A k \in DOMAIN replies' :
          (k \in DOMAIN replies /\ replies'[k] = replies[k]) \/ replies'[k].state = "paying"
    BY <1>0, <1>2, ReplySent
  <2> QED BY <1>0, <2>1, <2>2 DEF PaidOK
<1>3. ASSUME NEW kind \in {"metadata", "list"}, NEW rows \in SUBSET Rows, Ask(kind, rows)
      PROVE  PaidOK'
  <2>1. UNCHANGED <<button, replies, paid, replySent>>
    BY <1>0, <1>3, FetchAsked DEF server
  <2>2. \A k \in DOMAIN fetches', r \in Rows :
          (k \in DOMAIN fetches /\ fetches'[k] = fetches[k]) \/ fetches'[k].as[r] = "fetch"
    BY <1>0, <1>3, FetchAsked
  <2> QED BY <1>0, <2>1, <2>2 DEF PaidOK
<1>4. ASSUME NEW n \in DOMAIN replies, Goes(n)
      PROVE  PaidOK'
  <2>1. \A q \in Rows : paid[q] > 0 => paid'[q] > 0
    <3>1. \A q \in Rows : paid'[q] >= paid[q] /\ paid[q] \in Nat /\ paid'[q] \in Nat
      BY <1>0, <1>4, ReplyGoesOn, Types
    <3> QED BY <3>1
  <2>2. Outcome(n) /\ fetches' = fetches /\ DOMAIN replies' = DOMAIN replies
        /\ replies'[n].row = replies[n].row
        /\ \A k \in DOMAIN replies : k # n => replies'[k] = replies[k]
    BY <1>0, <1>4, ReplyGoesOn
  <2>3. \A q \in Rows : replySent'[q] => replySent[q] \/ paid'[q] > 0
    BY <1>0, <1>4, ReplyGoesOn
  <2>4. replies'[n].state \in {"marking", "answered", "done"} => paid'[replies[n].row] > 0
    BY <1>0, <2>1, <2>2 DEF Outcome
  <2>5. ASSUME NEW k \in DOMAIN replies', replies'[k].state \in {"marking", "answered", "done"}
        PROVE  paid'[replies'[k].row] > 0
    <3>1. CASE k = n
      BY <2>2, <2>4, <2>5, <3>1
    <3>2. CASE k # n
      BY <1>0, <2>1, <2>2, <2>5, <3>2 DEF PaidOK
    <3> QED BY <3>1, <3>2
  <2>6. \A f \in DOMAIN fetches', r \in Rows : fetches'[f].as[r] = "replied" => paid'[r] > 0
    BY <1>0, <2>1, <2>2 DEF PaidOK
  <2>7. \A q \in Rows : button'[q] = "replied" => button[q] = "replied" \/ paid'[q] > 0
    BY <1>0, <2>1, <2>2 DEF Outcome, Buttons
  <2>8. \A q \in Rows : button'[q] = "replied" \/ replySent'[q] => paid'[q] > 0
    BY <1>0, <2>1, <2>3, <2>7 DEF PaidOK
  <2> QED BY <2>5, <2>6, <2>8 DEF PaidOK
<1>5. ASSUME NEW f \in DOMAIN fetches, Fetches(f)
      PROVE  PaidOK'
  <2>1. /\ UNCHANGED <<replies, paid, replySent>> /\ DOMAIN fetches' = DOMAIN fetches
        /\ \A k \in DOMAIN fetches : k # f => fetches'[k] = fetches[k]
        /\ Reads(f) \/ Draws(f) \/ Ends(f)
    BY <1>0, <1>5, FetchGoesOn
  <2>2. \A r \in Rows : fetches'[f].as[r] = "replied" => fetches[f].as[r] = "replied" \/ replySent[r]
    BY <2>1 DEF Reads, Draws, Ends, RenderReplyButton, Offered
  <2>3. \A k \in DOMAIN fetches', r \in Rows : fetches'[k].as[r] = "replied" => paid[r] > 0
    BY <1>0, <2>1, <2>2 DEF PaidOK
  <2>4. \A r \in Rows : button'[r] = "replied" => button[r] = "replied" \/ fetches[f].as[r] = "replied"
    BY <2>1 DEF Reads, Draws, Ends
  <2> QED BY <1>0, <2>1, <2>3, <2>4 DEF PaidOK
<1> QED BY <1>1, <1>2, <1>3, <1>4, <1>5, StepKinds

(* Every step keeps an opening to the one reply its button has sent. *)
LEMMA OpeningStep ==
  ASSUME DialogInv, DialogNext, TypeOK'
  PROVE  OpeningOK'
<1>0. /\ TypeOK /\ PaidOK /\ OpeningOK /\ dialog.opening \in Nat
      /\ dialog.enabled \in BOOLEAN /\ dialog.stray \in BOOLEAN
      /\ \A n \in DOMAIN replies : replies[n].opening \in Nat
  BY Types DEF DialogInv, ReplyRecord
<1>1. ASSUME CloseDialog \/ HideDialog
      PROVE  OpeningOK'
  <2>1. dialog' = [dialog EXCEPT !.shown = FALSE] /\ replies' = replies
    BY <1>1 DEF CloseDialog, HideDialog
  <2>2. /\ dialog'.shown = FALSE /\ dialog'.opening = dialog.opening
        /\ dialog'.enabled = dialog.enabled /\ dialog'.stray = dialog.stray
    BY <1>0, <2>1 DEF TypeOK
  <2> QED BY <1>0, <2>1, <2>2 DEF OpeningOK, OncePerOpening, Current
<1>2. ASSUME NEW r \in Rows, ShowDialog(r)
      PROVE  OpeningOK'
  <2>1. dialog'.opening = dialog.opening + 1 /\ replies' = replies
    BY <1>2 DEF ShowDialog
  <2>2. \A n \in DOMAIN replies : replies[n].opening < dialog'.opening
    BY <1>0, <2>1 DEF OpeningOK
  <2>3. \A n \in DOMAIN replies : ~(replies[n].opening = dialog'.opening)
    BY <1>0, <2>1, <2>2
  <2>4. dialog'.opening > 0 /\ \A n \in DOMAIN replies : replies[n].opening <= dialog'.opening
    BY <1>0, <2>1, <2>2
  <2> QED BY <2>1, <2>3, <2>4 DEF OpeningOK, OncePerOpening, Current
<1>3. CASE ChangeFilter \/ \E kind \in {"metadata", "list"}, rows \in SUBSET Rows : Ask(kind, rows)
  BY <1>0, <1>3 DEF ChangeFilter, Ask, OpeningOK, OncePerOpening, Current
<1>4. ASSUME NEW f \in DOMAIN fetches, Fetches(f)
      PROVE  OpeningOK'
  <2>1. UNCHANGED <<dialog, replies>>
    BY <1>0, <1>4, FetchGoesOn
  <2> QED BY <1>0, <2>1 DEF OpeningOK, OncePerOpening, Current
<1>5. ASSUME NEW from \in {"node", "browser"}, SendReply(from)
      PROVE  OpeningOK'
  <2> DEFINE new == Len(replies) + 1
  <2>1. /\ dialog.enabled = TRUE /\ dialog'.enabled = FALSE
        /\ dialog'.opening = dialog.opening /\ dialog'.stray = dialog.stray
        /\ dialog'.shown = dialog.shown
        /\ \A k \in DOMAIN replies' : k \in DOMAIN replies \/ k = new
        /\ \A k \in DOMAIN replies : replies'[k] = replies[k]
        /\ replies'[new].opening = dialog.opening
    BY <1>0, <1>5, ReplySent
  <2> HIDE DEF new
  <2>2. \A k \in DOMAIN replies : Current(k) => dialog.stray
    BY <1>0, <2>1 DEF OpeningOK, OncePerOpening, Current
  <2>3. \A n, m \in DOMAIN replies' : Current(n)' /\ Current(m)' => n = m \/ dialog'.stray
    BY <2>1, <2>2 DEF Current
  <2>4. \A n \in DOMAIN replies' : replies'[n].opening <= dialog'.opening
    BY <1>0, <2>1 DEF OpeningOK
  <2>5. OncePerOpening'
    BY <2>1 DEF OncePerOpening
  <2>6. dialog'.shown => dialog'.opening > 0
    BY <1>0, <2>1 DEF OpeningOK
  <2> QED BY <2>3, <2>4, <2>5, <2>6 DEF OpeningOK
<1>6. ASSUME NEW n \in DOMAIN replies, Goes(n)
      PROVE  OpeningOK'
  <2>1. /\ DOMAIN replies' = DOMAIN replies /\ replies'[n].opening = replies[n].opening
        /\ \A k \in DOMAIN replies : k # n => replies'[k] = replies[k]
        /\ replies[n].state # "failed" /\ Outcome(n)
    BY <1>0, <1>6, ReplyGoesOn
  <2>2. dialog'.opening = dialog.opening /\ (dialog'.shown = dialog.shown)
        /\ (dialog.stray => dialog'.stray)
        /\ (dialog' = dialog \/ replies'[n].state = "failed")
    <3>1. CASE dialog' = dialog
      BY <3>1
    <3>2. CASE Fail(n) /\ replies'[n].state = "failed"
      <4>1. dialog'.shown = dialog.shown
        BY <1>0, <3>2 DEF Fail, TypeOK
      <4> QED BY <1>0, <3>2, <4>1, Failing
    <3> QED BY <2>1, <3>1, <3>2 DEF Outcome
  <2>3. \A k \in DOMAIN replies : Current(k)' => Current(k)
    BY <2>1, <2>2 DEF Current
  <2>4. \A k, m \in DOMAIN replies' : Current(k)' /\ Current(m)' => k = m \/ dialog'.stray
    BY <1>0, <2>1, <2>2, <2>3 DEF OpeningOK
  <2>5. \A k \in DOMAIN replies' : replies'[k].opening <= dialog'.opening
    BY <1>0, <2>1, <2>2 DEF OpeningOK
  <2>6. ASSUME NEW k \in DOMAIN replies', dialog'.enabled, Current(k)'
        PROVE  dialog'.stray
    <3>1. Current(k) /\ k \in DOMAIN replies
      BY <2>1, <2>3, <2>6
    <3>2. CASE dialog' = dialog
      BY <1>0, <2>6, <3>1, <3>2 DEF OpeningOK, OncePerOpening, Current
    <3>3. CASE Fail(n) /\ replies'[n].state = "failed"
      <4>1. CASE replies[n].opening = dialog.opening
        <5>1. Current(n) /\ k # n
          BY <2>1, <2>6, <3>3, <4>1 DEF Current
        <5> QED BY <1>0, <2>2, <3>1, <5>1 DEF OpeningOK
      <4>2. CASE replies[n].opening # dialog.opening
        BY <1>0, <3>3, <4>2, Failing
      <4> QED BY <4>1, <4>2
    <3> QED BY <2>1, <3>2, <3>3 DEF Outcome
  <2>7. OncePerOpening'
    BY <2>6 DEF OncePerOpening, Current
  <2>8. dialog'.shown => dialog'.opening > 0
    BY <1>0, <2>2 DEF OpeningOK
  <2> QED BY <2>4, <2>5, <2>7, <2>8 DEF OpeningOK
<1> QED BY <1>1, <1>2, <1>3, <1>4, <1>5, <1>6, StepKinds DEF Idle

(* A row in need of metadata is offered no reply. *)
LEMMA AddressedStep ==
  ASSUME DialogInv, DialogNext
  PROVE  AddressedOK'
<1>0. /\ TypeOK /\ PaidOK /\ OpeningOK /\ AddressedOK /\ button \in Buttons
      /\ dialog.opening \in Nat /\ dialog.index \in Rows
      /\ \A k \in DOMAIN replies : replies[k].row \in Rows
      /\ \A k \in DOMAIN fetches : fetches[k].rows \subseteq Rows
  BY Types DEF DialogInv
<1>a. \A r : resolved \subseteq resolved' /\ Addressed(r) => Addressed(r)'
  BY DEF Addressed
<1>1. CASE Idle \/ ChangeFilter
  <2>1. /\ UNCHANGED <<replies, fetches, resolved>>
        /\ \A r \in Rows : button'[r] \in {"reply", "replied"} => button[r] = button'[r]
    BY <1>0, <1>1 DEF Idle, CloseDialog, HideDialog, ShowDialog, ChangeFilter, server
  <2>2. dialog'.opening > 0 => Addressed(dialog'.index)
    <3>1. ASSUME NEW r \in Rows, ShowDialog(r)
          PROVE  Addressed(dialog'.index)
      <4>1. dialog'.index = r /\ button[r] \in {"reply", "replied"}
        BY <3>1 DEF ShowDialog
      <4> QED BY <1>0, <4>1 DEF AddressedOK
    <3>2. CASE CloseDialog \/ HideDialog \/ ChangeFilter
      <4>1. dialog' = dialog \/ dialog' = [dialog EXCEPT !.shown = FALSE]
        BY <3>2 DEF CloseDialog, HideDialog, ChangeFilter
      <4>2. dialog'.opening = dialog.opening /\ dialog'.index = dialog.index
        BY <1>0, <4>1 DEF TypeOK
      <4> QED BY <1>0, <4>2 DEF AddressedOK
    <3> QED BY <1>1, <3>1, <3>2 DEF Idle
  <2> QED BY <1>0, <2>1, <2>2 DEF AddressedOK, Addressed
<1>2. ASSUME NEW from \in {"node", "browser"}, SendReply(from)
      PROVE  AddressedOK'
  <2>1. /\ UNCHANGED <<button, fetches, resolved>> /\ dialog'.index = dialog.index
        /\ dialog'.opening = dialog.opening /\ dialog.opening > 0
        /\ \A k \in DOMAIN replies' : \/ k \in DOMAIN replies /\ replies'[k] = replies[k]
                                      \/ replies'[k].row = dialog.index
    BY <1>0, <1>2, ReplySent DEF server, OpeningOK
  <2> QED BY <1>0, <2>1 DEF AddressedOK, Addressed
<1>3. ASSUME NEW kind \in {"metadata", "list"}, NEW rows \in SUBSET Rows, Ask(kind, rows)
      PROVE  AddressedOK'
  <2>1. /\ UNCHANGED <<button, dialog, replies, resolved>>
        /\ \A k \in DOMAIN fetches' : \/ k \in DOMAIN fetches /\ fetches'[k] = fetches[k]
                                      \/ fetches'[k].state = "asked"
    BY <1>0, <1>3, FetchAsked DEF server
  <2> QED BY <1>0, <2>1 DEF AddressedOK, Addressed
<1>4. ASSUME NEW n \in DOMAIN replies, Goes(n)
      PROVE  AddressedOK'
  <2>1. /\ UNCHANGED <<fetches, resolved>> /\ DOMAIN replies' = DOMAIN replies /\ replies[n].row \in Rows
        /\ \A k \in DOMAIN replies : replies'[k].row = replies[k].row
        /\ Outcome(n)
    BY <1>0, <1>4, ReplyGoesOn
  <2>2. dialog'.opening = dialog.opening /\ dialog'.index = dialog.index
    <3>1. CASE Fail(n)
      BY <1>0, <3>1 DEF Fail, TypeOK
    <3> QED BY <2>1, <3>1 DEF Outcome
  <2>3. \A r \in Rows : button'[r] \in {"reply", "replied"} =>
          button[r] \in {"reply", "replied"} \/ r = replies[n].row
    BY <1>0, <2>1 DEF Outcome, Buttons
  <2>4. \A r \in Rows : button'[r] \in {"reply", "replied"} => Addressed(r)
    BY <1>0, <2>3 DEF AddressedOK
  <2> QED BY <1>0, <2>1, <2>2, <2>4 DEF AddressedOK, Addressed
<1>5. ASSUME NEW f \in DOMAIN fetches, Fetches(f)
      PROVE  AddressedOK'
  <2>1. /\ UNCHANGED <<dialog, replies>> /\ DOMAIN fetches' = DOMAIN fetches
        /\ fetches'[f].kind = fetches[f].kind /\ fetches'[f].rows = fetches[f].rows
        /\ \A k \in DOMAIN fetches : k # f => fetches'[k] = fetches[k]
        /\ resolved \subseteq resolved'
        /\ Reads(f) \/ Draws(f) \/ Ends(f)
    BY <1>0, <1>5, FetchGoesOn
  <2>2. \A r \in Rows : button'[r] \in {"reply", "replied"} => Addressed(r)'
    <3>1. ASSUME NEW r \in Rows, button'[r] \in {"reply", "replied"}
          PROVE  Addressed(r)
      <4>1. CASE button'[r] = button[r]
        BY <1>0, <3>1, <4>1 DEF AddressedOK
      <4>2. CASE Draws(f)
        <5>1. PICK rows \in SUBSET Rows :
                /\ fetches[f].state = "stored" => rows = fetches[f].rows
                /\ fetches[f].state = "read" => fetches[f].kind = "list"
                /\ button'[r] = IF r \in rows THEN fetches[f].as[r] ELSE button[r]
          BY <3>1, <4>2 DEF Draws
        <5>2. fetches[f].state \in {"read", "stored"}
          BY <4>2 DEF Draws
        <5>3. CASE r \in rows
          BY <1>0, <3>1, <5>1, <5>2, <5>3 DEF AddressedOK
        <5> QED BY <4>1, <5>1, <5>3
      <4> QED BY <2>1, <3>1, <4>1, <4>2 DEF Reads, Ends
    <3> QED BY <1>a, <2>1, <3>1
  <2>3. fetches'[f].kind = "list" /\ fetches'[f].state = "read" =>
          \A r \in Rows : fetches'[f].as[r] # "fetch" => Addressed(r)'
    <3>1. ASSUME fetches'[f].kind = "list", fetches'[f].state = "read",
                 NEW r \in Rows, fetches'[f].as[r] # "fetch"
          PROVE  Addressed(r)
      <4>1. CASE Reads(f)
        <5>1. fetches'[f].as[r] = Offered(r)
          BY <2>1, <3>1, <4>1 DEF Reads
        <5> QED BY <3>1, <5>1 DEF Offered, Addressed
      <4> QED BY <2>1, <3>1, <4>1 DEF Draws, Ends
    <3> QED BY <1>a, <2>1, <3>1
  <2>4. fetches'[f].state = "stored" => \A r \in fetches'[f].rows : Addressed(r)'
    <3>1. ASSUME fetches'[f].state = "stored"
          PROVE  resolved' = resolved \cup fetches[f].rows
      BY <2>1, <3>1 DEF Reads, Draws, Ends
    <3> QED BY <2>1, <3>1 DEF Addressed
  <2>5. \A k \in DOMAIN fetches : k # f =>
          /\ fetches'[k].kind = "list" /\ fetches'[k].state = "read" =>
               \A r \in Rows : fetches'[k].as[r] # "fetch" => Addressed(r)'
          /\ fetches'[k].state = "stored" => \A r \in fetches'[k].rows : Addressed(r)'
    BY <1>0, <1>a, <2>1 DEF AddressedOK
  <2>6. \A n \in DOMAIN replies : Addressed(replies[n].row)'
    <3>1. \A n \in DOMAIN replies : Addressed(replies[n].row)
      BY <1>0 DEF AddressedOK
    <3> QED BY <2>1, <3>1 DEF Addressed
  <2>7. dialog'.opening > 0 => Addressed(dialog.index)'
    <3>1. dialog.opening > 0 => Addressed(dialog.index)
      BY <1>0 DEF AddressedOK
    <3> QED BY <2>1, <3>1 DEF Addressed
  <2>8. \A k \in DOMAIN fetches' :
          /\ fetches'[k].kind = "list" /\ fetches'[k].state = "read" =>
               \A r \in Rows : fetches'[k].as[r] # "fetch" => Addressed(r)'
          /\ fetches'[k].state = "stored" => \A r \in fetches'[k].rows : Addressed(r)'
    BY <2>1, <2>3, <2>4, <2>5
  <2> QED BY <2>1, <2>2, <2>6, <2>7, <2>8 DEF AddressedOK
<1> QED BY <1>1, <1>2, <1>3, <1>4, <1>5, StepKinds

(* What the page is told of was stored before, or not at all. *)
LEMMA ToldStep ==
  ASSUME DialogInv, DialogNext
  PROVE  ToldOK'
<1>0. /\ TypeOK /\ PaidOK /\ OpeningOK /\ AddressedOK /\ ToldOK
      /\ paid \in [Rows -> Nat]
      /\ \A k \in DOMAIN replies : replies[k].row \in Rows
      /\ \A k \in DOMAIN fetches : fetches[k].told \subseteq Rows
  BY Types DEF DialogInv
<1>1. CASE Idle \/ ChangeFilter
  <2>1. UNCHANGED <<replies, fetches, paid, replySent, unstored>>
    BY <1>1 DEF Idle, CloseDialog, HideDialog, ShowDialog, ChangeFilter, server
  <2> QED BY <1>0, <2>1 DEF ToldOK, Told, Kept
<1>2. ASSUME NEW from \in {"node", "browser"}, SendReply(from)
      PROVE  ToldOK'
  <2>1. /\ UNCHANGED <<fetches, paid, replySent, unstored>>
        /\ \A k \in DOMAIN replies : k \in DOMAIN replies' /\ replies'[k] = replies[k]
        /\ \A k \in DOMAIN replies' : \/ k \in DOMAIN replies /\ replies'[k] = replies[k]
                                      \/ replies'[k].state = "paying"
    BY <1>0, <1>2, ReplySent DEF server
  <2>2. Told \subseteq Told'
    BY <2>1 DEF Told
  <2>3. \A r \in Rows : paid'[r] > 0 =>
          \E n \in DOMAIN replies' : replies'[n].row = r /\ replies'[n].state # "paying"
    BY <1>0, <2>1 DEF ToldOK
  <2>4. \A n \in DOMAIN replies' : replies'[n].state \in {"answered", "done"} => Kept(replies[n].row)'
    BY <1>0, <2>1 DEF ToldOK, Kept
  <2> QED BY <1>0, <2>1, <2>2, <2>3, <2>4 DEF ToldOK
<1>3. ASSUME NEW kind \in {"metadata", "list"}, NEW rows \in SUBSET Rows, Ask(kind, rows)
      PROVE  ToldOK'
  <2>1. /\ UNCHANGED <<replies, paid, replySent, unstored>>
        /\ \A k \in DOMAIN fetches' : \/ k \in DOMAIN fetches /\ fetches'[k] = fetches[k]
                                      \/ fetches'[k].state = "asked" /\ fetches'[k].told = Told
    BY <1>0, <1>3, FetchAsked DEF server
  <2>2. Told' = Told
    BY <2>1 DEF Told
  <2> QED BY <1>0, <2>1, <2>2 DEF ToldOK, Kept
<1>4. ASSUME NEW n \in DOMAIN replies, Goes(n)
      PROVE  ToldOK'
  <2>1. /\ UNCHANGED fetches /\ DOMAIN replies' = DOMAIN replies /\ replies[n].row \in Rows
        /\ replies[n].state \in {"paying", "marking", "answered"}
        /\ replies'[n].row = replies[n].row
        /\ \A k \in DOMAIN replies : k # n => replies'[k] = replies[k]
        /\ Outcome(n)
        /\ \A q \in Rows : q # replies[n].row => paid'[q] = paid[q]
        /\ \A q \in Rows : Kept(q) => Kept(q)'
        /\ unstored \subseteq unstored'
        /\ replies'[n].state = "answered" =>
             replySent'[replies[n].row] \/ replies[n].row \in unstored'
    BY <1>0, <1>4, ReplyGoesOn
  <2>2. Told \subseteq Told'
    BY <2>1 DEF Told
  <2>3. replies'[n].state \in {"answered", "done"} => Kept(replies[n].row)'
    <3>1. CASE replies'[n].state = "done"
      <4>1. replies[n].state = "answered"
        BY <2>1, <3>1 DEF Outcome
      <4>2. Kept(replies[n].row)
        BY <1>0, <4>1 DEF ToldOK
      <4>3. UNCHANGED server
        BY <2>1, <3>1 DEF Outcome
      <4> QED BY <2>1, <4>2, <4>3 DEF Kept, server
    <3> QED BY <2>1, <3>1 DEF Kept
  <2>4. \A k \in DOMAIN replies' : replies'[k].state \in {"answered", "done"} => Kept(replies[k].row)'
    <3>1. ASSUME NEW k \in DOMAIN replies, k # n, replies'[k].state \in {"answered", "done"}
          PROVE  Kept(replies[k].row)'
      <4>1. Kept(replies[k].row) /\ replies'[k].row = replies[k].row /\ replies[k].row \in Rows
        BY <1>0, <2>1, <3>1 DEF ToldOK
      <4>2. \A q \in Rows : replySent[q] \/ q \in unstored => replySent'[q] \/ q \in unstored'
        BY <2>1 DEF Kept
      <4> QED BY <4>1, <4>2 DEF Kept
    <3> QED BY <2>1, <2>3, <3>1
  <2>5. replies'[n].state # "paying"
    BY <2>1 DEF Outcome
  <2>6. \A r \in Rows : paid'[r] > 0 =>
          \E k \in DOMAIN replies' : replies'[k].row = r /\ replies'[k].state # "paying"
    <3>1. ASSUME NEW r \in Rows, paid'[r] > 0
          PROVE  \E k \in DOMAIN replies' : replies'[k].row = r /\ replies'[k].state # "paying"
      <4>1. CASE r = replies[n].row
        BY <2>1, <2>5, <4>1
      <4>2. CASE r # replies[n].row
        <5>1. PICK k \in DOMAIN replies : replies[k].row = r /\ replies[k].state # "paying"
          BY <1>0, <2>1, <3>1, <4>2 DEF ToldOK
        <5>2. replies'[k] = replies[k]
          BY <2>1, <4>2, <5>1
        <5> QED BY <2>1, <5>1, <5>2
      <4> QED BY <4>1, <4>2
    <3> QED BY <3>1
  <2> QED BY <1>0, <2>1, <2>2, <2>4, <2>6 DEF ToldOK
<1>5. ASSUME NEW f \in DOMAIN fetches, Fetches(f)
      PROVE  ToldOK'
  <2>1. /\ UNCHANGED <<replies, paid, replySent, unstored>> /\ DOMAIN fetches' = DOMAIN fetches
        /\ fetches'[f].told = fetches[f].told
        /\ \A k \in DOMAIN fetches : k # f => fetches'[k] = fetches[k]
        /\ Reads(f) \/ Draws(f) \/ Ends(f)
    BY <1>0, <1>5, FetchGoesOn
  <2>2. Told' = Told /\ \A r : Kept(r)' = Kept(r)
    BY <2>1 DEF Told, Kept
  <2>3. ASSUME fetches'[f].state \in {"read", "stored", "done"}, NEW r \in fetches[f].told
        PROVE  fetches'[f].as[r] = "replied" \/ r \in unstored
    <3>1. CASE Reads(f)
      <4>1. r \in Told /\ r \in Rows
        BY <1>0, <2>3 DEF ToldOK
      <4>2. Kept(r) /\ Addressed(r)
        BY <1>0, <4>1 DEF ToldOK, AddressedOK, Told
      <4>3. CASE replySent[r]
        BY <3>1, <4>1, <4>2, <4>3 DEF Reads, Offered, RenderReplyButton, Addressed
      <4> QED BY <4>2, <4>3 DEF Kept
    <3>2. CASE Draws(f) \/ Ends(f)
      <4>1. fetches'[f].as = fetches[f].as /\ fetches[f].state \in {"read", "stored"}
        BY <2>3, <3>2 DEF Draws, Ends
      <4> QED BY <1>0, <2>3, <4>1 DEF ToldOK
    <3> QED BY <2>1, <3>1, <3>2
  <2>4. \A k \in DOMAIN fetches' : fetches'[k].told \subseteq Told
    BY <1>0, <2>1 DEF ToldOK
  <2>5. \A k \in DOMAIN fetches' : fetches'[k].state \in {"read", "stored", "done"} =>
          \A r \in fetches'[k].told : fetches'[k].as[r] = "replied" \/ r \in unstored
    BY <1>0, <2>1, <2>3 DEF ToldOK
  <2> QED BY <1>0, <2>1, <2>2, <2>4, <2>5 DEF ToldOK
<1> QED BY <1>1, <1>2, <1>3, <1>4, <1>5, StepKinds

(* What excuses a row that does not show a reply it was paid for. *)
LEMMA ShownStep ==
  ASSUME DialogInv, DialogNext
  PROVE  ShownOK'
<1> DEFINE Pending(r) == \E n \in DOMAIN replies : replies[n].row = r /\ replies[n].state # "done"
           Shows(r)   == button[r] \in {"replied", "gone"}
           Sound      == \A r \in Rows : drawn[r] # 0 =>
                           drawn[r] \in DOMAIN fetches /\ fetches[drawn[r]].state = "done"
<1>0. /\ TypeOK /\ PaidOK /\ OpeningOK /\ ToldOK /\ Sound
      /\ button \in Buttons /\ paid \in [Rows -> Nat] /\ drawn \in [Rows -> Nat]
      /\ \A r \in Rows : paid[r] = 0 \/ Shows(r) \/ Pending(r) \/ DrawnUnreplied(r)
  BY Types DEF DialogInv, ShownOK, PaidIsShown
<1>a. (\A r \in Rows : paid'[r] = 0 \/ Shows(r)' \/ Pending(r)' \/ DrawnUnreplied(r)') /\ Sound'
        => ShownOK'
  BY DEF ShownOK, PaidIsShown
<1>b. ASSUME /\ \A k \in DOMAIN fetches : k \in DOMAIN fetches' /\
                  (fetches[k].state = "done" => fetches'[k] = fetches[k])
             /\ unstored \subseteq unstored'
      PROVE  /\ \A r \in Rows : drawn'[r] = drawn[r] /\ DrawnUnreplied(r) => DrawnUnreplied(r)'
             /\ drawn' = drawn => Sound'
  <2>1. \A r \in Rows : drawn'[r] = drawn[r] /\ DrawnUnreplied(r) => DrawnUnreplied(r)'
    <3> SUFFICES ASSUME NEW r \in Rows, drawn'[r] = drawn[r], DrawnUnreplied(r)
                 PROVE  DrawnUnreplied(r)'
      OBVIOUS
    <3>1. drawn[r] # 0 /\ fetches'[drawn[r]] = fetches[drawn[r]]
      BY <1>0, <1>b DEF DrawnUnreplied
    <3> QED BY <1>b, <3>1 DEF DrawnUnreplied
  <2>2. drawn' = drawn => Sound'
    BY <1>0, <1>b
  <2> QED BY <2>1, <2>2
<1>1. CASE Idle
  <2>1. UNCHANGED <<button, replies, fetches, paid, unstored, drawn>>
    BY <1>1 DEF Idle, CloseDialog, HideDialog, ShowDialog, server
  <2> QED BY <1>0, <1>a, <2>1 DEF DrawnUnreplied
<1>2. CASE ChangeFilter
  <2>1. \A r \in Rows : Shows(r)'
    BY <1>2 DEF ChangeFilter
  <2>2. UNCHANGED <<fetches, drawn>>
    BY <1>2 DEF ChangeFilter
  <2> QED BY <1>0, <1>a, <2>1, <2>2
<1>3. ASSUME NEW from \in {"node", "browser"}, SendReply(from)
      PROVE  ShownOK'
  <2>1. UNCHANGED <<button, fetches, paid, unstored, drawn>>
        /\ \A k \in DOMAIN replies : k \in DOMAIN replies' /\ replies'[k] = replies[k]
    BY <1>0, <1>3, ReplySent DEF server
  <2>2. \A r \in Rows : Pending(r) => Pending(r)'
    BY <2>1
  <2>3. Sound' /\ \A r \in Rows : DrawnUnreplied(r) => DrawnUnreplied(r)'
    BY <1>0, <2>1 DEF DrawnUnreplied
  <2>4. \A r \in Rows : paid'[r] = paid[r] /\ Shows(r)' = Shows(r)
    BY <2>1
  <2> HIDE DEF Pending, Sound, Shows
  <2> QED BY <1>0, <1>a, <2>2, <2>3, <2>4
<1>4. ASSUME NEW kind \in {"metadata", "list"}, NEW rows \in SUBSET Rows, Ask(kind, rows)
      PROVE  ShownOK'
  <2>1. /\ UNCHANGED <<button, replies, paid, unstored, drawn>>
        /\ \A k \in DOMAIN fetches : k \in DOMAIN fetches' /\ fetches'[k] = fetches[k]
    BY <1>0, <1>4, FetchAsked DEF server
  <2>2. Sound' /\ \A r \in Rows : DrawnUnreplied(r) => DrawnUnreplied(r)'
    BY <1>b, <2>1
  <2>3. \A r \in Rows : paid'[r] = paid[r] /\ Shows(r)' = Shows(r) /\ Pending(r)' = Pending(r)
    BY <2>1
  <2> HIDE DEF Pending, Sound, Shows
  <2> QED BY <1>0, <1>a, <2>2, <2>3
<1>5. ASSUME NEW n \in DOMAIN replies, Goes(n)
      PROVE  ShownOK'
  <2> DEFINE row == replies[n].row
  <2>1. /\ UNCHANGED <<fetches, drawn>> /\ DOMAIN replies' = DOMAIN replies
        /\ replies'[n].row = row /\ row \in Rows /\ unstored \subseteq unstored'
        /\ \A k \in DOMAIN replies : k # n => replies'[k] = replies[k]
        /\ \A r \in Rows : r # row => paid'[r] = paid[r]
        /\ Outcome(n)
    BY <1>0, <1>5, ReplyGoesOn
  <2>2. \A r \in Rows : r # row => button'[r] = button[r]
    BY <1>0, <2>1 DEF Outcome, Buttons
  <2>3. \A r \in Rows : r # row /\ Pending(r) => Pending(r)'
    BY <2>1
  <2>4. Pending(row)' \/ button'[row] \in {"replied", "gone"}
    <3>1. CASE replies'[n].state # "done"
      BY <2>1, <3>1
    <3>2. CASE button' = [button EXCEPT ![row] = IF @ = "gone" THEN @ ELSE "replied"]
      BY <1>0, <2>1, <3>2 DEF Buttons
    <3> QED BY <2>1, <3>1, <3>2 DEF Outcome
  <2>5. Sound' /\ \A r \in Rows : DrawnUnreplied(r) => DrawnUnreplied(r)'
    BY <1>b, <2>1
  <2>6. \A r \in Rows : r # row => Shows(r)' = Shows(r)
    BY <2>2
  <2>7. Pending(row)' \/ Shows(replies[n].row)' \/ button'[row] \in {"replied", "gone"}
    BY <2>4
  <2>8. ASSUME NEW r \in Rows
        PROVE  paid'[r] = 0 \/ Shows(r)' \/ Pending(r)' \/ DrawnUnreplied(r)'
    <3>1. CASE r = row
      <4>1. button'[r] \in {"replied", "gone"} \/
            \E k \in DOMAIN replies' : replies'[k].row = r /\ replies'[k].state # "done"
        <5>1. CASE replies'[n].state # "done"
          BY <2>1, <3>1, <5>1
        <5>2. CASE button' = [button EXCEPT ![row] = IF @ = "gone" THEN @ ELSE "replied"]
          BY <1>0, <2>1, <3>1, <5>2 DEF Buttons
        <5> QED BY <2>1, <5>1, <5>2 DEF Outcome
      <4> QED BY <4>1
    <3>2. CASE r # row
      <4>1. /\ paid'[r] = paid[r] /\ Shows(r)' = Shows(r) /\ (Pending(r) => Pending(r)')
            /\ (DrawnUnreplied(r) => DrawnUnreplied(r)')
        BY <2>1, <2>3, <2>5, <2>6, <3>2
      <4> HIDE DEF Pending, Shows, row
      <4> QED BY <1>0, <4>1
    <3> QED BY <3>1, <3>2
  <2> HIDE DEF Pending, Sound, Shows
  <2> QED BY <1>a, <2>5, <2>8
<1>6. ASSUME NEW f \in DOMAIN fetches, Fetches(f)
      PROVE  ShownOK'
  <2>1. /\ fetches[f].state \in {"asked", "read", "stored"}
        /\ UNCHANGED <<replies, paid, unstored>> /\ DOMAIN fetches' = DOMAIN fetches
        /\ fetches'[f].told = fetches[f].told
        /\ \A k \in DOMAIN fetches : k # f => fetches'[k] = fetches[k]
        /\ Reads(f) \/ Draws(f) \/ Ends(f)
    BY <1>0, <1>6, FetchGoesOn
  <2>2. \A k \in DOMAIN fetches : k \in DOMAIN fetches' /\
          (fetches[k].state = "done" => fetches'[k] = fetches[k])
    BY <2>1
  <2>3. \A r \in Rows : drawn'[r] = drawn[r] /\ DrawnUnreplied(r) => DrawnUnreplied(r)'
    BY <1>b, <2>1, <2>2
  <2>4. \A r \in Rows : paid'[r] = paid[r] /\ Pending(r)' = Pending(r)
    BY <2>1
  <2>5. CASE Reads(f) \/ Ends(f)
    <3>1. drawn' = drawn /\ \A r \in Rows : button'[r] = button[r] \/ button'[r] = "gone"
      BY <2>5 DEF Reads, Ends
    <3>2. \A r \in Rows : Shows(r) => Shows(r)'
      BY <3>1
    <3>3. Sound'
      BY <1>b, <2>1, <2>2, <3>1
    <3> HIDE DEF Pending, Sound, Shows
    <3> QED BY <1>0, <1>a, <2>3, <2>4, <3>1, <3>2, <3>3
  <2>6. CASE Draws(f)
    <3>1. PICK rows \in SUBSET Rows :
            /\ fetches'[f].over = rows \cap Told
            /\ \A r \in Rows : /\ button'[r] = IF r \in rows THEN fetches[f].as[r] ELSE button[r]
                               /\ drawn'[r] = IF r \in rows THEN f ELSE drawn[r]
      BY <2>6 DEF Draws
    <3>2. /\ fetches'[f].state = "done" /\ fetches'[f].as = fetches[f].as
          /\ fetches[f].state \in {"read", "stored"}
      BY <2>6 DEF Draws
    <3>3. Sound'
      BY <1>0, <2>1, <2>2, <3>1, <3>2
    <3>4. ASSUME NEW r \in Rows, r \in rows, ~Pending(r), paid[r] > 0, ~Shows(r)'
          PROVE  DrawnUnreplied(r)'
      <4>1. r \in Told
        <5>1. PICK k \in DOMAIN replies : replies[k].row = r /\ replies[k].state # "paying"
          BY <1>0, <3>4 DEF ToldOK
        <5>2. replies[k].state = "done"
          BY <3>4, <5>1
        <5> QED BY <5>1, <5>2 DEF Told
      <4>2. drawn'[r] = f /\ button'[r] = fetches[f].as[r] /\ fetches[f].as[r] # "replied"
        BY <3>1, <3>4
      <4>3. r \in fetches[f].told => r \in unstored
        BY <1>0, <3>2, <4>2 DEF ToldOK
      <4>4. f # 0
        BY <1>0, Types, LenProperties
      <4> QED BY <2>1, <3>1, <3>2, <3>4, <4>1, <4>2, <4>3, <4>4 DEF DrawnUnreplied
    <3>5. \A r \in Rows : r \notin rows => drawn'[r] = drawn[r] /\ Shows(r)' = Shows(r)
      BY <3>1
    <3>6. \A r \in Rows : paid[r] > 0 \/ paid[r] = 0
      BY <1>0
    <3> HIDE DEF Pending, Sound, Shows
    <3> QED BY <1>0, <1>a, <2>3, <2>4, <3>3, <3>4, <3>5, <3>6
  <2> QED BY <2>1, <2>5, <2>6
<1> QED BY <1>1, <1>2, <1>3, <1>4, <1>5, <1>6, StepKinds

(* The invariant is inductive. *)
LEMMA DialogStep == DialogInv /\ [DialogNext]_dialogVars => DialogInv'
<1> SUFFICES ASSUME DialogInv, [DialogNext]_dialogVars PROVE DialogInv'
  OBVIOUS
<1>1. CASE DialogNext
  <2>1. TypeOK'
    BY <1>1, DialogTypes DEF DialogInv
  <2>2. AddressedOK' /\ ToldOK' /\ ShownOK'
    BY <1>1, AddressedStep, ToldStep, ShownStep
  <2> QED BY <1>1, <2>1, <2>2, PaidStep, OpeningStep DEF DialogInv
<1>2. CASE UNCHANGED dialogVars
  <2> USE <1>2 DEF dialogVars, server
  <2>1. TypeOK' /\ PaidOK'
    BY DEF DialogInv, TypeOK, PaidOK
  <2>2. OpeningOK'
    BY DEF DialogInv, OpeningOK, OncePerOpening, Current
  <2>3. ShownOK'
    BY DEF DialogInv, ShownOK, PaidIsShown, DrawnUnreplied
  <2>4. AddressedOK' /\ ToldOK'
    BY DEF DialogInv, AddressedOK, Addressed, ToldOK, Told, Kept
  <2> QED BY <2>1, <2>2, <2>3, <2>4 DEF DialogInv
<1> QED BY <1>1, <1>2

(* It holds in every reachable state. *)
LEMMA DialogInvariant == DialogSpec => []DialogInv
BY DialogStarts, DialogStep, PTL DEF DialogSpec

----------------------------------------------------------------------------
(* A row shows "Replied" only after a reply to that very boost was paid.   *)
THEOREM ShownRepliesWerePaid == DialogSpec => []RepliedWasPaid
<1>1. DialogInv => RepliedWasPaid
  BY DEF DialogInv, PaidOK, RepliedWasPaid
<1> QED BY <1>1, DialogInvariant, PTL

(* The button sends once for an opening of the dialog, unless a reply of   *)
(* an earlier opening fails meanwhile.                                     *)
THEOREM OneReplyPerOpening == DialogSpec => []OncePerOpening
<1>1. DialogInv => OncePerOpening
  BY DEF DialogInv, OpeningOK
<1> QED BY <1>1, DialogInvariant, PTL

(* A row that was paid for and is on the page shows it, but for an error,  *)
(* for an answer that was under way when the reply was, and for a reply of *)
(* which the server kept no record.                                        *)
THEOREM PaidRepliesAreShown == DialogSpec => []PaidIsShown
<1>1. DialogInv => PaidIsShown
  BY DEF DialogInv, ShownOK
<1> QED BY <1>1, DialogInvariant, PTL

----------------------------------------------------------------------------
(* A hash in the making, and where its k-th block ends in the message.     *)
Hash == [buffer : [1 .. BlockLen -> Int], pos : 0 .. BlockLen - 1, length : Nat,
         blocks : Seq([1 .. BlockLen -> Int])]

Start(k) == k * BlockLen

Taken(h) == Start(Len(h.blocks)) + h.pos

(* What has been taken of a message is in the blocks, and the rest of it   *)
(* in the buffer.                                                          *)
Reached(h, message) ==
  /\ h \in Hash /\ Taken(h) <= Len(message)
  /\ \A k \in 1 .. Len(h.blocks), j \in 1 .. BlockLen :
       h.blocks[k][j] = message[Start(k - 1) + j]
  /\ \A j \in 1 .. h.pos : h.buffer[j] = message[Start(Len(h.blocks)) + j]

(* The data to come is what follows in the message, up to some place.      *)
Ahead(state, message, last) ==
  /\ Reached(state.hash, message)
  /\ state.data \in Seq(Int) /\ Taken(state.hash) + Len(state.data) = last
  /\ \A i \in 1 .. Len(state.data) : state.data[i] = message[Taken(state.hash) + i]

(* What is below a number is its own remainder by it.                      *)
LEMMA SmallRemainder ==
  ASSUME NEW b \in Nat, b > 0
  PROVE  b % b = 0 /\ \A a \in 0 .. b - 1 : a % b = a
OBVIOUS

(* What is left over after whole multiples is the remainder.               *)
LEMMA RemainderIs ==
  ASSUME NEW b \in Nat, b > 0, NEW m \in Int, NEW f \in 0 .. b - 1
  PROVE  (m * b + f) % b = f
OBVIOUS

(* A sequence of functions, where more values are allowed.                 *)
LEMMA SeqOfWider ==
  ASSUME NEW B, NEW S, NEW D, B \subseteq S, NEW s \in Seq([D -> B])
  PROVE  s \in Seq([D -> S])
<1>1. [D -> B] \subseteq [D -> S]
  OBVIOUS
<1>2. s \in [1 .. Len(s) -> [D -> B]] /\ Len(s) \in Nat
  BY LenProperties
<1> QED BY <1>1, <1>2

IsJoin(r, s, t) ==
  /\ Len(r) = Len(s) + Len(t)
  /\ \A i \in 1 .. Len(s) : r[i] = s[i]
  /\ \A i \in 1 .. Len(t) : r[Len(s) + i] = t[i]

(* What two sequences put together hold.                                   *)
LEMMA Joined ==
  ASSUME NEW S, NEW s \in Seq(S), NEW t \in Seq(S)
  PROVE  s \o t \in Seq(S) /\ IsJoin(s \o t, s, t)
<1>1. Len(s) \in Nat /\ Len(t) \in Nat
  OBVIOUS
<1>2. /\ s \o t \in Seq(S) /\ Len(s \o t) = Len(s) + Len(t)
      /\ \A i \in 1 .. Len(s) + Len(t) :
           (s \o t)[i] = IF i <= Len(s) THEN s[i] ELSE t[i - Len(s)]
  BY ConcatProperties
<1>3. ASSUME NEW i \in 1 .. Len(s)
      PROVE  (s \o t)[i] = s[i]
  BY <1>1, <1>2
<1>4. ASSUME NEW i \in 1 .. Len(t)
      PROVE  (s \o t)[Len(s) + i] = t[i]
  <2>1. /\ Len(s) + i \in 1 .. Len(s) + Len(t) /\ ~(Len(s) + i <= Len(s))
        /\ (Len(s) + i) - Len(s) = i
    BY <1>1
  <2> QED BY <1>2, <2>1
<1> QED BY <1>2, <1>3, <1>4 DEF IsJoin

(* Blocks follow one another, from 0.                                      *)
LEMMA StartFacts ==
  ASSUME NEW k \in Nat
  PROVE  Start(k) \in Nat /\ Start(k + 1) = Start(k) + BlockLen /\ Start(0) = 0
BY BlockAssumption DEF BlockAssumption, Start

(* The numbers of a hash: its blocks, its position and what it has taken.  *)
LEMMA TakenFacts ==
  ASSUME NEW h \in Hash
  PROVE  /\ Len(h.blocks) \in Nat /\ Taken(h) \in Nat /\ h.pos \in 0 .. BlockLen - 1
         /\ Start(Len(h.blocks)) \in Nat /\ Taken(h) = Start(Len(h.blocks)) + h.pos
         /\ BlockLen \in Nat /\ BlockLen >= 2
<1>1. Len(h.blocks) \in Nat /\ h.pos \in 0 .. BlockLen - 1
  BY DEF Hash
<1>2. Start(Len(h.blocks)) \in Nat
  BY <1>1, StartFacts
<1>3. BlockLen \in Nat /\ BlockLen >= 2
  BY BlockAssumption DEF BlockAssumption
<1> QED BY <1>1, <1>2, <1>3 DEF Taken

(* One block more.                                                         *)
LEMMA BlockReached ==
  ASSUME NEW message \in Seq(Int), NEW h, Reached(h, message),
         NEW block \in [1 .. BlockLen -> Int], NEW g \in Hash,
         g.blocks = Append(h.blocks, block), g.pos = 0,
         Start(Len(h.blocks)) + BlockLen <= Len(message),
         \A j \in 1 .. BlockLen : block[j] = message[Start(Len(h.blocks)) + j]
  PROVE  Reached(g, message) /\ Taken(g) = Start(Len(h.blocks)) + BlockLen
<1> DEFINE n == Len(h.blocks)
<1>1. h \in Hash /\ h.blocks \in Seq([1 .. BlockLen -> Int])
  BY DEF Reached, Hash
<1>2. /\ n \in Nat /\ Len(g.blocks) = n + 1 /\ g.blocks[n + 1] = block
      /\ \A k \in 1 .. n : g.blocks[k] = h.blocks[k]
  BY <1>1, AppendProperties
<1>3. Start(n + 1) = Start(n) + BlockLen /\ Start(n) \in Nat
  BY <1>2, StartFacts
<1>4. Taken(g) = Start(n) + BlockLen
  <2>1. Taken(g) = Start(Len(g.blocks)) + g.pos
    BY DEF Taken
  <2>2. Start(n + 1) + 0 = Start(n) + BlockLen
    BY <1>3, BlockAssumption DEF BlockAssumption
  <2> QED BY <1>2, <2>1, <2>2
<1>5. ASSUME NEW k \in 1 .. Len(g.blocks), NEW j \in 1 .. BlockLen
      PROVE  g.blocks[k][j] = message[Start(k - 1) + j]
  <2>1. CASE k = n + 1
    <3>1. k - 1 = n
      BY <1>2, <2>1
    <3> QED BY <1>2, <2>1, <3>1
  <2>2. CASE k # n + 1
    <3>1. k \in 1 .. n
      BY <1>2, <2>2
    <3>2. h.blocks[k][j] = message[Start(k - 1) + j]
      BY <3>1 DEF Reached
    <3> QED BY <1>2, <3>1, <3>2
  <2> QED BY <2>1, <2>2
<1>6. \A j \in 1 .. g.pos : g.buffer[j] = message[Start(Len(g.blocks)) + j]
  OBVIOUS
<1> HIDE DEF n
<1>7. Taken(g) <= Len(message)
  BY <1>4 DEF n
<1> QED BY <1>4, <1>5, <1>6, <1>7 DEF Reached, n

(* Bytes behind those in the buffer.                                       *)
LEMMA FilledReached ==
  ASSUME NEW message \in Seq(Int), NEW h, Reached(h, message), NEW bytes \in Seq(Int),
         Len(bytes) <= BlockLen - h.pos, Taken(h) + Len(bytes) <= Len(message),
         \A i \in 1 .. Len(bytes) : bytes[i] = message[Taken(h) + i]
  PROVE  /\ Reached(Filled(h, bytes), message)
         /\ Taken(Filled(h, bytes)) = Taken(h) + Len(bytes)
         /\ Filled(h, bytes).length = h.length
<1> DEFINE n == Len(h.blocks)
           pos == h.pos + Len(bytes)
           buffer == [i \in 1 .. BlockLen |->
                        IF i \in h.pos + 1 .. pos THEN bytes[i - h.pos] ELSE h.buffer[i]]
           g == Filled(h, bytes)
<1>1. h \in Hash
  BY DEF Reached
<1>2. /\ n \in Nat /\ h.pos \in 0 .. BlockLen - 1 /\ Start(n) \in Nat
      /\ Taken(h) = Start(n) + h.pos /\ BlockLen \in Nat /\ BlockLen >= 2
  BY <1>1, TakenFacts
<1>3. /\ h.buffer \in [1 .. BlockLen -> Int] /\ h.blocks \in Seq([1 .. BlockLen -> Int])
      /\ h.length \in Nat
  BY <1>1 DEF Hash
<1>4. Len(bytes) \in Nat /\ pos \in Nat /\ pos <= BlockLen
  BY <1>2
<1>5. ASSUME NEW i \in h.pos + 1 .. pos
      PROVE  i - h.pos \in 1 .. Len(bytes)
  <2>1. Len(bytes) \in Nat /\ h.pos \in Nat
    BY <1>2
  <2> QED BY <2>1
<1>6. buffer \in [1 .. BlockLen -> Int]
  <2>1. \A i \in 1 .. Len(bytes) : bytes[i] \in Int
    OBVIOUS
  <2> QED BY <1>3, <1>5, <2>1
<1>7. \A i \in 1 .. pos : buffer[i] = message[Start(n) + i]
  <2> SUFFICES ASSUME NEW i \in 1 .. pos
               PROVE  buffer[i] = message[Start(n) + i]
    OBVIOUS
  <2>1. i \in 1 .. BlockLen
    BY <1>2, <1>4
  <2>2. CASE i \in h.pos + 1 .. pos
    <3>1. buffer[i] = bytes[i - h.pos]
      BY <2>1, <2>2
    <3>2. bytes[i - h.pos] = message[Taken(h) + (i - h.pos)]
      BY <1>5, <2>2
    <3>3. Taken(h) + (i - h.pos) = Start(n) + i
      BY <1>2
    <3> QED BY <3>1, <3>2, <3>3
  <2>3. CASE i \notin h.pos + 1 .. pos
    <3>1. buffer[i] = h.buffer[i]
      BY <2>1, <2>3
    <3>3. i \in 1 .. h.pos
      <4>1. h.pos \in Nat /\ pos \in Nat /\ h.pos <= pos
        BY <1>2, <1>4
      <4> HIDE DEF pos
      <4> QED BY <2>3, <4>1
    <3>2. h.buffer[i] = message[Start(n) + i]
      BY <3>3 DEF Reached
    <3> QED BY <3>1, <3>2
  <2> QED BY <2>2, <2>3
<1>8. /\ g = [h EXCEPT !.buffer = buffer, !.pos = pos % BlockLen,
                       !.blocks = IF pos = BlockLen THEN Append(@, buffer) ELSE @]
  BY DEF Filled
<1> HIDE DEF buffer, g
<1>9. CASE pos = BlockLen
  <2>1. pos % BlockLen = 0
    BY <1>2, <1>9, SmallRemainder
  <2>2. Append(h.blocks, buffer) \in Seq([1 .. BlockLen -> Int])
    BY <1>3, <1>6, AppendProperties
  <2>3. /\ g.buffer = buffer /\ g.pos = 0 /\ g.length = h.length
        /\ g.blocks = Append(h.blocks, buffer)
    BY <1>1, <1>8, <1>9, <2>1 DEF Hash
  <2>4. g \in Hash
    <3>1. g = [buffer |-> buffer, pos |-> 0, length |-> h.length, blocks |-> Append(h.blocks, buffer)]
      BY <1>1, <1>8, <1>9, <2>1 DEF Hash
    <3>2. 0 \in 0 .. BlockLen - 1
      BY <1>2
    <3> QED BY <1>3, <1>6, <2>2, <3>1, <3>2 DEF Hash
  <2>5. Start(n) + BlockLen = Taken(h) + Len(bytes)
    BY <1>2, <1>4, <1>9
  <2>6. \A j \in 1 .. BlockLen : buffer[j] = message[Start(n) + j]
    BY <1>7, <1>9
  <2>7. Reached(g, message) /\ Taken(g) = Start(n) + BlockLen
    BY <1>6, <2>3, <2>4, <2>5, <2>6, BlockReached
  <2> QED BY <2>3, <2>5, <2>7 DEF g
<1>10. CASE pos # BlockLen
  <2>1. pos % BlockLen = pos /\ pos \in 0 .. BlockLen - 1
    <3>1. pos \in 0 .. BlockLen - 1
      BY <1>2, <1>4, <1>10
    <3>2. BlockLen \in Nat /\ BlockLen > 0
      BY <1>2
    <3> HIDE DEF pos
    <3> QED BY <3>1, <3>2, SmallRemainder
  <2>2. g = [buffer |-> buffer, pos |-> pos, length |-> h.length, blocks |-> h.blocks]
    BY <1>1, <1>8, <1>10, <2>1 DEF Hash
  <2>3. g \in Hash
    BY <1>3, <1>6, <2>1, <2>2 DEF Hash
  <2>4. Taken(g) = Taken(h) + Len(bytes)
    BY <1>2, <1>4, <2>2 DEF Taken
  <2>5. /\ \A k \in 1 .. Len(g.blocks), j \in 1 .. BlockLen :
             g.blocks[k][j] = message[Start(k - 1) + j]
        /\ \A j \in 1 .. g.pos : g.buffer[j] = message[Start(Len(g.blocks)) + j]
    BY <1>7, <2>2 DEF Reached
  <2>6. Reached(g, message)
    BY <2>3, <2>4, <2>5 DEF Reached
  <2> QED BY <2>2, <2>4, <2>6 DEF g
<1> QED BY <1>9, <1>10

(* One turn of update takes the next of the data, and something of it if   *)
(* there is any.                                                           *)
LEMMA TurnAhead ==
  ASSUME NEW message \in Seq(Int), NEW last \in 0 .. Len(message),
         NEW state \in [hash : Hash, data : Seq(Int)], Ahead(state, message, last)
  PROVE  /\ Turn(state) \in [hash : Hash, data : Seq(Int)]
         /\ Ahead(Turn(state), message, last)
         /\ Turn(state).hash.length = state.hash.length
         /\ Len(state.data) > 0 => Len(Turn(state).data) < Len(state.data)
<1> DEFINE h == state.hash
           data == state.data
           n == Len(data)
           take == Min({BlockLen - h.pos, n})
           head == SubSeq(data, 1, take)
           rest == SubSeq(data, take + 1, n)
<1>1. CASE data = <<>>
  <2>1. Turn(state) = state
    BY <1>1 DEF Turn
  <2>2. Len(data) = 0
    BY <1>1
  <2> QED BY <2>1, <2>2
<1>2. CASE data # <<>>
  <2>1. h \in Hash /\ Reached(h, message) /\ data \in Seq(Int)
    BY DEF Ahead
  <2>2. n \in Nat /\ n > 0
    BY <1>2, <2>1, EmptySeq
  <2>3. /\ h.pos \in 0 .. BlockLen - 1 /\ BlockLen \in Nat /\ Taken(h) \in Nat
        /\ Len(h.blocks) \in Nat /\ Start(Len(h.blocks)) \in Nat
        /\ Taken(h) = Start(Len(h.blocks)) + h.pos
    BY <2>1, TakenFacts
  <2>4. /\ take \in 1 .. n /\ take <= BlockLen - h.pos
        /\ take = n \/ take = BlockLen - h.pos
    <3>1. \E m \in {BlockLen - h.pos, n} : \A k \in {BlockLen - h.pos, n} : m <= k
      BY <2>2, <2>3
    <3>2. take \in {BlockLen - h.pos, n} /\ \A k \in {BlockLen - h.pos, n} : take <= k
      BY <3>1 DEF Min
    <3> HIDE DEF take, n, h
    <3> QED BY <2>2, <2>3, <3>2
  <2>5. Taken(h) + n = last
    BY DEF Ahead
  <2> HIDE DEF take
  <2>6. /\ head \in Seq(Int) /\ Len(head) = take
        /\ \A i \in 1 .. take : head[i] = data[i]
    <3>1. \A i \in 1 .. take : data[i] \in Int
      BY <2>1, <2>2, <2>4
    <3>2. take \in Nat /\ take - 1 + 1 = take /\ 1 <= take
      BY <2>2, <2>4
    <3>3. /\ head \in Seq(Int) /\ Len(head) = IF 1 <= take THEN take - 1 + 1 ELSE 0
          /\ \A i \in 1 .. take - 1 + 1 : head[i] = data[1 + i - 1]
      BY <3>1, <3>2, SubSeqProperties
    <3>4. \A i \in 1 .. take : 1 + i - 1 = i
      OBVIOUS
    <3> QED BY <3>2, <3>3, <3>4
  <2>7. /\ rest \in Seq(Int) /\ Len(rest) = n - take
        /\ \A i \in 1 .. n - take : rest[i] = data[take + i]
    <3>1. \A i \in take + 1 .. n : data[i] \in Int
      BY <2>1, <2>2, <2>4
    <3>2. take + 1 \in Int /\ n \in Int /\ n - (take + 1) + 1 = n - take
      BY <2>2, <2>4
    <3>3. /\ rest \in Seq(Int) /\ Len(rest) = IF take + 1 <= n THEN n - (take + 1) + 1 ELSE 0
          /\ \A i \in 1 .. n - (take + 1) + 1 : rest[i] = data[take + 1 + i - 1]
      BY <3>1, <3>2, SubSeqProperties
    <3>4. \A i \in 1 .. n - take : take + 1 + i - 1 = take + i
      BY <2>2, <2>4
    <3>5. take + 1 <= n \/ n - take = 0
      BY <2>2, <2>4
    <3> QED BY <2>2, <2>4, <3>2, <3>3, <3>4, <3>5
  <2>8. \A i \in 1 .. n : data[i] = message[Taken(h) + i]
    BY DEF Ahead
  <2>16. \A i \in 1 .. take : head[i] = message[Taken(h) + i]
    <3> SUFFICES ASSUME NEW i \in 1 .. take
                 PROVE  head[i] = message[Taken(h) + i]
      OBVIOUS
    <3>1. i \in 1 .. n
      BY <2>2, <2>4
    <3> HIDE DEF head, n
    <3> QED BY <2>6, <2>8, <3>1
  <2> DEFINE g == IF take = BlockLen THEN [h EXCEPT !.blocks = Append(@, head)] ELSE Filled(h, head)
  <2>9. Turn(state) = [hash |-> g, data |-> rest]
    BY <1>2 DEF Turn, take
  <2>10. Reached(g, message) /\ Taken(g) = Taken(h) + take /\ g.length = h.length
    <3>1. CASE take = BlockLen
      <4>1. h.pos = 0
        BY <2>3, <2>4, <3>1
      <4>2. head \in [1 .. BlockLen -> Int]
        BY <2>6, <3>1, LenProperties
      <4>3. g = [h EXCEPT !.blocks = Append(@, head)]
        BY <3>1
      <4> HIDE DEF g, head, h
      <4>4. Append(h.blocks, head) \in Seq([1 .. BlockLen -> Int])
        BY <2>1, <4>2, AppendProperties DEF Hash
      <4>5. /\ g \in Hash /\ g.blocks = Append(h.blocks, head) /\ g.pos = 0
            /\ g.length = h.length
        BY <2>1, <4>1, <4>3, <4>4 DEF Hash
      <4>6. Taken(h) = Start(Len(h.blocks))
        BY <2>3, <4>1
      <4>7. Start(Len(h.blocks)) + BlockLen <= Len(message)
        BY <2>2, <2>3, <2>4, <2>5, <3>1, <4>6
      <4>8. \A j \in 1 .. BlockLen : head[j] = message[Start(Len(h.blocks)) + j]
        BY <2>16, <3>1, <4>6
      <4>9. Reached(g, message) /\ Taken(g) = Start(Len(h.blocks)) + BlockLen
        BY <2>1, <4>2, <4>5, <4>7, <4>8, BlockReached
      <4> QED BY <3>1, <4>5, <4>6, <4>9
    <3>2. CASE take # BlockLen
      <4>1. g = Filled(h, head)
        BY <3>2
      <4> HIDE DEF g, head, h
      <4>2. Len(head) <= BlockLen - h.pos /\ Taken(h) + Len(head) <= Len(message)
        BY <2>2, <2>3, <2>4, <2>5, <2>6
      <4>3. \A i \in 1 .. Len(head) : head[i] = message[Taken(h) + i]
        BY <2>6, <2>16
      <4>4. /\ Reached(Filled(h, head), message)
            /\ Taken(Filled(h, head)) = Taken(h) + Len(head)
            /\ Filled(h, head).length = h.length
        BY <2>1, <2>6, <4>2, <4>3, FilledReached
      <4> QED BY <2>6, <4>1, <4>4
    <3> QED BY <3>1, <3>2
  <2>11. g \in Hash
    BY <2>10 DEF Reached
  <2> HIDE DEF g, rest, h, data
  <2>12. \A i \in 1 .. Len(rest) : rest[i] = message[Taken(g) + i]
    <3> SUFFICES ASSUME NEW i \in 1 .. Len(rest)
                 PROVE  rest[i] = message[Taken(g) + i]
      OBVIOUS
    <3>1. i \in 1 .. n - take /\ take + i \in 1 .. n
      BY <2>2, <2>4, <2>7
    <3>2. Taken(h) + (take + i) = Taken(g) + i
      BY <2>2, <2>3, <2>4, <2>10
    <3> QED BY <2>7, <2>8, <3>1, <3>2
  <2>13. Taken(g) + Len(rest) = last
    BY <2>2, <2>3, <2>4, <2>5, <2>7, <2>10
  <2>14. Ahead(Turn(state), message, last)
    BY <2>7, <2>9, <2>10, <2>12, <2>13 DEF Ahead
  <2>15. Len(Turn(state).data) < n
    BY <2>2, <2>4, <2>7, <2>9
  <2> QED BY <2>7, <2>9, <2>10, <2>11, <2>14, <2>15 DEF h, data
<1> QED BY <1>1, <1>2

(* All of the data is taken.                                               *)
Coming(h, data) == [hash |-> h, data |-> data]

IsUpdated(g, message, last, length) ==
  g \in Hash /\ Reached(g, message) /\ Taken(g) = last /\ g.length = length

(* Taking the rest of a message, by blocks or through the buffer, takes    *)
(* all of it (SHA2.update).                                                *)
LEMMA UpdateReached ==
  ASSUME NEW message \in Seq(Int), NEW last \in 0 .. Len(message),
         NEW h \in Hash, NEW data \in Seq(Int), Ahead(Coming(h, data), message, last)
  PROVE  IsUpdated(update(h, data), message, last, h.length + Len(data))
<1> USE DEF Coming
<1> DEFINE n == Len(data)
           States == {s \in [hash : Hash, data : Seq(Int)] :
                        Ahead(s, message, last) /\ s.hash.length = h.length}
           first == [hash |-> h, data |-> data]
           step == [k \in 1 .. n |-> [s \in States |-> Turn(s)]]
           Run(f) == f = [k \in 0 .. n |-> IF k = 0 THEN first ELSE Turn(f[k - 1])]
           after == CHOOSE f : Run(f)
<1>1. n \in Nat
  OBVIOUS
<1>2. first \in States
  OBVIOUS
<1>3. ASSUME NEW s \in States
      PROVE  Turn(s) \in States /\ (Len(s.data) > 0 => Len(Turn(s).data) < Len(s.data))
  BY TurnAhead
<1> HIDE DEF States, first
<1>4. Run(after)
  <2>1. step \in [1 .. n -> [States -> States]]
    BY <1>3
  <2>2. Iterations(n, States, first, step) # {}
    <3> HIDE DEF step, n
    <3> QED BY <1>1, <1>2, <2>1, Recursion
  <2>3. PICK f \in [0 .. n -> States] :
          f[0] = first /\ \A k \in 1 .. n : f[k] = step[k][f[k - 1]]
    BY <2>2 DEF Iterations
  <2>4. ASSUME NEW k \in 0 .. n
        PROVE  f[k] = IF k = 0 THEN first ELSE Turn(f[k - 1])
    <3>1. CASE k = 0
      BY <2>3, <3>1
    <3>2. CASE k # 0
      <4>1. k \in 1 .. n /\ k - 1 \in 0 .. n
        BY <1>1, <3>2
      <4>2. step[k][f[k - 1]] = Turn(f[k - 1])
        BY <4>1
      <4> QED BY <2>3, <3>2, <4>1, <4>2
    <3> QED BY <3>1, <3>2
  <2>5. Run(f)
    BY <2>4
  <2> HIDE DEF Run
  <2> QED BY <2>5
<1>5. /\ DOMAIN after = 0 .. n /\ after[0] = first
      /\ \A k \in 1 .. n : after[k] = Turn(after[k - 1])
  <2>1. after = [k \in 0 .. n |-> IF k = 0 THEN first ELSE Turn(after[k - 1])]
    BY <1>4
  <2>2. 0 \in 0 .. n /\ \A k \in 1 .. n : k \in 0 .. n /\ k # 0
    BY <1>1
  <2> HIDE DEF after
  <2> QED BY <2>1, <2>2
<1> HIDE DEF after
<1> DEFINE done == {k \in 0 .. n : after[k] \in States /\ Len(after[k].data) <= n - k}
<1>6. \A k \in 0 .. n : k \in done
  <2>1. 0 \in done
    <3>1. first.data = data
      BY DEF first
    <3> QED BY <1>1, <1>2, <1>5, <3>1
  <2>2. ASSUME NEW k \in 1 .. n, k - 1 \in done
        PROVE  k \in done
    <3>1. after[k - 1] \in States /\ Len(after[k - 1].data) <= n - (k - 1) /\ k \in 0 .. n
      BY <1>1, <2>2
    <3>2. /\ after[k] \in States
          /\ Len(after[k - 1].data) > 0 => Len(after[k].data) < Len(after[k - 1].data)
      BY <1>3, <1>5, <3>1
    <3>3. Len(after[k].data) \in Nat /\ Len(after[k - 1].data) \in Nat
      <4>1. ASSUME NEW s \in States
            PROVE  Len(s.data) \in Nat
        BY DEF States
      <4> HIDE DEF done, Run, step
      <4> QED BY <3>1, <3>2, <4>1
    <3>4. Len(after[k].data) <= n - k
      <4>1. CASE Len(after[k - 1].data) > 0
        <5> DEFINE a == Len(after[k].data)
                   b == Len(after[k - 1].data)
        <5>1. a < b /\ b <= n - (k - 1) /\ a \in Nat /\ b \in Nat /\ k \in 1 .. n
          BY <3>1, <3>2, <3>3, <4>1
        <5> HIDE DEF n, done, Run, step, a, b
        <5>2. a <= n - k
          BY <1>1, <5>1
        <5> QED BY <5>2 DEF a
      <4>2. CASE Len(after[k - 1].data) = 0
        <5>1. after[k - 1].data = <<>>
          BY <3>1, <4>2, EmptySeq DEF States
        <5>2. after[k] = after[k - 1]
          BY <1>5, <5>1 DEF Turn
        <5> QED BY <1>1, <4>2, <5>2
      <4> QED BY <3>3, <4>1, <4>2
    <3> QED BY <3>1, <3>2, <3>4
  <2> HIDE DEF done
  <2> QED BY <1>1, <2>1, <2>2, UpTo
<1>7. after[n] \in States /\ Len(after[n].data) = 0
  <2>1. n \in done
    BY <1>1, <1>6
  <2>2. after[n] \in States /\ Len(after[n].data) <= n - n
    BY <2>1
  <2>3. Len(after[n].data) \in Nat
    BY <2>2 DEF States
  <2> QED BY <1>1, <2>2, <2>3
<1>8. Fed(h, data) = after[n].hash
  BY DEF Fed, after, first
<1> DEFINE g == Fed(h, data)
<1>9. g \in Hash /\ Reached(g, message) /\ Taken(g) = last /\ g.length = h.length
  <2>1. Ahead(after[n], message, last) /\ after[n].hash \in Hash /\ after[n].hash.length = h.length
    BY <1>7 DEF States
  <2>2. Taken(g) + 0 = last /\ Reached(g, message)
    BY <1>7, <1>8, <2>1 DEF Ahead
  <2>3. Taken(g) \in Nat
    BY <1>8, <2>1, TakenFacts
  <2> QED BY <1>8, <2>1, <2>2, <2>3
<1> HIDE DEF g
<1>10. update(h, data) = [g EXCEPT !.length = h.length + n]
  BY <1>9 DEF update, g
<1>11. h.length + n \in Nat
  BY <1>1 DEF Hash
<1>12. update(h, data) = [buffer |-> g.buffer, pos |-> g.pos, length |-> h.length + n, blocks |-> g.blocks]
  BY <1>9, <1>10 DEF Hash
<1>13. update(h, data) \in Hash /\ Taken(update(h, data)) = last
  BY <1>9, <1>11, <1>12 DEF Hash, Taken
<1>14. Reached(update(h, data), message)
  BY <1>9, <1>12, <1>13 DEF Reached
<1> QED BY <1>12, <1>13, <1>14 DEF IsUpdated

(* A block holds what stands behind some place of a sequence; a sequence   *)
(* begins with another; a sequence is cut into blocks.                     *)
Behind(block, padded, at) == \A j \in 1 .. BlockLen : block[j] = padded[at + j]

Begins(padded, message) ==
  Len(message) <= Len(padded) /\ \A i \in 1 .. Len(message) : padded[i] = message[i]

InBlocks(blocks, padded) ==
  /\ Len(blocks) * BlockLen = Len(padded)
  /\ \A k \in DOMAIN blocks :
       blocks[k] = SubSeq(padded, (k - 1) * BlockLen + 1, k * BlockLen)

(* What PaddedFacts says of a padded message.                              *)
IsPadded(padded, message, filler, bits) ==
  /\ Begins(padded, message) /\ Len(padded) = Len(message) + 1 + filler + Len(bits)
  /\ padded[Len(message) + 1] = 128
  /\ \A i \in Len(message) + 2 .. Len(message) + 1 + filler : padded[i] = 0
  /\ \A i \in 1 .. Len(bits) : padded[Len(message) + 1 + filler + i] = bits[i]

(* A later block starts later.                                             *)
LEMMA StartMonotone ==
  ASSUME NEW j \in Nat, NEW k \in Nat, j <= k
  PROVE  Start(j) <= Start(k)
<1>1. BlockLen \in Nat
  BY BlockAssumption DEF BlockAssumption
<1>2. k - j \in Nat /\ k * BlockLen = j * BlockLen + (k - j) * BlockLen
  BY <1>1
<1>3. (k - j) * BlockLen \in Nat /\ j * BlockLen \in Nat
  BY <1>1, <1>2
<1> QED BY <1>2, <1>3 DEF Start

(* The k-th block of a padded message.                                     *)
LEMMA BlockIs ==
  ASSUME NEW S, NEW padded \in Seq(S), NEW k \in Nat \ {0}, Start(k) <= Len(padded),
         NEW block \in [1 .. BlockLen -> S], Behind(block, padded, Start(k - 1))
  PROVE  block = SubSeq(padded, (k - 1) * BlockLen + 1, k * BlockLen)
<1> DEFINE a == Start(k - 1)
           sub == SubSeq(padded, a + 1, a + BlockLen)
<1>1. k - 1 \in Nat /\ (k - 1) + 1 = k
  OBVIOUS
<1>2. a \in Nat /\ Start(k) = a + BlockLen /\ BlockLen \in Nat /\ BlockLen > 0
  BY <1>1, StartFacts, BlockAssumption DEF BlockAssumption
<1>3. (k - 1) * BlockLen = a /\ k * BlockLen = a + BlockLen
  BY <1>2 DEF Start
<1> HIDE DEF a
<1>4. \A i \in a + 1 .. a + BlockLen : padded[i] \in S
  <2> SUFFICES ASSUME NEW i \in a + 1 .. a + BlockLen
               PROVE  padded[i] \in S
    OBVIOUS
  <2>1. i \in 1 .. Len(padded)
    BY <1>2
  <2> QED BY <2>1
<1>5. /\ sub \in Seq(S)
      /\ Len(sub) = IF a + 1 <= a + BlockLen THEN (a + BlockLen) - (a + 1) + 1 ELSE 0
      /\ \A i \in 1 .. (a + BlockLen) - (a + 1) + 1 : sub[i] = padded[a + 1 + i - 1]
  <2>1. a + 1 \in Int /\ a + BlockLen \in Int
    BY <1>2
  <2> HIDE DEF sub
  <2> QED BY <1>4, <2>1, SubSeqProperties DEF sub
<1> HIDE DEF sub
<1>6. Len(sub) = BlockLen /\ \A i \in 1 .. BlockLen : sub[i] = padded[a + i]
  <2>1. (a + BlockLen) - (a + 1) + 1 = BlockLen /\ a + 1 <= a + BlockLen
    BY <1>2
  <2>2. \A i \in 1 .. BlockLen : a + 1 + i - 1 = a + i
    BY <1>2
  <2> QED BY <1>5, <2>1, <2>2
<1>7. sub \in [1 .. BlockLen -> S]
  BY <1>5, <1>6, LenProperties
<1>8. block = sub
  BY <1>6, <1>7 DEF a, Behind
<1> QED BY <1>3, <1>8 DEF sub

(* The message, the mark, as many zeros as it takes, and the length.       *)
LEMMA PaddedFacts ==
  ASSUME NEW S, Int \subseteq S, NEW message \in Seq(S), NEW filler \in Nat, NEW bits \in Seq(S),
         NEW padded, padded = message \o << 128 >> \o [i \in 1 .. filler |-> 0] \o bits
  PROVE  padded \in Seq(S) /\ IsPadded(padded, message, filler, bits)
<1> DEFINE n == Len(message)
           zeros == [i \in 1 .. filler |-> 0]
           one == message \o << 128 >>
           two == one \o zeros
           three == two \o bits
<1>1. n \in Nat /\ Len(bits) \in Nat
  OBVIOUS
<1>2. <<128>> \in Seq(S) /\ Len(<<128>>) = 1 /\ <<128>>[1] = 128
  OBVIOUS
<1>3. zeros \in Seq(S) /\ Len(zeros) = filler /\ \A i \in 1 .. filler : zeros[i] = 0
  OBVIOUS
<1> HIDE DEF zeros
<1>4. /\ one \in Seq(S) /\ Len(one) = n + 1
      /\ \A i \in 1 .. n + 1 : one[i] = IF i <= n THEN message[i] ELSE 128
  <2>1. /\ one \in Seq(S) /\ Len(one) = n + Len(<<128>>)
        /\ \A i \in 1 .. n + Len(<<128>>) :
             one[i] = IF i <= n THEN message[i] ELSE <<128>>[i - n]
    BY <1>2, ConcatProperties
  <2>2. \A i \in 1 .. n + 1 : i <= n \/ i - n = 1
    BY <1>1
  <2> HIDE DEF one, n
  <2> QED BY <1>1, <1>2, <2>1, <2>2
<1> HIDE DEF one
<1>5. /\ two \in Seq(S) /\ Len(two) = n + 1 + filler
      /\ \A i \in 1 .. n + 1 + filler : two[i] = IF i <= n + 1 THEN one[i] ELSE 0
  <2>1. /\ two \in Seq(S) /\ Len(two) = Len(one) + Len(zeros)
        /\ \A i \in 1 .. Len(one) + Len(zeros) :
             two[i] = IF i <= Len(one) THEN one[i] ELSE zeros[i - Len(one)]
    <3>1. one \in Seq(S) /\ zeros \in Seq(S)
      BY <1>3, <1>4
    <3> QED BY <3>1, ConcatProperties, Zenon
  <2>2. \A i \in 1 .. n + 1 + filler : i <= n + 1 \/ i - (n + 1) \in 1 .. filler
    BY <1>1
  <2> HIDE DEF two, n
  <2> QED BY <1>3, <1>4, <2>1, <2>2
<1> HIDE DEF two
<1>6. /\ three \in Seq(S) /\ Len(three) = n + 1 + filler + Len(bits)
      /\ \A i \in 1 .. n + 1 + filler + Len(bits) :
           three[i] = IF i <= n + 1 + filler THEN two[i] ELSE bits[i - (n + 1 + filler)]
  <2>1. /\ three \in Seq(S) /\ Len(three) = Len(two) + Len(bits)
        /\ \A i \in 1 .. Len(two) + Len(bits) :
             three[i] = IF i <= Len(two) THEN two[i] ELSE bits[i - Len(two)]
    BY <1>5, ConcatProperties
  <2> HIDE DEF three, n
  <2> QED BY <1>5, <2>1
<1> HIDE DEF three, n
<1>7. ASSUME NEW i \in 1 .. n
      PROVE  three[i] = message[i]
  BY <1>1, <1>4, <1>5, <1>6
<1>8. three[n + 1] = 128
  <2>1. n + 1 \in 1 .. n + 1 + filler + Len(bits) /\ n + 1 \in 1 .. n + 1 + filler
        /\ n + 1 \in 1 .. n + 1 /\ ~(n + 1 <= n) /\ n + 1 <= n + 1 + filler
    BY <1>1
  <2> QED BY <1>4, <1>5, <1>6, <2>1
<1>9. ASSUME NEW i \in n + 2 .. n + 1 + filler
      PROVE  three[i] = 0
  <2>1. i \in 1 .. n + 1 + filler + Len(bits) /\ i \in 1 .. n + 1 + filler
        /\ ~(i <= n + 1) /\ i <= n + 1 + filler
    BY <1>1
  <2> QED BY <1>5, <1>6, <2>1
<1>10. ASSUME NEW i \in 1 .. Len(bits)
       PROVE  three[n + 1 + filler + i] = bits[i]
  <2>1. n + 1 + filler + i \in 1 .. n + 1 + filler + Len(bits)
        /\ ~(n + 1 + filler + i <= n + 1 + filler) /\ (n + 1 + filler + i) - (n + 1 + filler) = i
    BY <1>1
  <2> QED BY <1>6, <2>1
<1>11. padded = three
  BY DEF three, two, one, zeros
<1>12. n <= n + 1 + filler + Len(bits)
  BY <1>1
<1> QED BY <1>6, <1>7, <1>8, <1>9, <1>10, <1>11, <1>12 DEF n, IsPadded, Begins

(* How many zeros there are.                                               *)
LEMMA FillerFacts ==
  ASSUME NEW n \in Nat, NEW p \in 0 .. BlockLen - 1
  PROVE  LET len == Start(n) + p
             filler == (-(len + 1 + PadOffset)) % BlockLen
         IN /\ filler \in Nat
            /\ PadOffset > BlockLen - (p + 1) =>
                 len + 1 + filler + PadOffset = Start(n) + BlockLen + BlockLen
            /\ ~(PadOffset > BlockLen - (p + 1)) =>
                 len + 1 + filler + PadOffset = Start(n) + BlockLen
<1> DEFINE start == Start(n)
           len == start + p
           filler == (-(len + 1 + PadOffset)) % BlockLen
<1>1. BlockLen \in Nat /\ BlockLen > 0 /\ PadOffset \in 1 .. BlockLen - 1 /\ start \in Nat
  BY BlockAssumption, StartFacts DEF BlockAssumption
<1>2. start = n * BlockLen
  BY DEF Start
<1> HIDE DEF start
<1>3. ASSUME PadOffset > BlockLen - (p + 1)
      PROVE  filler = BlockLen + BlockLen - (p + 1 + PadOffset) /\ filler \in Nat
  <2> DEFINE f == BlockLen + BlockLen - (p + 1 + PadOffset)
             m == -(n + 2)
  <2>1. f \in 0 .. BlockLen - 1 /\ m \in Int
    BY <1>1, <1>3
  <2>2. m * BlockLen = -(n * BlockLen) - BlockLen - BlockLen
    BY <1>1
  <2> HIDE DEF m
  <2>3. m * BlockLen + f = -(len + 1 + PadOffset)
    BY <1>1, <1>2, <2>2
  <2> HIDE DEF f, len
  <2>4. (m * BlockLen + f) % BlockLen = f
    BY <1>1, <2>1, RemainderIs
  <2>5. filler = f /\ f \in Nat
    BY <1>1, <2>1, <2>3, <2>4
  <2> QED BY <2>5 DEF f
<1>4. ASSUME ~(PadOffset > BlockLen - (p + 1))
      PROVE  filler = BlockLen - (p + 1 + PadOffset) /\ filler \in Nat
  <2> DEFINE f == BlockLen - (p + 1 + PadOffset)
             m == -(n + 1)
  <2>1. f \in 0 .. BlockLen - 1 /\ m \in Int
    BY <1>1, <1>4
  <2>2. m * BlockLen = -(n * BlockLen) - BlockLen
    BY <1>1
  <2> HIDE DEF m
  <2>3. m * BlockLen + f = -(len + 1 + PadOffset)
    BY <1>1, <1>2, <2>2
  <2> HIDE DEF f, len
  <2>4. (m * BlockLen + f) % BlockLen = f
    BY <1>1, <2>1, RemainderIs
  <2>5. filler = f /\ f \in Nat
    BY <1>1, <2>1, <2>3, <2>4
  <2> QED BY <2>5 DEF f
<1> HIDE DEF filler
<1>5. filler \in Nat
  BY <1>3, <1>4
<1>6. ASSUME PadOffset > BlockLen - (p + 1)
      PROVE  len + 1 + filler + PadOffset = start + BlockLen + BlockLen
  BY <1>1, <1>3, <1>6
<1>7. ASSUME ~(PadOffset > BlockLen - (p + 1))
      PROVE  len + 1 + filler + PadOffset = start + BlockLen
  BY <1>1, <1>4, <1>7
<1> QED BY <1>5, <1>6, <1>7 DEF start, filler

(* The block with the rest of the message and the mark, as digestInto makes *)
(* it, and what it comes to up to the length.                              *)
MarkedBlock(h) ==
  [i \in 1 .. BlockLen |->
     CASE i < h.pos + 1 -> h.buffer[i] [] i = h.pos + 1 -> 128 [] OTHER -> 0]

IsMarked(block, padded, start, end) ==
  /\ block \in [1 .. BlockLen -> Int]
  /\ \A j \in 1 .. BlockLen : start + j <= end => block[j] = padded[start + j]

(* Marking the end keeps what the buffer holds of the message and clears   *)
(* the rest of it.                                                         *)
LEMMA MarkedIs ==
  ASSUME NEW message \in Seq(Int), NEW h \in Hash, Reached(h, message), Taken(h) = Len(message),
         NEW filler \in Nat, NEW bits, NEW padded, IsPadded(padded, message, filler, bits)
  PROVE  IsMarked(MarkedBlock(h), padded, Start(Len(h.blocks)), Len(message) + 1 + filler)
<1> DEFINE start == Start(Len(h.blocks))
           len == Len(message)
           p == h.pos
           marked == [i \in 1 .. BlockLen |->
                        CASE i < p + 1 -> h.buffer[i] [] i = p + 1 -> 128 [] OTHER -> 0]
<1>1. p \in Nat /\ start \in Nat /\ len = start + p /\ BlockLen \in Nat /\ len \in Nat
  BY TakenFacts
<1>2. /\ h.buffer \in [1 .. BlockLen -> Int]
      /\ \A j \in 1 .. p : h.buffer[j] = message[start + j]
  BY DEF Hash, Reached
<1> HIDE DEF start, len, p
<1>3. marked \in [1 .. BlockLen -> Int]
  <2>1. ASSUME NEW i \in 1 .. BlockLen
        PROVE  (CASE i < p + 1 -> h.buffer[i] [] i = p + 1 -> 128 [] OTHER -> 0) \in Int
    <3>1. h.buffer[i] \in Int
      BY <1>2
    <3>2. CASE i < p + 1
      <4>1. i # p + 1
        BY <1>1, <3>2
      <4> QED BY <3>1, <3>2, <4>1
    <3>3. CASE ~(i < p + 1)
      BY <3>3
    <3> QED BY <3>2, <3>3
  <2> QED BY <2>1
<1>4. ASSUME NEW j \in 1 .. BlockLen, start + j <= len + 1 + filler
      PROVE  marked[j] = padded[start + j]
  <2>1. CASE j < p + 1
    <3>1. j \in 1 .. p /\ start + j \in 1 .. len /\ j # p + 1
      BY <1>1, <2>1
    <3>2. marked[j] = h.buffer[j]
      BY <2>1, <3>1
    <3>3. padded[start + j] = message[start + j]
      BY <3>1 DEF len, IsPadded, Begins
    <3> QED BY <1>2, <3>1, <3>2, <3>3
  <2>2. CASE j = p + 1
    <3>1. start + j = len + 1 /\ ~(j < p + 1)
      BY <1>1, <2>2
    <3>2. marked[j] = 128
      BY <2>2, <3>1
    <3>3. padded[len + 1] = 128
      BY DEF len, IsPadded
    <3> QED BY <3>1, <3>2, <3>3
  <2>3. CASE j > p + 1
    <3>1. start + j \in len + 2 .. len + 1 + filler /\ ~(j < p + 1) /\ j # p + 1
      BY <1>1, <1>4, <2>3
    <3>2. marked[j] = 0
      BY <3>1
    <3>3. padded[start + j] = 0
      BY <3>1 DEF len, IsPadded
    <3> QED BY <3>2, <3>3
  <2>4. j < p + 1 \/ j = p + 1 \/ j > p + 1
    BY <1>1
  <2> QED BY <2>1, <2>2, <2>3, <2>4
<1>5. MarkedBlock(h) = marked
  BY DEF MarkedBlock, p
<1> HIDE DEF marked
<1>6. IsMarked(marked, padded, start, len + 1 + filler)
  BY <1>3, <1>4 DEF IsMarked
<1> QED BY <1>5, <1>6 DEF start, len

(* A block whose first part is left and whose last part is the length.     *)
LEMMA EndsWithLength ==
  ASSUME NEW S, NEW left \in Seq(S), Len(left) = BlockLen - PadOffset,
         NEW bits \in Seq(S), Len(bits) = PadOffset, NEW at \in Nat, NEW padded,
         \A j \in 1 .. BlockLen - PadOffset : left[j] = padded[at + j],
         \A j \in 1 .. PadOffset : padded[at + (BlockLen - PadOffset) + j] = bits[j]
  PROVE  left \o bits \in [1 .. BlockLen -> S] /\ Behind(left \o bits, padded, at)
<1> DEFINE size == BlockLen - PadOffset
           block == left \o bits
<1>1. BlockLen \in Nat /\ PadOffset \in Nat /\ size \in Nat /\ size + PadOffset = BlockLen
  BY BlockAssumption DEF BlockAssumption
<1>2. left \o bits \in Seq(S) /\ IsJoin(left \o bits, left, bits)
  BY Joined
<1> HIDE DEF block
<1>3. block \in Seq(S) /\ Len(block) = BlockLen
  BY <1>1, <1>2 DEF block, IsJoin
<1>4. block \in [1 .. BlockLen -> S]
  BY <1>3, LenProperties
<1>5. ASSUME NEW j \in 1 .. BlockLen
      PROVE  block[j] = padded[at + j]
  <2>1. CASE j <= size
    <3>1. j \in 1 .. size
      BY <1>1, <2>1
    <3>2. block[j] = left[j]
      BY <1>2, <3>1 DEF IsJoin, block
    <3> QED BY <3>1, <3>2
  <2>2. CASE ~(j <= size)
    <3> DEFINE i == j - size
    <3>1. i \in 1 .. PadOffset /\ size + i = j /\ at + size + i = at + j
      BY <1>1, <2>2
    <3> HIDE DEF i
    <3>2. block[size + i] = bits[i]
      BY <1>2, <3>1 DEF IsJoin, block
    <3>3. padded[at + size + i] = bits[i]
      BY <3>1
    <3> HIDE DEF size
    <3> QED BY <3>1, <3>2, <3>3
  <2> QED BY <2>1, <2>2
<1> QED BY <1>4, <1>5 DEF block, Behind

(* The blocks of the message with more behind them.                        *)
LEMMA BlocksAre ==
  ASSUME NEW S, Int \subseteq S, NEW message \in Seq(Int), NEW h \in Hash, Reached(h, message),
         NEW padded \in Seq(S), Begins(padded, message),
         NEW more \in Seq([1 .. BlockLen -> S]), Start(Len(h.blocks) + Len(more)) = Len(padded),
         \A e \in 1 .. Len(more) : Behind(more[e], padded, Start(Len(h.blocks) + e - 1))
  PROVE  InBlocks(h.blocks \o more, padded)
<1> DEFINE T == [1 .. BlockLen -> S]
           n == Len(h.blocks)
           m == Len(more)
           blocks == h.blocks \o more
<1>1. n \in Nat /\ m \in Nat /\ Taken(h) \in Nat /\ Start(n) \in Nat /\ BlockLen \in Nat
      /\ Taken(h) = Start(n) + h.pos /\ h.pos \in Nat
  BY TakenFacts
<1>2. h.blocks \in Seq([1 .. BlockLen -> Int])
  BY DEF Hash
<1>3. h.blocks \in Seq(T) /\ more \in Seq(T)
  BY <1>2, SeqOfWider
<1> HIDE DEF T, blocks
<1>4. /\ blocks \in Seq(T) /\ Len(blocks) = n + m
      /\ \A i \in 1 .. n : blocks[i] = h.blocks[i]
      /\ \A i \in 1 .. m : blocks[n + i] = more[i]
  <2>1. h.blocks \o more \in Seq(T) /\ IsJoin(h.blocks \o more, h.blocks, more)
    BY <1>3, Joined
  <2> QED BY <2>1 DEF IsJoin, blocks
<1>5. Len(blocks) = n + m /\ DOMAIN blocks = 1 .. n + m
  <2>1. DOMAIN blocks = 1 .. Len(blocks)
    BY <1>4, LenProperties
  <2> QED BY <1>4, <2>1
<1> HIDE DEF n, m
<1>6. ASSUME NEW k \in 1 .. n + m
      PROVE  /\ k \in Nat \ {0} /\ Start(k) <= Len(padded) /\ Start(k) = Start(k - 1) + BlockLen
             /\ Start(k - 1) \in Nat
  <2>1. k \in Nat \ {0} /\ k - 1 \in Nat /\ (k - 1) + 1 = k /\ k <= n + m /\ n + m \in Nat
    BY <1>1
  <2>2. Start(k) <= Start(n + m)
    BY <2>1, StartMonotone
  <2> QED BY <2>1, <2>2, StartFacts DEF n, m
<1>7. ASSUME NEW k \in 1 .. n + m
      PROVE  /\ blocks[k] \in [1 .. BlockLen -> S]
             /\ Behind(blocks[k], padded, Start(k - 1))
  <2>1. blocks[k] \in [1 .. BlockLen -> S]
    BY <1>4, <1>5 DEF T
  <2>2. CASE k <= n
    <3>1. k \in 1 .. n /\ k - 1 \in Nat /\ k \in Nat /\ (k - 1) + 1 = k
      BY <1>1, <2>2
    <3>2. Start(k) <= Start(n)
      BY <1>1, <2>2, <3>1, StartMonotone
    <3>3. Start(k) <= Len(message)
      <4>1. Taken(h) <= Len(message) /\ Len(message) \in Nat
        BY DEF Reached
      <4> DEFINE a == Start(k)
                 b == Start(n)
                 c == Taken(h)
                 d == Len(message)
      <4>2. a <= b /\ b <= c /\ c <= d /\ d \in Nat
        BY <1>1, <3>2, <4>1
      <4>3. a \in Nat /\ b \in Nat /\ c \in Nat
        BY <1>1, <3>1, StartFacts
      <4> HIDE DEF a, b, c, d
      <4> QED BY <4>2, <4>3 DEF a, d
    <3>4. ASSUME NEW j \in 1 .. BlockLen
          PROVE  blocks[k][j] = padded[Start(k - 1) + j]
      <4>1. Start(k - 1) + j \in 1 .. Len(message)
        <5>1. Len(message) \in Nat
          OBVIOUS
        <5>2. Start(k) = Start(k - 1) + BlockLen /\ Start(k - 1) \in Nat
          BY <1>6
        <5> DEFINE a == Start(k - 1)
                   b == Len(message)
        <5> HIDE DEF a, b
        <5>3. a \in Nat /\ b \in Nat /\ a + BlockLen <= b
          BY <3>3, <5>1, <5>2 DEF a, b
        <5>4. a + j \in 1 .. b
          BY <1>1, <5>3
        <5> QED BY <5>4 DEF a, b
      <4>2. h.blocks[k][j] = message[Start(k - 1) + j]
        BY <3>1 DEF Reached, n
      <4>3. padded[Start(k - 1) + j] = message[Start(k - 1) + j]
        BY <4>1 DEF Begins
      <4> QED BY <1>4, <3>1, <4>2, <4>3
    <3> QED BY <2>1, <3>4 DEF Behind
  <2>3. CASE ~(k <= n)
    <3> DEFINE e == k - n
    <3>1. e \in 1 .. m /\ n + e = k /\ n + e - 1 = k - 1
      BY <1>1, <2>3
    <3> HIDE DEF e
    <3>2. blocks[n + e] = more[e]
      BY <1>4, <3>1
    <3>3. Behind(more[e], padded, Start(n + e - 1))
      BY <3>1 DEF n, m
    <3> QED BY <2>1, <3>1, <3>2, <3>3
  <2> QED BY <2>2, <2>3
<1>8. ASSUME NEW k \in DOMAIN blocks
      PROVE  blocks[k] = SubSeq(padded, (k - 1) * BlockLen + 1, k * BlockLen)
  <2>1. k \in 1 .. n + m
    BY <1>5
  <2>2. k \in Nat \ {0} /\ Start(k) <= Len(padded) /\ blocks[k] \in [1 .. BlockLen -> S]
    BY <1>6, <1>7, <2>1
  <2>3. Behind(blocks[k], padded, Start(k - 1))
    BY <1>7, <2>1
  <2> DEFINE block == blocks[k]
  <2> HIDE DEF block
  <2>4. block \in [1 .. BlockLen -> S] /\ Behind(block, padded, Start(k - 1))
    BY <2>2, <2>3 DEF block
  <2>5. block = SubSeq(padded, (k - 1) * BlockLen + 1, k * BlockLen)
    <3>1. k \in Nat \ {0} /\ Start(k) <= Len(padded) /\ padded \in Seq(S)
      BY <2>2
    <3> QED BY <2>4, <3>1, BlockIs
  <2> QED BY <2>5 DEF block
<1>9. Len(blocks) * BlockLen = Len(padded)
  <2>1. Start(n + m) = Len(padded)
    BY DEF n, m
  <2> QED BY <1>5, <2>1 DEF Start
<1> QED BY <1>8, <1>9 DEF InBlocks, blocks

(* The last blocks: what the buffer has of the message, the mark, zeros up *)
(* to the length in the last one, in one block if there is room for it.    *)
LEMMA DigestPadded ==
  ASSUME NEW message \in Seq(Int), NEW h \in Hash, Reached(h, message),
         Taken(h) = Len(message), h.length = Len(message)
  PROVE  LET filler == (-(Len(message) + 1 + PadOffset)) % BlockLen
             padded == message \o <<128>> \o [i \in 1 .. filler |-> 0]
                         \o BigEndian(8 * Len(message), PadOffset)
         IN InBlocks(digestInto(h), padded)
<1> DEFINE len == Len(message)
           filler == (-(len + 1 + PadOffset)) % BlockLen
           bits == BigEndian(8 * len, PadOffset)
           padded == message \o <<128>> \o [i \in 1 .. filler |-> 0] \o bits
           S == Int \cup {bits[i] : i \in 1 .. PadOffset}
           T == [1 .. BlockLen -> S]
           n == Len(h.blocks)
           p == h.pos
           start == Start(n)
           marked == [i \in 1 .. BlockLen |->
                        CASE i < p + 1 -> h.buffer[i] [] i = p + 1 -> 128 [] OTHER -> 0]
           size == BlockLen - PadOffset
           zeros == [i \in 1 .. size |-> 0]
           full == PadOffset > BlockLen - (p + 1)
           left == SubSeq(marked, 1, size)
           more == IF full THEN <<marked, zeros \o bits>> ELSE <<left \o bits>>
<1>1. /\ n \in Nat /\ start \in Nat /\ p \in 0 .. BlockLen - 1 /\ len \in Nat
      /\ len = start + p /\ BlockLen \in Nat
  BY TakenFacts
<1>2. PadOffset \in 1 .. BlockLen - 1 /\ size \in 1 .. BlockLen - 1 /\ size + PadOffset = BlockLen
  BY <1>1, BlockAssumption DEF BlockAssumption
<1>3. /\ Start(n + 1) = start + BlockLen /\ Start(n + 2) = start + BlockLen + BlockLen
      /\ Start(n + 1) \in Nat
  <2>1. n + 1 \in Nat /\ (n + 1) + 1 = n + 2
    BY <1>1
  <2>2. Start(n + 1) = start + BlockLen /\ Start((n + 1) + 1) = Start(n + 1) + BlockLen
    BY <1>1, <2>1, StartFacts
  <2> HIDE DEF n, start
  <2> QED BY <2>1, <2>2, StartFacts
<1> HIDE DEF n, p, start
<1>4. /\ filler \in Nat
      /\ full => len + 1 + filler + PadOffset = start + BlockLen + BlockLen
      /\ ~full => len + 1 + filler + PadOffset = start + BlockLen
  <2> DEFINE f == (-((Start(n) + p) + 1 + PadOffset)) % BlockLen
  <2>1. /\ f \in Nat
        /\ full => (Start(n) + p) + 1 + f + PadOffset = Start(n) + BlockLen + BlockLen
        /\ ~full => (Start(n) + p) + 1 + f + PadOffset = Start(n) + BlockLen
    BY <1>1, FillerFacts
  <2>2. Start(n) + p = len
    BY <1>1 DEF start
  <2>3. filler = f
    BY <2>2
  <2> HIDE DEF f, filler, len
  <2> QED BY <2>1, <2>2, <2>3 DEF start
<1>5. bits \in Seq(S) /\ Len(bits) = PadOffset /\ Int \subseteq S /\ message \in Seq(S)
  <2>1. bits = [j \in 1 .. PadOffset |-> bits[j]] /\ PadOffset \in Nat
    BY <1>2 DEF BigEndian
  <2>2. \A j \in 1 .. PadOffset : bits[j] \in S
    OBVIOUS
  <2>3. Int \subseteq S
    OBVIOUS
  <2> HIDE DEF bits, S
  <2>4. bits \in Seq(S) /\ Len(bits) = PadOffset
    BY <2>1, <2>2
  <2>5. message \in Seq(S)
    <3>1. message \in [1 .. len -> Int] /\ len \in Nat
      BY LenProperties
    <3>2. message \in [1 .. len -> S]
      BY <2>3, <3>1
    <3> HIDE DEF len
    <3> QED BY <3>1, <3>2
  <2> QED BY <2>3, <2>4, <2>5
<1> HIDE DEF filler, bits, S
<1>6. padded \in Seq(S) /\ IsPadded(padded, message, filler, bits)
  <2>1. padded = message \o <<128>> \o [i \in 1 .. filler |-> 0] \o bits
    OBVIOUS
  <2> HIDE DEF padded
  <2> QED BY <1>4, <1>5, <2>1, PaddedFacts
<1> HIDE DEF padded
<1>7. Len(padded) = len + 1 + filler + PadOffset
  BY <1>5, <1>6 DEF IsPadded
<1>8. /\ marked \in [1 .. BlockLen -> Int]
      /\ \A j \in 1 .. BlockLen : start + j <= len + 1 + filler => marked[j] = padded[start + j]
  <2>1. marked = MarkedBlock(h)
    BY DEF p, MarkedBlock
  <2>2. filler \in Nat
    BY <1>4
  <2> HIDE DEF marked
  <2>3. IsMarked(MarkedBlock(h), padded, Start(Len(h.blocks)), Len(message) + 1 + filler)
    BY <1>6, <2>2, MarkedIs
  <2> QED BY <2>1, <2>3 DEF n, start, IsMarked
<1> HIDE DEF marked, zeros, left
<1>9. digestInto(h) = h.blocks \o more
  <2>1. h.length * 8 = 8 * len
    BY <1>1
  <2> QED BY <2>1 DEF digestInto, marked, zeros, bits, left, p
<1> HIDE DEF len, size
<1>10. /\ more \in Seq(T) /\ Start(n + Len(more)) = Len(padded)
       /\ \A e \in 1 .. Len(more) : Behind(more[e], padded, Start(n + e - 1))
  <2>1. marked \in T
    BY <1>5, <1>8
  <2>2. CASE full
    <3> DEFINE at == Start(n + 1)
               last == zeros \o bits
    <3>1. at \in Nat /\ len + 1 + filler = at + size
      BY <1>1, <1>2, <1>3, <1>4, <2>2
    <3>2. zeros \in Seq(S) /\ Len(zeros) = size /\ \A j \in 1 .. size : zeros[j] = 0
      BY <1>2, <1>5 DEF zeros
    <3>3. ASSUME NEW j \in 1 .. size
          PROVE  zeros[j] = padded[at + j]
      <4>1. at + j \in len + 2 .. len + 1 + filler
        <5>1. len + 1 <= at
          BY <1>1, <1>3
        <5> QED BY <1>1, <1>2, <3>1, <5>1
      <4> QED BY <1>6, <3>2, <4>1 DEF IsPadded, len
    <3>4. \A j \in 1 .. PadOffset : padded[at + size + j] = bits[j]
      BY <1>5, <1>6, <3>1 DEF IsPadded, len
    <3>5. last \in T /\ Behind(last, padded, at)
      <4> HIDE DEF at
      <4> QED BY <1>5, <3>1, <3>2, <3>3, <3>4, EndsWithLength DEF size
    <3>6. Behind(marked, padded, start)
      <4>1. \A j \in 1 .. BlockLen : start + j <= at + size
        BY <1>1, <1>2, <1>3
      <4> QED BY <1>8, <3>1, <4>1 DEF Behind
    <3> HIDE DEF T, at, last
    <3>7. /\ more = <<marked, last>> /\ Len(more) = 2 /\ more \in Seq(T)
          /\ more[1] = marked /\ more[2] = last
      <4>1. more = <<marked, last>>
        BY <2>2 DEF last
      <4> HIDE DEF more
      <4> QED BY <2>1, <3>5, <4>1
    <3>8. Start(n + Len(more)) = Len(padded)
      BY <1>3, <1>4, <1>7, <2>2, <3>7
    <3>9. ASSUME NEW e \in 1 .. Len(more)
          PROVE  Behind(more[e], padded, Start(n + e - 1))
      <4>1. CASE e = 1
        <5>1. n + e - 1 = n
          BY <1>1, <4>1
        <5> QED BY <3>6, <3>7, <4>1, <5>1 DEF start
      <4>2. CASE e = 2
        <5>1. n + e - 1 = n + 1
          BY <1>1, <4>2
        <5> QED BY <3>5, <3>7, <4>2, <5>1 DEF at
      <4>3. e = 1 \/ e = 2
        BY <3>7
      <4> QED BY <4>1, <4>2, <4>3
    <3> QED BY <3>7, <3>8, <3>9
  <2>3. CASE ~full
    <3> DEFINE last == left \o bits
    <3>1. len + 1 + filler = start + size
      BY <1>1, <1>2, <1>4, <2>3
    <3>2. /\ left \in Seq(S) /\ Len(left) = size
          /\ \A i \in 1 .. size : left[i] = marked[i]
      <4>1. size \in Nat /\ 1 <= size /\ size - 1 + 1 = size /\ size <= BlockLen
        BY <1>1, <1>2
      <4>2. \A i \in 1 .. size : marked[i] \in S
        BY <1>1, <1>5, <1>8, <4>1
      <4>3. /\ SubSeq(marked, 1, size) \in Seq(S)
            /\ Len(SubSeq(marked, 1, size)) = IF 1 <= size THEN size - 1 + 1 ELSE 0
            /\ \A i \in 1 .. size - 1 + 1 : SubSeq(marked, 1, size)[i] = marked[1 + i - 1]
        BY <4>1, <4>2, SubSeqProperties
      <4>4. \A i \in 1 .. size : 1 + i - 1 = i
        OBVIOUS
      <4>5. left = SubSeq(marked, 1, size)
        BY DEF left
      <4> QED BY <4>1, <4>3, <4>4, <4>5
    <3>3. ASSUME NEW j \in 1 .. size
          PROVE  left[j] = padded[start + j]
      <4>1. j \in 1 .. BlockLen /\ start + j <= len + 1 + filler
        BY <1>1, <1>2, <3>1
      <4> QED BY <1>8, <3>2, <4>1
    <3>4. \A j \in 1 .. PadOffset : padded[start + size + j] = bits[j]
      BY <1>5, <1>6, <3>1 DEF IsPadded, len
    <3>5. last \in T /\ Behind(last, padded, start)
      <4>1. start \in Nat /\ Len(left) = BlockLen - PadOffset /\ left \in Seq(S)
        BY <1>1, <3>2 DEF size
      <4> QED BY <1>5, <3>3, <3>4, <4>1, EndsWithLength DEF size
    <3> HIDE DEF T, last
    <3>6. more = <<last>> /\ Len(more) = 1 /\ more \in Seq(T) /\ more[1] = last
      <4>1. more = <<last>>
        BY <2>3 DEF last
      <4> HIDE DEF more
      <4> QED BY <3>5, <4>1
    <3>7. Start(n + Len(more)) = Len(padded)
      BY <1>3, <1>4, <1>7, <2>3, <3>6
    <3>8. ASSUME NEW e \in 1 .. Len(more)
          PROVE  Behind(more[e], padded, Start(n + e - 1))
      <4>1. e = 1 /\ n + e - 1 = n
        BY <1>1, <3>6
      <4> QED BY <3>5, <3>6, <4>1 DEF start
    <3> QED BY <3>6, <3>7, <3>8
  <2> QED BY <2>2, <2>3
<1> HIDE DEF more
<1>11. InBlocks(h.blocks \o more, padded)
  <2>1. Begins(padded, message)
    BY <1>6 DEF IsPadded
  <2>2. /\ more \in Seq([1 .. BlockLen -> S]) /\ Start(Len(h.blocks) + Len(more)) = Len(padded)
        /\ \A e \in 1 .. Len(more) : Behind(more[e], padded, Start(Len(h.blocks) + e - 1))
    BY <1>10 DEF n
  <2> QED BY <1>5, <1>6, <2>1, <2>2, BlocksAre
<1>12. InBlocks(digestInto(h), padded)
  BY <1>9, <1>11
<1> QED BY <1>12 DEF padded, filler, len, bits

(* A new hash has taken nothing.                                           *)
LEMMA CreatedReached ==
  ASSUME NEW message \in Seq(Int)
  PROVE  Reached(Created, message) /\ Taken(Created) = 0 /\ Created \in Hash /\ Created.length = 0
<1>1. BlockLen \in Nat /\ BlockLen > 0
  BY BlockAssumption DEF BlockAssumption
<1>2. Created \in Hash /\ Created.pos = 0 /\ Created.blocks = <<>> /\ Created.length = 0
  BY <1>1 DEF Created, Hash
<1>3. Start(0) = 0
  BY StartFacts
<1>4. Taken(Created) = 0
  BY <1>2, <1>3 DEF Taken
<1>5. Len(message) \in Nat /\ Len(Created.blocks) = 0
  BY <1>2
<1> QED BY <1>2, <1>4, <1>5 DEF Reached

(* A part of a message, and what it is.                                    *)
LEMMA Part ==
  ASSUME NEW message \in Seq(Int), NEW from \in 0 .. Len(message), NEW to \in from .. Len(message)
  PROVE  /\ SubSeq(message, from + 1, to) \in Seq(Int)
         /\ Len(SubSeq(message, from + 1, to)) = to - from
         /\ \A i \in 1 .. to - from : SubSeq(message, from + 1, to)[i] = message[from + i]
<1> DEFINE part == SubSeq(message, from + 1, to)
<1>1. \A i \in from + 1 .. to : message[i] \in Int
  <2> SUFFICES ASSUME NEW i \in from + 1 .. to
               PROVE  message[i] \in Int
    OBVIOUS
  <2>1. i \in 1 .. Len(message)
    OBVIOUS
  <2> QED BY <2>1
<1>2. from + 1 \in Int /\ to \in Int /\ to - (from + 1) + 1 = to - from
  OBVIOUS
<1>3. /\ part \in Seq(Int) /\ Len(part) = IF from + 1 <= to THEN to - (from + 1) + 1 ELSE 0
      /\ \A i \in 1 .. to - (from + 1) + 1 : part[i] = message[from + 1 + i - 1]
  BY <1>1, <1>2, SubSeqProperties
<1>4. \A i \in 1 .. to - from : from + 1 + i - 1 = from + i
  OBVIOUS
<1>5. from + 1 <= to \/ to - from = 0
  OBVIOUS
<1> HIDE DEF part
<1> QED BY <1>2, <1>3, <1>4, <1>5 DEF part

(* The next part of a message in update. *)
LEMMA PartTaken ==
  ASSUME NEW message \in Seq(Int), NEW h \in Hash, Reached(h, message), h.length = Taken(h),
         NEW to \in Taken(h) .. Len(message), NEW data, data = SubSeq(message, Taken(h) + 1, to)
  PROVE  IsUpdated(update(h, data), message, to, to)
<1> DEFINE from == Taken(h)
           state == Coming(h, data)
<1>1. from \in Nat /\ from <= Len(message) /\ Len(message) \in Nat
  BY TakenFacts DEF Reached
<1> HIDE DEF from
<1>2. /\ data \in Seq(Int) /\ Len(data) = to - from
      /\ \A i \in 1 .. to - from : data[i] = message[from + i]
  <2>1. from \in 0 .. Len(message) /\ to \in from .. Len(message)
    BY <1>1 DEF from
  <2> QED BY <2>1, Part DEF from
<1>3. Ahead(state, message, to)
  <2>1. Taken(h) + Len(data) = to /\ to \in Nat /\ to \in 0 .. Len(message)
    BY <1>1, <1>2 DEF from
  <2>2. \A i \in 1 .. Len(data) : data[i] = message[Taken(h) + i]
    BY <1>2 DEF from
  <2> QED BY <1>2, <2>1, <2>2 DEF Ahead, Coming
<1>4. to \in 0 .. Len(message)
  BY <1>1 DEF from
<1>5. IsUpdated(update(h, data), message, to, h.length + Len(data))
  BY <1>2, <1>3, <1>4, UpdateReached
<1>6. h.length + Len(data) = to
  BY <1>1, <1>2 DEF from
<1> QED BY <1>5, <1>6

(* What is hashed of a message, in whatever two parts.                     *)
PaddedMessage(message) ==
  LET filler == (-(Len(message) + 1 + PadOffset)) % BlockLen
  IN message \o <<128>> \o [i \in 1 .. filler |-> 0] \o BigEndian(8 * Len(message), PadOffset)

(* A message hashed in two parts comes to the blocks of the padded         *)
(* message.                                                                *)
LEMMA MessagePadded ==
  ASSUME NEW message \in Seq(Int), NEW first \in 0 .. Len(message)
  PROVE  InBlocks(hashC(message, first), PaddedMessage(message))
<1> DEFINE one == update(Created, SubSeq(message, 1, first))
           two == update(one, SubSeq(message, first + 1, Len(message)))
<1>1. Reached(Created, message) /\ Taken(Created) = 0 /\ Created \in Hash /\ Created.length = 0
  BY CreatedReached
<1>2. one \in Hash /\ Reached(one, message) /\ Taken(one) = first /\ one.length = first
  <2>1. SubSeq(message, 1, first) = SubSeq(message, Taken(Created) + 1, first)
    BY <1>1
  <2>2. first \in Taken(Created) .. Len(message) /\ Created.length = Taken(Created)
    BY <1>1
  <2>3. IsUpdated(update(Created, SubSeq(message, 1, first)), message, first, first)
    BY <1>1, <2>1, <2>2, PartTaken
  <2> QED BY <2>3 DEF IsUpdated
<1> HIDE DEF one
<1>3. /\ two \in Hash /\ Reached(two, message) /\ Taken(two) = Len(message)
      /\ two.length = Len(message)
  <2>1. Len(message) \in Taken(one) .. Len(message) /\ one.length = Taken(one)
    BY <1>2
  <2>2. SubSeq(message, first + 1, Len(message)) = SubSeq(message, Taken(one) + 1, Len(message))
    BY <1>2
  <2>3. IsUpdated(update(one, SubSeq(message, first + 1, Len(message))), message,
                  Len(message), Len(message))
    BY <1>2, <2>1, <2>2, PartTaken
  <2> QED BY <2>3 DEF IsUpdated
<1>4. hashC(message, first) = digestInto(two)
  BY DEF hashC, one
<1> HIDE DEF two
<1>5. InBlocks(digestInto(two), PaddedMessage(message))
  BY <1>3, DigestPadded DEF PaddedMessage
<1> QED BY <1>4, <1>5

----------------------------------------------------------------------------
(* What is asked of the page's computations. *)
ReadingInv ==
  /\ task.is = "hash" => task.length \in Nat /\ task.first \in 0 .. task.length
  /\ task.is = "amount" => /\ task.value \in Nat
                            /\ task.list \in Seq([equality : {"<", ">=", "=", "=~"}, amount : Nat])
  /\ task.is = "age" => task.age \in Int

(* The arguments of a computation are as they are asked for.               *)
LEMMA ReadingInvariant == ReadingSpec => []ReadingInv
<1>1. ReadingInit => ReadingInv
  BY DEF ReadingInit, ReadingInv
<1>2. ASSUME ReadingInv, [ReadingNext]_task
      PROVE  ReadingInv'
  <2>1. CASE HashMessage
    <3>1. PICK length \in Lengths : \E first \in {n \in Pieces : n <= length} :
            task' = [is |-> "hash", length |-> length, first |-> first]
      BY <2>1 DEF HashMessage
    <3>4. PICK first \in {n \in Pieces : n <= length} :
            task' = [is |-> "hash", length |-> length, first |-> first]
      BY <3>1
    <3>2. length \in Nat /\ first \in Nat /\ first <= length
      BY ReadingAssumption DEF ReadingAssumption
    <3>3. first \in 0 .. length
      BY <3>2
    <3> QED BY <3>2, <3>3, <3>4 DEF ReadingInv
  <2>2. CASE ReadAmount
    <3>1. PICK value \in Values, list \in NumerologyLists :
            task' = [is |-> "amount", value |-> value, list |-> list]
      BY <2>2 DEF ReadAmount
    <3>2. value \in Nat /\ list \in Seq([equality : {"<", ">=", "=", "=~"}, amount : Nat])
      BY <3>1, ReadingAssumption DEF ReadingAssumption
    <3> QED BY <3>1, <3>2 DEF ReadingInv
  <2>3. CASE TellAge
    <3>1. PICK age \in Ages : task' = [is |-> "age", age |-> age]
      BY <2>3 DEF TellAge
    <3>2. age \in Int
      BY <3>1, ReadingAssumption DEF ReadingAssumption
    <3> QED BY <3>1, <3>2 DEF ReadingInv
  <2>4. CASE UNCHANGED task
    BY <1>2, <2>4 DEF ReadingInv
  <2> QED BY <1>2, <2>1, <2>2, <2>3, <2>4 DEF ReadingNext
<1> QED BY <1>1, <1>2, PTL DEF ReadingSpec

(* A message of any length is hashed as the standard pads it, in whatever  *)
(* two parts it comes (SHA2.update, digestInto).                           *)
THEOREM DigestsStayPadded == ReadingSpec => []DigestsArePadded
<1>1. ASSUME ReadingInv
      PROVE  DigestsArePadded
  <2> SUFFICES ASSUME task.is = "hash"
               PROVE  DigestsArePadded
    BY DEF DigestsArePadded
  <2> DEFINE message == [i \in 1 .. task.length |-> 1000 + i]
  <2>1. task.length \in Nat /\ task.first \in 0 .. task.length
    BY <1>1 DEF ReadingInv
  <2>2. message \in Seq(Int) /\ Len(message) = task.length
    BY <2>1
  <2> HIDE DEF message
  <2>3. InBlocks(hashC(message, task.first), PaddedMessage(message))
    BY <2>1, <2>2, MessagePadded
  <2> QED BY <2>2, <2>3 DEF DigestsArePadded, PaddedMessage, InBlocks, message
<1> QED BY <1>1, ReadingInvariant, PTL

----------------------------------------------------------------------------
(* The rows of formats. *)
IsFormat(row, below, says, unit) == row.below = below /\ row.says = says /\ row.unit = unit

(* The rows of formats one by one.                                         *)
LEMMA FormatIs ==
  /\ IsFormat(formats[1], -1, "Recently", 0)
  /\ IsFormat(formats[2], 60, "secondsAgo", 1)
  /\ IsFormat(formats[3], 120, "oneMinuteAgo", 0)
  /\ IsFormat(formats[4], 3600, "minutesAgo", 60)
  /\ IsFormat(formats[5], 7200, "oneHourAgo", 0)
  /\ IsFormat(formats[6], 86400, "hoursAgo", 3600)
  /\ IsFormat(formats[7], 172800, "Yesterday", 0)
  /\ IsFormat(formats[8], 604800, "daysAgo", 86400)
  /\ IsFormat(formats[9], 1209600, "oneWeekAgo", 0)
  /\ IsFormat(formats[10], 2678400, "weeksAgo", 604800)
BY DEF formats, IsFormat

(* The bounds of formats one by one.                                       *)
LEMMA FormatBounds ==
  /\ Len(formats) = 10
  /\ formats[1].below = -1
  /\ formats[2].below = 60
  /\ formats[3].below = 120
  /\ formats[4].below = 3600
  /\ formats[5].below = 7200
  /\ formats[6].below = 86400
  /\ formats[7].below = 172800
  /\ formats[8].below = 604800
  /\ formats[9].below = 1209600
  /\ formats[10].below = 2678400
<1>1. Len(formats) = 10
  BY DEF formats
<1>2. ASSUME NEW row, NEW below, NEW says, NEW unit, IsFormat(row, below, says, unit)
      PROVE  row.below = below
  BY <1>2 DEF IsFormat
<1> QED BY <1>1, <1>2, FormatIs

(* The first row of formats that an age is below. *)
IsBracket(i, age) ==
  \/ i = 0 /\ age >= formats[10].below * Second
  \/ i \in 2 .. 10 /\ age < formats[i].below * Second /\ age >= formats[i - 1].below * Second

(* The bracket of an age is the first whose bound it has not reached.      *)
LEMMA BracketIs ==
  ASSUME NEW age \in Nat
  PROVE  IsBracket(Bracket(age), age)
<1> DEFINE I == {i \in 1 .. Len(formats) : age < formats[i].below * Second}
<1>1. Len(formats) = 10 /\ \A i \in 1 .. 10 : formats[i].below \in Int
  <2>1. \A i \in 1 .. 10 : i = 1 \/ i = 2 \/ i = 3 \/ i = 4 \/ i = 5 \/ i = 6 \/ i = 7 \/ i = 8
                            \/ i = 9 \/ i = 10
    OBVIOUS
  <2> QED BY <2>1, FormatBounds
<1>2. Bracket(age) = IF I # {} THEN Min(I) ELSE 0
  BY DEF Bracket, SelectInSeq
<1>3. ASSUME NEW i \in 1 .. 10
      PROVE  i \in I <=> age < formats[i].below * Second
  BY <1>1
<1> HIDE DEF I
<1>4. 1 \notin I
  <2>1. formats[1].below = -1 /\ 1 \in 1 .. 10
    BY FormatBounds
  <2>2. ~(age < (-1) * Second)
    BY DEF Second
  <2> QED BY <1>3, <2>1, <2>2
<1>5. CASE I = {}
  <2>1. ~(age < formats[10].below * Second)
    BY <1>3, <1>5
  <2>2. age >= formats[10].below * Second
    BY <1>1, <2>1 DEF Second
  <2> QED BY <1>2, <1>5, <2>2 DEF IsBracket
<1>6. CASE I # {}
  <2>1. I \in SUBSET Nat
    BY DEF I
  <2>2. \E m \in I : \A k \in I : m <= k
    BY <1>6, <2>1, LeastNatural
  <2>3. Min(I) \in I /\ \A k \in I : Min(I) <= k
    BY <2>2 DEF Min
  <2> DEFINE m == Min(I)
  <2> HIDE DEF m
  <2>4. m \in I /\ (\A k \in I : m <= k) /\ Bracket(age) = m
    BY <1>2, <1>6, <2>3 DEF m
  <2>5. m \in 2 .. 10
    <3>1. m \in 1 .. 10 /\ m # 1
      BY <1>1, <1>4, <2>4 DEF I
    <3> QED BY <3>1
  <2>6. m - 1 \in 1 .. 10 /\ ~(m <= m - 1)
    BY <2>5
  <2>7. m - 1 \notin I
    BY <2>4, <2>6
  <2>8. age < formats[m].below * Second /\ ~(age < formats[m - 1].below * Second)
    BY <1>3, <2>4, <2>5, <2>6, <2>7
  <2>9. age >= formats[m - 1].below * Second
    BY <1>1, <2>6, <2>8 DEF Second
  <2> QED BY <2>4, <2>5, <2>8, <2>9 DEF IsBracket
<1> QED BY <1>5, <1>6

(* A number of a unit, and what is left of another one. *)
CountOf(c, age) == age \div (c * 2)

Counted(c, age) ==
  LET n == CountOf(c, age)
      s == age \div Second
  IN n \in Nat /\ n * c <= s /\ s < (n + 1) * c

(* A count of a unit, rounded down, is the number of them that fit.        *)
LEMMA Counts ==
  ASSUME NEW age \in Nat
  PROVE  /\ Counted(1, age) /\ Counted(60, age) /\ Counted(3600, age) /\ Counted(86400, age)
         /\ Counted(604800, age)
<1>1. Counted(1, age)
  BY DEF Counted, CountOf, Second
<1>2. Counted(60, age)
  BY DEF Counted, CountOf, Second
<1>3. Counted(3600, age)
  BY DEF Counted, CountOf, Second
<1>4. Counted(86400, age)
  BY DEF Counted, CountOf, Second
<1>5. Counted(604800, age)
  BY DEF Counted, CountOf, Second
<1> QED BY <1>1, <1>2, <1>3, <1>4, <1>5

(* The whole seconds of an age.                                            *)
LEMMA InSeconds ==
  ASSUME NEW age \in Nat
  PROVE  LET s == age \div Second
         IN s \in Nat /\ 2 * s <= age /\ age < 2 * s + 2
BY DEF Second

(* What is said below 31 days. *)
ToldInUnits(told, age) ==
  LET said == Said(told)
      seconds == age \div Second
      unit == Units[said[2]]
  IN /\ Len(told) = 2 /\ said[2] # "Recently" /\ seconds < 31 * Units.days
     /\ said[1] * unit <= seconds /\ seconds < (said[1] + 1) * unit
     /\ \A u \in DOMAIN Units : Units[u] > unit => seconds < Units[u]

(* The units one by one.                                                   *)
LEMMA UnitRows ==
  /\ Units["seconds"] = 1 /\ Units["minutes"] = 60 /\ Units["hours"] = 3600
  /\ Units["days"] = 86400 /\ Units["weeks"] = 604800 /\ Units.days = 86400
  /\ DOMAIN Units = {"seconds", "minutes", "hours", "days", "weeks"}
BY DEF Units


(* What is told of s seconds by n of a unit. *)
InUnit(n, u, s) ==
  /\ u \in DOMAIN Units /\ n * Units[u] <= s /\ s < (n + 1) * Units[u] /\ s < 31 * Units.days
  /\ \A v \in DOMAIN Units : Units[v] > Units[u] => s < Units[v]

(* Words that tell a count of a unit tell the age by it.                   *)
LEMMA RowTold ==
  ASSUME NEW age, NEW n, NEW u, NEW told, Said(told) = <<n, u>>, Len(told) = 2,
         InUnit(n, u, age \div Second)
  PROVE  ToldInUnits(told, age)
<1>1. Said(told)[1] = n /\ Said(told)[2] = u
  OBVIOUS
<1>2. u # "Recently"
  BY UnitRows DEF InUnit
<1> QED BY <1>1, <1>2 DEF ToldInUnits, InUnit

(* Which unit is the largest that some seconds fill.                       *)
LEMMA UnitOf ==
  ASSUME NEW s \in Nat, NEW n \in Nat
  PROVE  /\ n * 1 <= s /\ s < (n + 1) * 1 /\ s < 60 => InUnit(n, "seconds", s)
         /\ n * 60 <= s /\ s < (n + 1) * 60 /\ s < 3600 => InUnit(n, "minutes", s)
         /\ n * 3600 <= s /\ s < (n + 1) * 3600 /\ s < 86400 => InUnit(n, "hours", s)
         /\ n * 86400 <= s /\ s < (n + 1) * 86400 /\ s < 604800 => InUnit(n, "days", s)
         /\ n * 604800 <= s /\ s < (n + 1) * 604800 /\ s < 2678400 => InUnit(n, "weeks", s)
BY UnitRows DEF InUnit

(* An age of less than 31 days, row by row. *)
LEMMA ShortAgeTold ==
  ASSUME NEW age \in Nat, Bracket(age) # 0
  PROVE  ToldInUnits(prettyDate(age), age)
<1> DEFINE i == Bracket(age)
           s == age \div Second
<1>1. i \in 2 .. 10 /\ age < formats[i].below * 2 /\ age >= formats[i - 1].below * 2
  BY BracketIs DEF IsBracket, Second
<1>2. prettyDate(age) =
        <<IF formats[i].unit = 0 THEN 0 ELSE age \div (formats[i].unit * 2), formats[i].says>>
  BY DEF prettyDate, Second
<1>3. s \in Nat /\ 2 * s <= age /\ age < 2 * s + 2
  BY InSeconds
<1> HIDE DEF i, s
<1>4. CASE i = 2
  <2> DEFINE n == age \div (1 * 2)
  <2>1. formats[2].unit = 1 /\ formats[2].says = "secondsAgo"
    BY FormatIs DEF IsFormat
  <2>2. prettyDate(age) = <<n, "secondsAgo">>
    BY <1>2, <1>4, <2>1
  <2>3. s < 60
    BY <1>1, <1>3, <1>4, FormatBounds
  <2>4. n \in Nat /\ n * 1 <= s /\ s < (n + 1) * 1
    BY Counts DEF Counted, CountOf, s
  <2> HIDE DEF n
  <2>5. Said(<<n, "secondsAgo">>) = <<n, "seconds">>
    BY DEF Said
  <2>6. InUnit(n, "seconds", s)
    BY <1>3, <2>3, <2>4, UnitOf
  <2>7. Len(<<n, "secondsAgo">>) = 2
    OBVIOUS
  <2> QED BY <2>2, <2>5, <2>6, <2>7, RowTold DEF s
<1>5. CASE i = 3
  <2>1. formats[3].unit = 0 /\ formats[3].says = "oneMinuteAgo"
    BY FormatIs DEF IsFormat
  <2>2. prettyDate(age) = <<0, "oneMinuteAgo">>
    BY <1>2, <1>5, <2>1
  <2>3. s < 120 /\ 60 <= s
    BY <1>1, <1>3, <1>5, FormatBounds
  <2>4. 1 \in Nat /\ 1 * 60 <= s /\ s < (1 + 1) * 60 /\ s < 120
    BY <1>3, <2>3
  <2>5. Said(<<0, "oneMinuteAgo">>) = <<1, "minutes">>
    BY DEF Said
  <2>6. InUnit(1, "minutes", s)
    BY <1>3, <2>3, <2>4, UnitOf
  <2>7. Len(<<0, "oneMinuteAgo">>) = 2
    OBVIOUS
  <2> QED BY <2>2, <2>5, <2>6, <2>7, RowTold DEF s
<1>6. CASE i = 4
  <2> DEFINE n == age \div (60 * 2)
  <2>1. formats[4].unit = 60 /\ formats[4].says = "minutesAgo"
    BY FormatIs DEF IsFormat
  <2>2. prettyDate(age) = <<n, "minutesAgo">>
    BY <1>2, <1>6, <2>1
  <2>3. s < 3600
    BY <1>1, <1>3, <1>6, FormatBounds
  <2>4. n \in Nat /\ n * 60 <= s /\ s < (n + 1) * 60
    BY Counts DEF Counted, CountOf, s
  <2> HIDE DEF n
  <2>5. Said(<<n, "minutesAgo">>) = <<n, "minutes">>
    BY DEF Said
  <2>6. InUnit(n, "minutes", s)
    BY <1>3, <2>3, <2>4, UnitOf
  <2>7. Len(<<n, "minutesAgo">>) = 2
    OBVIOUS
  <2> QED BY <2>2, <2>5, <2>6, <2>7, RowTold DEF s
<1>7. CASE i = 5
  <2>1. formats[5].unit = 0 /\ formats[5].says = "oneHourAgo"
    BY FormatIs DEF IsFormat
  <2>2. prettyDate(age) = <<0, "oneHourAgo">>
    BY <1>2, <1>7, <2>1
  <2>3. s < 7200 /\ 3600 <= s
    BY <1>1, <1>3, <1>7, FormatBounds
  <2>4. 1 \in Nat /\ 1 * 3600 <= s /\ s < (1 + 1) * 3600 /\ s < 7200
    BY <1>3, <2>3
  <2>5. Said(<<0, "oneHourAgo">>) = <<1, "hours">>
    BY DEF Said
  <2>6. InUnit(1, "hours", s)
    BY <1>3, <2>3, <2>4, UnitOf
  <2>7. Len(<<0, "oneHourAgo">>) = 2
    OBVIOUS
  <2> QED BY <2>2, <2>5, <2>6, <2>7, RowTold DEF s
<1>8. CASE i = 6
  <2> DEFINE n == age \div (3600 * 2)
  <2>1. formats[6].unit = 3600 /\ formats[6].says = "hoursAgo"
    BY FormatIs DEF IsFormat
  <2>2. prettyDate(age) = <<n, "hoursAgo">>
    BY <1>2, <1>8, <2>1
  <2>3. s < 86400
    BY <1>1, <1>3, <1>8, FormatBounds
  <2>4. n \in Nat /\ n * 3600 <= s /\ s < (n + 1) * 3600
    BY Counts DEF Counted, CountOf, s
  <2> HIDE DEF n
  <2>5. Said(<<n, "hoursAgo">>) = <<n, "hours">>
    BY DEF Said
  <2>6. InUnit(n, "hours", s)
    BY <1>3, <2>3, <2>4, UnitOf
  <2>7. Len(<<n, "hoursAgo">>) = 2
    OBVIOUS
  <2> QED BY <2>2, <2>5, <2>6, <2>7, RowTold DEF s
<1>9. CASE i = 7
  <2>1. formats[7].unit = 0 /\ formats[7].says = "Yesterday"
    BY FormatIs DEF IsFormat
  <2>2. prettyDate(age) = <<0, "Yesterday">>
    BY <1>2, <1>9, <2>1
  <2>3. s < 172800 /\ 86400 <= s
    BY <1>1, <1>3, <1>9, FormatBounds
  <2>4. 1 \in Nat /\ 1 * 86400 <= s /\ s < (1 + 1) * 86400 /\ s < 172800
    BY <1>3, <2>3
  <2>5. Said(<<0, "Yesterday">>) = <<1, "days">>
    BY DEF Said
  <2>6. InUnit(1, "days", s)
    BY <1>3, <2>3, <2>4, UnitOf
  <2>7. Len(<<0, "Yesterday">>) = 2
    OBVIOUS
  <2> QED BY <2>2, <2>5, <2>6, <2>7, RowTold DEF s
<1>10. CASE i = 8
  <2> DEFINE n == age \div (86400 * 2)
  <2>1. formats[8].unit = 86400 /\ formats[8].says = "daysAgo"
    BY FormatIs DEF IsFormat
  <2>2. prettyDate(age) = <<n, "daysAgo">>
    BY <1>2, <1>10, <2>1
  <2>3. s < 604800
    BY <1>1, <1>3, <1>10, FormatBounds
  <2>4. n \in Nat /\ n * 86400 <= s /\ s < (n + 1) * 86400
    BY Counts DEF Counted, CountOf, s
  <2> HIDE DEF n
  <2>5. Said(<<n, "daysAgo">>) = <<n, "days">>
    BY DEF Said
  <2>6. InUnit(n, "days", s)
    BY <1>3, <2>3, <2>4, UnitOf
  <2>7. Len(<<n, "daysAgo">>) = 2
    OBVIOUS
  <2> QED BY <2>2, <2>5, <2>6, <2>7, RowTold DEF s
<1>11. CASE i = 9
  <2>1. formats[9].unit = 0 /\ formats[9].says = "oneWeekAgo"
    BY FormatIs DEF IsFormat
  <2>2. prettyDate(age) = <<0, "oneWeekAgo">>
    BY <1>2, <1>11, <2>1
  <2>3. s < 1209600 /\ 604800 <= s
    BY <1>1, <1>3, <1>11, FormatBounds
  <2>4. 1 \in Nat /\ 1 * 604800 <= s /\ s < (1 + 1) * 604800 /\ s < 1209600
    BY <1>3, <2>3
  <2>5. Said(<<0, "oneWeekAgo">>) = <<1, "weeks">>
    BY DEF Said
  <2>6. InUnit(1, "weeks", s)
    BY <1>3, <2>3, <2>4, UnitOf
  <2>7. Len(<<0, "oneWeekAgo">>) = 2
    OBVIOUS
  <2> QED BY <2>2, <2>5, <2>6, <2>7, RowTold DEF s
<1>12. CASE i = 10
  <2> DEFINE n == age \div (604800 * 2)
  <2>1. formats[10].unit = 604800 /\ formats[10].says = "weeksAgo"
    BY FormatIs DEF IsFormat
  <2>2. prettyDate(age) = <<n, "weeksAgo">>
    BY <1>2, <1>12, <2>1
  <2>3. s < 2678400
    BY <1>1, <1>3, <1>12, FormatBounds
  <2>4. n \in Nat /\ n * 604800 <= s /\ s < (n + 1) * 604800
    BY Counts DEF Counted, CountOf, s
  <2> HIDE DEF n
  <2>5. Said(<<n, "weeksAgo">>) = <<n, "weeks">>
    BY DEF Said
  <2>6. InUnit(n, "weeks", s)
    BY <1>3, <2>3, <2>4, UnitOf
  <2>7. Len(<<n, "weeksAgo">>) = 2
    OBVIOUS
  <2> QED BY <2>2, <2>5, <2>6, <2>7, RowTold DEF s
<1> QED BY <1>1, <1>4, <1>5, <1>6, <1>7, <1>8, <1>9, <1>10, <1>11, <1>12

(* A year has a day more if its number says so. *)
IsLeap(year) == year % 4 = 0 /\ (year % 100 # 0 \/ year % 400 = 0)

LeapDay(year) == IF IsLeap(year) THEN 1 ELSE 0

(* A year has 365 days, and one more if it is a leap year.                 *)
LEMMA YearLength ==
  ASSUME NEW year \in Int, 1970 <= year, year <= 2099
  PROVE  DaysBefore(year + 1) = DaysBefore(year) + 365 + LeapDay(year)
<1>1. (year - 1968) \div 4 - (year - 1969) \div 4 = IF year % 4 = 0 THEN 1 ELSE 0
  OBVIOUS
<1>2. (year - 1900) \div 100 - (year - 1901) \div 100 = IF year % 100 = 0 THEN 1 ELSE 0
  OBVIOUS
<1>3. (year - 1600) \div 400 - (year - 1601) \div 400 = IF year % 400 = 0 THEN 1 ELSE 0
  OBVIOUS
<1>4. /\ year % 100 = 0 => year % 4 = 0
      /\ year % 400 = 0 => year % 100 = 0
  OBVIOUS
<1> DEFINE a == (year - 1969) \div 4
           b == (year - 1901) \div 100
           c == (year - 1601) \div 400
           d == (year - 1968) \div 4
           e == (year - 1900) \div 100
           f == (year - 1600) \div 400
<1>5. a \in Int /\ b \in Int /\ c \in Int /\ d \in Int /\ e \in Int /\ f \in Int
  OBVIOUS
<1>6. DaysBefore(year) = 365 * (year - 1970) + a - b + c
  BY DEF DaysBefore
<1>7. DaysBefore(year + 1) = 365 * (year - 1969) + d - e + f
  <2>1. (year + 1) - 1970 = year - 1969 /\ (year + 1) - 1969 = year - 1968
        /\ (year + 1) - 1901 = year - 1900 /\ (year + 1) - 1601 = year - 1600
    OBVIOUS
  <2> QED BY <2>1 DEF DaysBefore
<1>8. d - a - (e - b) + (f - c) = LeapDay(year)
  <2>1. CASE year % 4 # 0
    BY <1>1, <1>2, <1>3, <1>4, <1>5, <2>1 DEF LeapDay, IsLeap
  <2>2. CASE year % 4 = 0 /\ year % 100 # 0
    BY <1>1, <1>2, <1>3, <1>4, <1>5, <2>2 DEF LeapDay, IsLeap
  <2>3. CASE year % 4 = 0 /\ year % 100 = 0
    BY <1>1, <1>2, <1>3, <1>4, <1>5, <2>3 DEF LeapDay, IsLeap
  <2> QED BY <2>1, <2>2, <2>3
<1>9. LeapDay(year) \in Int
  BY DEF LeapDay
<1> HIDE DEF a, b, c, d, e, f
<1> QED BY <1>5, <1>6, <1>7, <1>8, <1>9

(* The days of the calendar that a boost can be of. *)
LastDay == 47481

(* A boost of at most ten years is of a day that the calendar has.         *)
LEMMA DayIs ==
  ASSUME NEW age \in Nat, age <= TenYears * Second
  PROVE  DayOf(age) \in Nat /\ DayOf(age) <= LastDay
<1> DEFINE n == (Now - age) \div 172800
<1>1. Today \in Int /\ 3653 <= Today /\ Today <= LastDay /\ Now \in Int /\ 0 <= Now /\ Now < 172800
  BY ClockAssumption DEF ClockAssumption, LastDay
<1>2. age <= 631138520
  BY DEF TenYears, Second
<1>3. n \in Int /\ -3653 <= n /\ n <= 0
  <2> DEFINE x == Now - age
  <2>1. x \in Int /\ -631138520 <= x /\ x < 172800
    BY <1>1, <1>2
  <2> HIDE DEF x
  <2>2. x \div 172800 \in Int /\ -3653 <= x \div 172800 /\ x \div 172800 <= 0
    BY <2>1
  <2> QED BY <2>2 DEF x
<1>4. DayOf(age) = Today + n
  <2>1. 86400 * Second = 172800
    BY DEF Second
  <2> QED BY <2>1 DEF DayOf
<1> HIDE DEF n
<1>5. Today + n \in Nat /\ Today + n <= LastDay
  BY <1>1, <1>3 DEF LastDay
<1> QED BY <1>4, <1>5

(* Every such day is in a year. *)
InYear(day, year) ==
  /\ year \in Int /\ 1970 <= year /\ year <= 2099
  /\ DaysBefore(year) <= day /\ day < DaysBefore(year + 1)

(* Every day is in a year.                                                 *)
LEMMA YearFound ==
  ASSUME NEW day \in Nat, day <= LastDay
  PROVE  \E year \in Int : InYear(day, year)
<1> DEFINE last == 129
           S == {k \in 0 .. last : DaysBefore(1970 + k) <= day}
<1>1. \A y \in Int : DaysBefore(y) \in Int
  BY DEF DaysBefore
<1>2. DaysBefore(1970) = 0 /\ DaysBefore(2100) = 47482
  BY DEF DaysBefore
<1>3. day < DaysBefore(2100)
  BY <1>2 DEF LastDay
<1>4. last \in Nat /\ 1970 + last + 1 = 2100 /\ 1970 + 0 = 1970
  OBVIOUS
<1> HIDE DEF last
<1>5. 0 \in S
  BY <1>2, <1>4
<1>6. PICK m \in S : \A k \in S : k <= m
  <2>1. S \in SUBSET (0 .. last)
    OBVIOUS
  <2>2. last \in Nat
    BY <1>4
  <2>3. S # {}
    BY <1>5
  <2> HIDE DEF S
  <2> QED BY <2>1, <2>2, <2>3, GreatestNatural
<1>7. m \in 0 .. last /\ DaysBefore(1970 + m) <= day
  OBVIOUS
<1>8. day < DaysBefore(1970 + m + 1)
  <2>1. CASE m = last
    <3>1. 1970 + m + 1 = 2100
      BY <1>4, <2>1
    <3> QED BY <1>3, <3>1
  <2>2. CASE m # last
    <3>1. m + 1 \in 0 .. last /\ ~(m + 1 <= m) /\ 1970 + (m + 1) = 1970 + m + 1
      BY <1>4, <1>7, <2>2
    <3>2. ~(DaysBefore(1970 + (m + 1)) <= day)
      <4>1. ASSUME DaysBefore(1970 + (m + 1)) <= day
            PROVE  m + 1 \in S
        BY <3>1, <4>1
      <4> HIDE DEF S
      <4> QED BY <1>6, <3>1, <4>1
    <3>3. DaysBefore(1970 + (m + 1)) \in Int
      BY <1>1, <3>1
    <3> QED BY <3>1, <3>2, <3>3
  <2> QED BY <2>1, <2>2
<1>9. 1970 + m \in Int /\ 1970 <= 1970 + m /\ 1970 + m <= 2099
  BY <1>4, <1>7
<1> HIDE DEF S
<1>10. InYear(day, 1970 + m)
  BY <1>7, <1>8, <1>9 DEF InYear
<1> QED BY <1>9, <1>10

(* The days of a year before its months; the last is of the year after.    *)
LengthBefore ==
  [m \in 0 .. 12 |-> <<0, 31, 59, 90, 120, 151, 181, 212, 243, 273, 304, 334, 365>>[m + 1]]

Passed(year, m) ==
  DaysBefore(year) + LengthBefore[m] + (IF m > 1 THEN LeapDay(year) ELSE 0)

(* The days before a month one by one.                                     *)
LEMMA LengthsBefore ==
  /\ LengthBefore[0] = 0 /\ LengthBefore[1] = 31 /\ LengthBefore[2] = 59 /\ LengthBefore[3] = 90
  /\ LengthBefore[4] = 120 /\ LengthBefore[5] = 151 /\ LengthBefore[6] = 181
  /\ LengthBefore[7] = 212 /\ LengthBefore[8] = 243 /\ LengthBefore[9] = 273
  /\ LengthBefore[10] = 304 /\ LengthBefore[11] = 334 /\ LengthBefore[12] = 365
BY DEF LengthBefore

(* The lengths of months: February has the leap day.                       *)
LEMMA MonthLengthsAre ==
  ASSUME NEW year \in Int, 1970 <= year, year <= 2099
  PROVE  /\ MonthLengths(year)[1] = 31 /\ MonthLengths(year)[2] = 28 + LeapDay(year)
         /\ MonthLengths(year)[3] = 31 /\ MonthLengths(year)[4] = 30
         /\ MonthLengths(year)[5] = 31 /\ MonthLengths(year)[6] = 30
         /\ MonthLengths(year)[7] = 31 /\ MonthLengths(year)[8] = 31
         /\ MonthLengths(year)[9] = 30 /\ MonthLengths(year)[10] = 31
         /\ MonthLengths(year)[11] = 30 /\ MonthLengths(year)[12] = 31
<1>1. DaysBefore(year) \in Int /\ DaysBefore(year + 1) \in Int /\ LeapDay(year) \in Int
  BY DEF DaysBefore, LeapDay
<1>2. 28 + DaysBefore(year + 1) - DaysBefore(year) - 365 = 28 + LeapDay(year)
  BY <1>1, YearLength
<1> QED BY <1>2 DEF MonthLengths

(* The days passed before a month are those before the last and its        *)
(* length.                                                                 *)
LEMMA PassedIs ==
  ASSUME NEW year \in Int, 1970 <= year, year <= 2099
  PROVE  /\ Passed(year, 0) = DaysBefore(year) /\ Passed(year, 12) = DaysBefore(year + 1)
         /\ \A m \in 1 .. 12 : Passed(year, m) = Passed(year, m - 1) + MonthLengths(year)[m]
         /\ \A m \in 0 .. 12 : Passed(year, m) \in Int
<1> DEFINE days == DaysBefore(year)
           leap == LeapDay(year)
<1>1. days \in Int /\ leap \in Int
  BY DEF DaysBefore, LeapDay
<1>2. Passed(year, 12) = DaysBefore(year + 1)
  BY <1>1, YearLength, LengthsBefore DEF Passed
<1>3. ASSUME NEW m \in 0 .. 12
      PROVE  Passed(year, m) \in Int
  <2>1. LengthBefore[m] \in Int
    BY DEF LengthBefore
  <2> QED BY <1>1, <2>1 DEF Passed
<1>4. ASSUME NEW m \in 1 .. 12
      PROVE  Passed(year, m) = Passed(year, m - 1) + MonthLengths(year)[m]
  <2>1. m = 1 \/ m = 2 \/ m = 3 \/ m = 4 \/ m = 5 \/ m = 6 \/ m = 7 \/ m = 8 \/ m = 9 \/ m = 10
        \/ m = 11 \/ m = 12
    OBVIOUS
  <2> HIDE DEF days, leap
  <2>2. ASSUME NEW k \in 0 .. 12, k > 1
        PROVE  Passed(year, k) = days + LengthBefore[k] + leap
    BY <2>2 DEF Passed, days, leap
  <2>3. Passed(year, 0) = days + 0 + 0 /\ Passed(year, 1) = days + 31 + 0
    BY LengthsBefore DEF Passed, days, leap
  <2>4. CASE m = 1
    BY <1>1, <2>3, <2>4, MonthLengthsAre
  <2>5. CASE m = 2
    <3>1. Passed(year, 2) = days + 59 + leap
      BY <2>2, LengthsBefore
    <3> QED BY <1>1, <2>3, <2>5, <3>1, MonthLengthsAre DEF leap
  <2>6. CASE m = 3
    <3>1. Passed(year, 3) = days + 90 + leap /\ Passed(year, 2) = days + 59 + leap
      BY <2>2, LengthsBefore
    <3> QED BY <1>1, <2>6, <3>1, MonthLengthsAre
  <2>7. CASE m = 4
    <3>1. Passed(year, 4) = days + 120 + leap /\ Passed(year, 3) = days + 90 + leap
      BY <2>2, LengthsBefore
    <3> QED BY <1>1, <2>7, <3>1, MonthLengthsAre
  <2>8. CASE m = 5
    <3>1. Passed(year, 5) = days + 151 + leap /\ Passed(year, 4) = days + 120 + leap
      BY <2>2, LengthsBefore
    <3> QED BY <1>1, <2>8, <3>1, MonthLengthsAre
  <2>9. CASE m = 6
    <3>1. Passed(year, 6) = days + 181 + leap /\ Passed(year, 5) = days + 151 + leap
      BY <2>2, LengthsBefore
    <3> QED BY <1>1, <2>9, <3>1, MonthLengthsAre
  <2>10. CASE m = 7
    <3>1. Passed(year, 7) = days + 212 + leap /\ Passed(year, 6) = days + 181 + leap
      BY <2>2, LengthsBefore
    <3> QED BY <1>1, <2>10, <3>1, MonthLengthsAre
  <2>11. CASE m = 8
    <3>1. Passed(year, 8) = days + 243 + leap /\ Passed(year, 7) = days + 212 + leap
      BY <2>2, LengthsBefore
    <3> QED BY <1>1, <2>11, <3>1, MonthLengthsAre
  <2>12. CASE m = 9
    <3>1. Passed(year, 9) = days + 273 + leap /\ Passed(year, 8) = days + 243 + leap
      BY <2>2, LengthsBefore
    <3> QED BY <1>1, <2>12, <3>1, MonthLengthsAre
  <2>13. CASE m = 10
    <3>1. Passed(year, 10) = days + 304 + leap /\ Passed(year, 9) = days + 273 + leap
      BY <2>2, LengthsBefore
    <3> QED BY <1>1, <2>13, <3>1, MonthLengthsAre
  <2>14. CASE m = 11
    <3>1. Passed(year, 11) = days + 334 + leap /\ Passed(year, 10) = days + 304 + leap
      BY <2>2, LengthsBefore
    <3> QED BY <1>1, <2>14, <3>1, MonthLengthsAre
  <2>15. CASE m = 12
    <3>1. Passed(year, 12) = days + 365 + leap /\ Passed(year, 11) = days + 334 + leap
      BY <2>2, LengthsBefore
    <3> QED BY <1>1, <2>15, <3>1, MonthLengthsAre
  <2> QED BY <2>1, <2>4, <2>5, <2>6, <2>7, <2>8, <2>9, <2>10, <2>11, <2>12, <2>13, <2>14, <2>15
<1>5. Passed(year, 0) = days
  BY <1>1, LengthsBefore DEF Passed
<1> QED BY <1>2, <1>3, <1>4, <1>5

(* The date of a day: its year, its month and its day in the month.        *)
IsDateOf(date, day, year, month) ==
  /\ InYear(day, year) /\ month \in 0 .. 11
  /\ Passed(year, month) <= day /\ day < Passed(year, month + 1)
  /\ date = [getFullYear |-> year, getMonth |-> month, getDate |-> day - Passed(year, month) + 1]

(* Every day of a year is in a month.                                      *)
LEMMA MonthFound ==
  ASSUME NEW day \in Nat, NEW year, InYear(day, year)
  PROVE  \E m \in 0 .. 11 : Passed(year, m) <= day /\ day < Passed(year, m + 1)
<1> DEFINE S == {m \in 0 .. 11 : Passed(year, m) <= day}
<1>1. /\ Passed(year, 0) = DaysBefore(year) /\ Passed(year, 12) = DaysBefore(year + 1)
      /\ \A m \in 0 .. 12 : Passed(year, m) \in Int
  BY PassedIs DEF InYear
<1>2. 0 \in S
  BY <1>1 DEF InYear
<1>3. PICK m \in S : \A k \in S : k <= m
  <2>1. S \in SUBSET (0 .. 11) /\ S # {}
    BY <1>2
  <2> HIDE DEF S
  <2> QED BY <2>1, GreatestNatural
<1>4. m \in 0 .. 11 /\ Passed(year, m) <= day
  OBVIOUS
<1>5. day < Passed(year, m + 1)
  <2>1. CASE m = 11
    <3>1. m + 1 = 12
      BY <2>1
    <3> QED BY <1>1, <3>1 DEF InYear
  <2>2. CASE m # 11
    <3>1. m + 1 \in 0 .. 11 /\ ~(m + 1 <= m)
      BY <1>4, <2>2
    <3>2. ASSUME Passed(year, m + 1) <= day
          PROVE  m + 1 \in S
      BY <3>1, <3>2
    <3>3. Passed(year, m + 1) \in Int
      BY <1>1, <3>1
    <3> HIDE DEF S
    <3> QED BY <1>3, <3>1, <3>2, <3>3
  <2> QED BY <2>1, <2>2
<1> QED BY <1>4, <1>5

(* A day has a date.                                                       *)
LEMMA DateIs ==
  ASSUME NEW day \in Nat, day <= LastDay
  PROVE  \E year \in Int, month \in 0 .. 11 : IsDateOf(DateOf(day), day, year, month)
<1> DEFINE year == CHOOSE y \in 1970 .. 2099 : DaysBefore(y) <= day /\ day < DaysBefore(y + 1)
<1>1. InYear(day, year)
  <2>1. PICK y \in Int : InYear(day, y)
    BY YearFound
  <2>2. y \in 1970 .. 2099 /\ DaysBefore(y) <= day /\ day < DaysBefore(y + 1)
    BY <2>1 DEF InYear
  <2> DEFINE Years == 1970 .. 2099
  <2>3. \A x \in Years : x \in Int /\ 1970 <= x /\ x <= 2099
    OBVIOUS
  <2>4. y \in Years
    BY <2>2
  <2> HIDE DEF Years
  <2>5. LET z == CHOOSE x \in Years : DaysBefore(x) <= day /\ day < DaysBefore(x + 1)
        IN z \in Years /\ DaysBefore(z) <= day /\ day < DaysBefore(z + 1)
    BY <2>2, <2>4
  <2>6. year \in Years /\ DaysBefore(year) <= day /\ day < DaysBefore(year + 1)
    BY <2>5 DEF Years
  <2> QED BY <2>3, <2>6 DEF InYear
<1> DEFINE Run(f) == f = [m \in 0 .. 12 |->
                            IF m = 0 THEN DaysBefore(year) ELSE f[m - 1] + MonthLengths(year)[m]]
           passed == CHOOSE f : Run(f)
           month == CHOOSE m \in 0 .. 11 : passed[m] <= day /\ day < passed[m + 1]
<1>2. DateOf(day) = [getFullYear |-> year, getMonth |-> month, getDate |-> day - passed[month] + 1]
  BY DEF DateOf
<1> HIDE DEF year
<1>3. /\ Passed(year, 0) = DaysBefore(year)
      /\ \A m \in 1 .. 12 : Passed(year, m) = Passed(year, m - 1) + MonthLengths(year)[m]
  BY <1>1, PassedIs DEF InYear
<1>4. Run(passed)
  <2> DEFINE lengths == [m \in 0 .. 12 |-> Passed(year, m)]
  <2>1. ASSUME NEW m \in 0 .. 12
        PROVE  lengths[m] = IF m = 0 THEN DaysBefore(year) ELSE lengths[m - 1] + MonthLengths(year)[m]
    <3>1. CASE m = 0
      BY <1>3, <3>1
    <3>2. CASE m # 0
      <4>1. m \in 1 .. 12 /\ m - 1 \in 0 .. 12
        BY <3>2
      <4> QED BY <1>3, <3>2, <4>1
    <3> QED BY <3>1, <3>2
  <2>2. Run(lengths)
    BY <2>1
  <2> HIDE DEF Run, lengths
  <2> QED BY <2>2
<1>5. /\ passed[0] = DaysBefore(year)
      /\ \A m \in 1 .. 12 : passed[m] = passed[m - 1] + MonthLengths(year)[m]
  <2> HIDE DEF passed
  <2>1. passed = [m \in 0 .. 12 |->
                    IF m = 0 THEN DaysBefore(year) ELSE passed[m - 1] + MonthLengths(year)[m]]
    BY <1>4
  <2>2. 0 \in 0 .. 12 /\ \A m \in 1 .. 12 : m \in 0 .. 12 /\ m # 0
    OBVIOUS
  <2> QED BY <2>1, <2>2
<1> HIDE DEF passed, Run
<1>6. \A m \in 0 .. 12 : passed[m] = Passed(year, m)
  <2> DEFINE same == {m \in 0 .. 12 : passed[m] = Passed(year, m)}
  <2>1. 0 \in same
    BY <1>3, <1>5
  <2>2. \A m \in 1 .. 12 : m - 1 \in same => m \in same
    BY <1>3, <1>5
  <2>3. \A m \in 0 .. 12 : m \in same
    <3> HIDE DEF same
    <3> QED BY <2>1, <2>2, UpTo
  <2> QED BY <2>3
<1>7. month \in 0 .. 11 /\ passed[month] <= day /\ day < passed[month + 1]
  <2>1. PICK m \in 0 .. 11 : Passed(year, m) <= day /\ day < Passed(year, m + 1)
    BY <1>1, MonthFound
  <2>2. m \in 0 .. 12 /\ m + 1 \in 0 .. 12
    OBVIOUS
  <2>3. passed[m] <= day /\ day < passed[m + 1]
    BY <1>6, <2>1, <2>2
  <2> QED BY <2>3
<1> HIDE DEF month
<1>8. passed[month] = Passed(year, month) /\ passed[month + 1] = Passed(year, month + 1)
  <2>1. month \in 0 .. 12 /\ month + 1 \in 0 .. 12
    BY <1>7
  <2> QED BY <1>6, <2>1
<1>9. IsDateOf(DateOf(day), day, year, month)
  BY <1>1, <1>2, <1>7, <1>8 DEF IsDateOf
<1>10. year \in Int
  BY <1>1 DEF InYear
<1> QED BY <1>7, <1>9, <1>10

(* The months' names. *)
LEMMA MonthNamed ==
  ASSUME NEW month \in 0 .. 11
  PROVE  /\ monthNames[month + 12 + 1] = Calendar[month + 1] /\ month + 1 \in DOMAIN Calendar
         /\ Calendar[month + 1] # "Recently"
<1>1. DOMAIN Calendar = 1 .. 12
  BY DEF Calendar
<1>2. month = 0 \/ month = 1 \/ month = 2 \/ month = 3 \/ month = 4 \/ month = 5 \/ month = 6
      \/ month = 7 \/ month = 8 \/ month = 9 \/ month = 10 \/ month = 11
  OBVIOUS
<1> QED BY <1>1, <1>2 DEF monthNames, Calendar

(* No two months have one name.                                            *)
LEMMA MonthsDiffer ==
  ASSUME NEW m \in DOMAIN Calendar, NEW k \in DOMAIN Calendar, Calendar[m] = Calendar[k]
  PROVE  m = k
BY DEF Calendar

(* A date as longDate writes it, and what a calendar makes of it.          *)
LEMMA DateTold ==
  ASSUME NEW date, NEW day \in Nat, NEW year \in Int, NEW month \in 0 .. 11,
         IsDateOf(date, day, year, month)
  PROVE  LET told == dateFormat(date, "longDate")
         IN /\ Len(told) = 3 /\ told[2] = Calendar[month + 1] /\ DayRead(told) = day
<1> DEFINE told == dateFormat(date, "longDate")
           name == Calendar[month + 1]
           number == day - Passed(year, month) + 1
           mask == <<"d", "mmmm", "yyyy">>
           shown == [d |-> number, mmmm |-> name, yyyy |-> year]
<1>1. flags(date) = shown
  BY MonthNamed DEF flags, IsDateOf
<1>2. masks["longDate"] = mask
  BY DEF masks
<1>3. told = [i \in DOMAIN mask |-> shown[mask[i]]]
  BY <1>1, <1>2 DEF dateFormat
<1> HIDE DEF name, number
<1>4. told = <<number, name, year>>
  BY <1>3
<1> HIDE DEF told
<1>5. Len(told) = 3 /\ told[1] = number /\ told[2] = name /\ told[3] = year
  BY <1>4
<1> DEFINE chosen == CHOOSE m \in DOMAIN Calendar : Calendar[m] = told[2]
           leap == told[3] % 4 = 0 /\ (told[3] % 100 # 0 \/ told[3] % 400 = 0)
           Before(m) == <<0, 31, 59, 90, 120, 151, 181, 212, 243, 273, 304, 334>>[m]
           Days(m) ==
             DaysBefore(told[3]) + Before(m) + (IF leap /\ m > 2 THEN 1 ELSE 0) + told[1] - 1
           before == Before(month + 1)
<1>6. chosen = month + 1
  <2>1. month + 1 \in DOMAIN Calendar /\ Calendar[month + 1] = told[2]
    BY <1>5, MonthNamed DEF name
  <2>2. \A m \in DOMAIN Calendar : Calendar[m] = told[2] => m = month + 1
    BY <2>1, MonthsDiffer
  <2> QED BY <2>1, <2>2
<1>7. DayRead(told) = Days(month + 1)
  <2>1. DayRead(told) = Days(chosen)
    BY DEF DayRead
  <2> HIDE DEF chosen, Days
  <2> QED BY <1>6, <2>1
<1>8. leap <=> IsLeap(year)
  BY <1>5 DEF IsLeap
<1>9. before = LengthBefore[month] /\ before \in Int
  <2>1. month = 0 \/ month = 1 \/ month = 2 \/ month = 3 \/ month = 4 \/ month = 5 \/ month = 6
        \/ month = 7 \/ month = 8 \/ month = 9 \/ month = 10 \/ month = 11
    OBVIOUS
  <2> QED BY <2>1, LengthsBefore
<1> HIDE DEF before, leap, Before, chosen
<1>10. DaysBefore(year) \in Int
  BY DEF DaysBefore
<1>11. Passed(year, month) =
         DaysBefore(year) + before + (IF leap /\ month + 1 > 2 THEN 1 ELSE 0)
  <2>1. (IF month > 1 THEN LeapDay(year) ELSE 0) = IF leap /\ month + 1 > 2 THEN 1 ELSE 0
    BY <1>8 DEF LeapDay
  <2> QED BY <1>9, <2>1 DEF Passed
<1>12. DayRead(told) = day
  <2>1. DayRead(told) =
          DaysBefore(year) + before + (IF leap /\ month + 1 > 2 THEN 1 ELSE 0) + number - 1
    BY <1>5, <1>7 DEF before
  <2>2. Passed(year, month) \in Int
    BY <1>9, <1>10, <1>11
  <2> HIDE DEF Days
  <2> QED BY <1>9, <1>10, <1>11, <2>1, <2>2 DEF number
<1> QED BY <1>5, <1>12 DEF told, name

(* A month is not another thing to be said of an age.                      *)
LEMMA MonthSaid ==
  ASSUME NEW told, NEW month \in 0 .. 11, told[2] = Calendar[month + 1]
  PROVE  Said(told)[2] # "Recently" /\ told[2] \in ToSet(Calendar)
<1> DEFINE name == Calendar[month + 1]
<1>1. /\ name # "secondsAgo" /\ name # "minutesAgo" /\ name # "hoursAgo" /\ name # "daysAgo"
      /\ name # "weeksAgo" /\ name # "oneMinuteAgo" /\ name # "oneHourAgo" /\ name # "Yesterday"
      /\ name # "oneWeekAgo" /\ name # "Recently"
  <2>1. month = 0 \/ month = 1 \/ month = 2 \/ month = 3 \/ month = 4 \/ month = 5 \/ month = 6
        \/ month = 7 \/ month = 8 \/ month = 9 \/ month = 10 \/ month = 11
    OBVIOUS
  <2> QED BY <2>1 DEF Calendar
<1>2. name \in ToSet(Calendar)
  BY MonthNamed DEF ToSet
<1> HIDE DEF name
<1>3. told[2] = name
  BY DEF name
<1>4. Said(told) = <<0, name>>
  BY <1>1, <1>3 DEF Said
<1> QED BY <1>1, <1>2, <1>3, <1>4

(* What is said of an age is right, whatever the age.                      *)
LEMMA AgeTold ==
  ASSUME ReadingInv
  PROVE  AgesAreTold
<1> SUFFICES ASSUME task.is = "age", task.age >= 0
             PROVE  AgesAreTold
  BY DEF AgesAreTold
<1> DEFINE age == task.age
           told == prettyDate(age)
           said == Said(told)
           seconds == age \div Second
           unit == Units[said[2]]
           Right == CASE Len(told) = 3 -> /\ seconds >= 31 * Units.days /\ age <= TenYears * Second
                                          /\ told[2] \in ToSet(Calendar) /\ DayRead(told) = DayOf(age)
                      [] said[2] = "Recently" -> age > TenYears * Second
                      [] OTHER -> /\ seconds < 31 * Units.days
                                  /\ said[1] * unit <= seconds /\ seconds < (said[1] + 1) * unit
                                  /\ \A u \in DOMAIN Units : Units[u] > unit => seconds < Units[u]
<1>1. age \in Nat
  BY DEF ReadingInv
<1>2. AgesAreTold <=> Right
  BY DEF AgesAreTold
<1> HIDE DEF age
<1>3. CASE Bracket(age) # 0
  <2>1. ToldInUnits(told, age)
    BY <1>1, <1>3, ShortAgeTold
  <2>2. /\ Len(told) # 3 /\ said[2] # "Recently" /\ seconds < 31 * Units.days
        /\ said[1] * unit <= seconds /\ seconds < (said[1] + 1) * unit
        /\ \A u \in DOMAIN Units : Units[u] > unit => seconds < Units[u]
    BY <2>1 DEF ToldInUnits
  <2> HIDE DEF told, said, seconds, unit
  <2>3. Right
    BY <2>2
  <2> QED BY <1>2, <2>3
<1>4. CASE Bracket(age) = 0 /\ age > TenYears * Second
  <2>1. told = <<0, "Recently">>
    BY <1>4 DEF prettyDate
  <2>2. Said(<<0, "Recently">>) = <<0, "Recently">> /\ Len(<<0, "Recently">>) = 2
    BY DEF Said
  <2>3. Len(told) # 3 /\ said[2] = "Recently"
    BY <2>1, <2>2
  <2> HIDE DEF told, said, seconds, unit
  <2>4. Right
    BY <1>4, <2>3
  <2> QED BY <1>2, <2>4
<1>5. CASE Bracket(age) = 0 /\ ~(age > TenYears * Second)
  <2>1. age <= TenYears * Second
    BY <1>1, <1>5 DEF TenYears, Second
  <2>2. seconds >= 31 * Units.days
    <3>1. age >= 2678400 * 2
      BY <1>1, <1>5, BracketIs, FormatBounds DEF IsBracket, Second
    <3>2. seconds \in Nat /\ age < 2 * seconds + 2
      BY <1>1, InSeconds
    <3> HIDE DEF seconds
    <3>3. seconds >= 2678400
      BY <1>1, <3>1, <3>2
    <3> QED BY <3>2, <3>3, UnitRows
  <2>3. told = dateFormat(DateOf(DayOf(age)), "longDate")
    BY <1>5 DEF prettyDate
  <2>4. DayOf(age) \in Nat /\ DayOf(age) <= LastDay
    BY <1>1, <2>1, DayIs
  <2>5. PICK year \in Int : \E month \in 0 .. 11 : IsDateOf(DateOf(DayOf(age)), DayOf(age), year, month)
    BY <2>4, DateIs
  <2>6. PICK month \in 0 .. 11 : IsDateOf(DateOf(DayOf(age)), DayOf(age), year, month)
    BY <2>5
  <2>7. Len(told) = 3 /\ told[2] = Calendar[month + 1] /\ DayRead(told) = DayOf(age)
    BY <2>3, <2>4, <2>6, DateTold
  <2>8. said[2] # "Recently" /\ told[2] \in ToSet(Calendar)
    BY <2>7, MonthSaid
  <2> HIDE DEF told, said, seconds, unit
  <2>9. Right
    BY <2>1, <2>2, <2>7, <2>8
  <2> QED BY <1>2, <2>9
<1> QED BY <1>3, <1>4, <1>5

(* An age is told by the largest unit it has lasted and by how many, or    *)
(* by the date that a calendar has for its day (prettyDate, dateFormat).   *)
THEOREM AgesStayTold == ReadingSpec => []AgesAreTold
<1>1. ReadingInv => AgesAreTold
  BY AgeTold
<1> QED BY <1>1, ReadingInvariant, PTL

----------------------------------------------------------------------------
(* The digits of an amount, and a text some of whose digits are crossed.   *)
Numeral(p) == p \in Seq(0 .. 9) /\ Len(p) >= 1

(* An amount has at least one digit (the text of a number).                *)
LEMMA DigitsAre ==
  ASSUME NEW n \in Nat
  PROVE  Numeral(Digits(n))
<1> DEFINE step == [k \in 1 .. n + 1 |-> [m \in Nat |-> m \div 10]]
           Run(f) == f = [k \in 0 .. n + 1 |-> IF k = 0 THEN n ELSE f[k - 1] \div 10]
           left == CHOOSE f : Run(f)
           End(k) == left[k] = 0 /\ \A j \in 1 .. k - 1 : left[j] # 0
           size == CHOOSE k \in 1 .. n + 1 : End(k)
<1>1. Run(left)
  <2>1. step \in [1 .. n + 1 -> [Nat -> Nat]] /\ n + 1 \in Nat
    OBVIOUS
  <2>2. Iterations(n + 1, Nat, n, step) # {}
    <3> HIDE DEF step
    <3> QED BY <2>1, Recursion
  <2>3. PICK f \in [0 .. n + 1 -> Nat] : f[0] = n /\ \A k \in 1 .. n + 1 : f[k] = step[k][f[k - 1]]
    BY <2>2 DEF Iterations
  <2>4. ASSUME NEW k \in 0 .. n + 1
        PROVE  f[k] = IF k = 0 THEN n ELSE f[k - 1] \div 10
    <3>1. CASE k = 0
      BY <2>3, <3>1
    <3>2. CASE k # 0
      <4>1. k \in 1 .. n + 1 /\ k - 1 \in 0 .. n + 1
        BY <3>2
      <4>2. step[k][f[k - 1]] = f[k - 1] \div 10
        BY <4>1
      <4> QED BY <2>3, <3>2, <4>1, <4>2
    <3> QED BY <3>1, <3>2
  <2>5. Run(f)
    BY <2>4
  <2> HIDE DEF Run
  <2> QED BY <2>5
<1>2. /\ left[0] = n
      /\ \A k \in 1 .. n + 1 : left[k] = left[k - 1] \div 10
  <2> HIDE DEF left
  <2>1. left = [k \in 0 .. n + 1 |-> IF k = 0 THEN n ELSE left[k - 1] \div 10]
    BY <1>1
  <2>2. 0 \in 0 .. n + 1 /\ \A k \in 1 .. n + 1 : k \in 0 .. n + 1 /\ k # 0
    OBVIOUS
  <2> QED BY <2>1, <2>2
<1> HIDE DEF left, Run
<1>3. \A k \in 0 .. n + 1 : left[k] \in Nat /\ (left[k] <= n - k \/ left[k] = 0)
  <2> DEFINE done == {k \in 0 .. n + 1 : left[k] \in Nat /\ (left[k] <= n - k \/ left[k] = 0)}
  <2>1. 0 \in done
    BY <1>2
  <2>2. ASSUME NEW k \in 1 .. n + 1, k - 1 \in done
        PROVE  k \in done
    <3> DEFINE m == left[k - 1]
    <3>1. left[k] = m \div 10 /\ m \in Nat /\ (m <= n - (k - 1) \/ m = 0) /\ k \in 0 .. n + 1
      BY <1>2, <2>2
    <3> HIDE DEF m
    <3>2. m \div 10 \in Nat /\ (m = 0 => m \div 10 = 0) /\ (m > 0 => m \div 10 < m)
      BY <3>1
    <3>3. m \div 10 <= n - k \/ m \div 10 = 0
      BY <3>1, <3>2
    <3> QED BY <3>1, <3>2, <3>3
  <2>3. \A k \in 0 .. n + 1 : k \in done
    <3> HIDE DEF done
    <3> QED BY <2>1, <2>2, UpTo
  <2> QED BY <2>3
<1>4. \E k \in 1 .. n + 1 : End(k)
  <2> DEFINE zero == {k \in 1 .. n + 1 : left[k] = 0}
  <2>1. n + 1 \in zero
    <3>1. n + 1 \in 0 .. n + 1 /\ n + 1 \in 1 .. n + 1 /\ n - (n + 1) = -1
      OBVIOUS
    <3>2. left[n + 1] \in Nat /\ (left[n + 1] <= -1 \/ left[n + 1] = 0)
      BY <1>3, <3>1
    <3> QED BY <3>1, <3>2
  <2>2. PICK m \in zero : \A k \in zero : m <= k
    <3>1. zero \in SUBSET Nat /\ zero # {}
      BY <2>1
    <3> HIDE DEF zero
    <3> QED BY <3>1, LeastNatural
  <2>3. ASSUME NEW j \in 1 .. m - 1
        PROVE  left[j] # 0
    <3>1. m \in 1 .. n + 1 /\ j \in 1 .. n + 1 /\ ~(m <= j)
      OBVIOUS
    <3> QED BY <2>2, <3>1
  <2> QED BY <2>3
<1>5. size \in 1 .. n + 1
  <2> HIDE DEF End
  <2> QED BY <1>4
<1> DEFINE digits == [i \in 1 .. size |-> left[size - i] % 10]
<1>6. Digits(n) = digits
  BY DEF Digits, left, Run
<1> HIDE DEF size
<1>7. ASSUME NEW i \in 1 .. size
      PROVE  left[size - i] % 10 \in 0 .. 9
  <2>1. size - i \in 0 .. n + 1
    BY <1>5
  <2>2. left[size - i] \in Nat
    BY <1>3, <2>1
  <2> QED BY <2>2
<1>8. digits \in Seq(0 .. 9) /\ Len(digits) = size
  BY <1>5, <1>7
<1> QED BY <1>5, <1>6, <1>8 DEF Numeral

Crossable(t) == t \in Seq(0 .. 10)

(* A pattern stands at a place of a text, and which digits it covers.      *)
Fits(text, pattern, i) ==
  /\ i + Len(pattern) - 1 <= Len(text)
  /\ \A q \in 1 .. Len(pattern) : text[i + q - 1] = pattern[q]

Covers(i, pattern, q) == i <= q /\ q < i + Len(pattern)

(* An occurrence, digit by digit.                                          *)
LEMMA AtIs ==
  ASSUME NEW text, Crossable(text), NEW pattern, Numeral(pattern), NEW i \in Nat \ {0}
  PROVE  At(text, pattern, i) <=> Fits(text, pattern, i)
<1> DEFINE s == Len(pattern)
           part == SubSeq(text, i, i + s - 1)
<1>1. s \in Nat /\ s >= 1 /\ pattern \in Seq(0 .. 9) /\ text \in Seq(0 .. 10) /\ Len(text) \in Nat
  BY DEF Numeral, Crossable
<1>2. CASE ~(i + s - 1 <= Len(text))
  BY <1>2 DEF At, Fits
<1>3. CASE i + s - 1 <= Len(text)
  <2>1. \A k \in i .. i + s - 1 : text[k] \in 0 .. 10
    <3> SUFFICES ASSUME NEW k \in i .. i + s - 1
                 PROVE  text[k] \in 0 .. 10
      OBVIOUS
    <3>1. k \in 1 .. Len(text)
      BY <1>1, <1>3
    <3> QED BY <1>1, <3>1
  <2>2. i \in Int /\ i + s - 1 \in Int /\ (i + s - 1) - i + 1 = s /\ i <= i + s - 1
    BY <1>1
  <2>3. /\ part \in Seq(0 .. 10) /\ Len(part) = IF i <= i + s - 1 THEN (i + s - 1) - i + 1 ELSE 0
        /\ \A q \in 1 .. (i + s - 1) - i + 1 : part[q] = text[i + q - 1]
    <3> HIDE DEF s
    <3> QED BY <2>1, <2>2, SubSeqProperties
  <2> HIDE DEF part
  <2>4. part \in Seq(0 .. 10) /\ Len(part) = s /\ \A q \in 1 .. s : part[q] = text[i + q - 1]
    BY <2>2, <2>3
  <2>5. part = pattern <=> \A q \in 1 .. s : part[q] = pattern[q]
    <3>1. DOMAIN part = 1 .. s /\ DOMAIN pattern = 1 .. s
      BY <1>1, <2>4, LenProperties
    <3>2. part = [q \in DOMAIN part |-> part[q]] /\ pattern = [q \in DOMAIN pattern |-> pattern[q]]
      BY <1>1, <2>4
    <3> HIDE DEF s
    <3> QED BY <3>1, <3>2
  <2>6. At(text, pattern, i) <=> part = pattern
    BY <1>3 DEF At, part
  <2>7. Fits(text, pattern, i) <=> \A q \in 1 .. s : part[q] = pattern[q]
    BY <1>3, <2>4 DEF Fits
  <2> QED BY <2>5, <2>6, <2>7
<1> QED BY <1>2, <1>3

(* No digit of a match is crossed. *)
LEMMA MatchUncrossed ==
  ASSUME NEW text, Crossable(text), NEW pattern, Numeral(pattern), NEW i \in Nat \ {0},
         At(text, pattern, i), NEW q \in Int, Covers(i, pattern, q)
  PROVE  q \in 1 .. Len(text) /\ text[q] # X /\ text[q] = pattern[q - i + 1]
<1>1. Len(pattern) \in Nat /\ Len(text) \in Nat /\ pattern \in Seq(0 .. 9)
  BY DEF Numeral, Crossable
<1>2. i <= q /\ q < i + Len(pattern) /\ i + Len(pattern) - 1 <= Len(text)
  BY AtIs DEF Covers, Fits
<1> DEFINE k == q - i + 1
<1>3. k \in 1 .. Len(pattern) /\ i + k - 1 = q
  BY <1>1, <1>2
<1>4. text[i + k - 1] = pattern[k]
  <2>1. Fits(text, pattern, i)
    BY AtIs
  <2> HIDE DEF k
  <2> QED BY <1>3, <2>1 DEF Fits
<1>5. pattern[k] \in 0 .. 9
  <2> HIDE DEF k
  <2> QED BY <1>1, <1>3, ElementOfSeq
<1>6. q \in 1 .. Len(text) /\ text[q] = pattern[k]
  <2> HIDE DEF k
  <2> QED BY <1>1, <1>2, <1>3, <1>4
<1>7. pattern[k] # X
  <2> HIDE DEF k
  <2> QED BY <1>5 DEF X
<1> HIDE DEF k
<1> QED BY <1>6, <1>7 DEF k

(* The places of a pattern in the first n digits, chosen from the left. *)
Increasing(s) == \A j, k \in DOMAIN s : j < k => s[j] < s[k]

Clear(places, size, k) == \A e \in places : e < k => e + size <= k

Greedy(text, pattern, s, n) ==
  /\ s \in Seq(1 .. n) /\ Increasing(s)
  /\ \A k \in 1 .. n :
       k \in ToSet(s) <=> At(text, pattern, k) /\ Clear(ToSet(s), Len(pattern), k)

MatchStep(text, pattern, before, i) ==
  IF At(text, pattern, i) /\ \A j \in DOMAIN before : before[j] + Len(pattern) <= i
  THEN Append(before, i) ELSE before

(* The members of a sequence.                                              *)
LEMMA ToSetIs ==
  ASSUME NEW S, NEW s \in Seq(S)
  PROVE  /\ ToSet(s) \subseteq S /\ DOMAIN s = 1 .. Len(s) /\ Len(s) \in Nat
         /\ \A e : e \in ToSet(s) <=> \E j \in 1 .. Len(s) : s[j] = e
<1>1. DOMAIN s = 1 .. Len(s) /\ Len(s) \in Nat /\ \A j \in 1 .. Len(s) : s[j] \in S
  BY LenProperties
<1>2. \A e : e \in ToSet(s) <=> \E j \in 1 .. Len(s) : s[j] = e
  BY <1>1 DEF ToSet
<1> QED BY <1>1, <1>2

(* One more digit: an occurrence that starts at it is chosen if the last   *)
(* chosen one has ended.                                                   *)
LEMMA GreedyStep ==
  ASSUME NEW text, NEW pattern, Len(pattern) \in Nat, NEW n \in Nat \ {0}, NEW s,
         Greedy(text, pattern, s, n - 1)
  PROVE  Greedy(text, pattern, MatchStep(text, pattern, s, n), n)
<1> DEFINE t == MatchStep(text, pattern, s, n)
           size == Len(pattern)
           fits == At(text, pattern, n)
<1>1. s \in Seq(1 .. n - 1) /\ s \in Seq(1 .. n) /\ Increasing(s)
  BY DEF Greedy
<1>2. /\ ToSet(s) \subseteq 1 .. n - 1 /\ DOMAIN s = 1 .. Len(s) /\ Len(s) \in Nat
      /\ \A e : e \in ToSet(s) <=> \E j \in 1 .. Len(s) : s[j] = e
  BY <1>1, ToSetIs
<1>3. \A k \in 1 .. n - 1 : k \in ToSet(s) <=> At(text, pattern, k) /\ Clear(ToSet(s), size, k)
  BY DEF Greedy
<1>4. Clear(ToSet(s), size, n) <=> \A j \in DOMAIN s : s[j] + size <= n
  <2>1. \A e \in ToSet(s) : e < n
    BY <1>2
  <2>2. Clear(ToSet(s), size, n) <=> \A e \in ToSet(s) : e + size <= n
    BY <2>1 DEF Clear
  <2> HIDE DEF size
  <2> QED BY <1>2, <2>2
<1>5. CASE fits /\ Clear(ToSet(s), size, n)
  <2>1. t = Append(s, n)
    BY <1>4, <1>5 DEF MatchStep
  <2>2. /\ t \in Seq(1 .. n) /\ Len(t) = Len(s) + 1 /\ t[Len(s) + 1] = n
        /\ \A j \in 1 .. Len(s) : t[j] = s[j]
    BY <1>1, <1>2, <2>1, AppendProperties
  <2>3. /\ ToSet(t) \subseteq 1 .. n /\ DOMAIN t = 1 .. Len(t)
        /\ \A e : e \in ToSet(t) <=> \E j \in 1 .. Len(t) : t[j] = e
    BY <2>2, ToSetIs
  <2> HIDE DEF t
  <2>4. ToSet(t) = ToSet(s) \union {n}
    <3>1. \A j \in 1 .. Len(t) : j \in 1 .. Len(s) \/ j = Len(s) + 1
      BY <1>2, <2>2
    <3>2. \A j \in 1 .. Len(s) : j \in 1 .. Len(t)
      BY <1>2, <2>2
    <3>3. Len(s) + 1 \in 1 .. Len(t)
      BY <1>2, <2>2
    <3>4. ASSUME NEW e, e \in ToSet(t)
          PROVE  e \in ToSet(s) \union {n}
      <4>1. PICK j \in 1 .. Len(t) : t[j] = e
        BY <2>3, <3>4
      <4> QED BY <1>2, <2>2, <3>1, <4>1
    <3>5. ASSUME NEW e, e \in ToSet(s) \union {n}
          PROVE  e \in ToSet(t)
      <4>1. CASE e = n
        BY <2>2, <2>3, <3>3, <4>1
      <4>2. CASE e \in ToSet(s)
        <5>1. PICK j \in 1 .. Len(s) : s[j] = e
          BY <1>2, <4>2
        <5> QED BY <2>2, <2>3, <3>2, <5>1
      <4> QED BY <3>5, <4>1, <4>2
    <3> QED BY <3>4, <3>5
  <2>5. Increasing(t)
    <3> SUFFICES ASSUME NEW j \in 1 .. Len(t), NEW k \in 1 .. Len(t), j < k
                 PROVE  t[j] < t[k]
      BY <2>3 DEF Increasing
    <3>1. j \in 1 .. Len(s) /\ t[j] = s[j] /\ s[j] \in 1 .. n - 1
      <4>1. j \in 1 .. Len(s)
        BY <1>2, <2>2
      <4> QED BY <1>1, <2>2, <4>1, ElementOfSeq
    <3>2. CASE k = Len(s) + 1
      BY <2>2, <3>1, <3>2
    <3>3. CASE k # Len(s) + 1
      <4>1. k \in 1 .. Len(s) /\ t[k] = s[k]
        BY <1>2, <2>2, <3>3
      <4>2. s[j] < s[k]
        <5>1. j \in DOMAIN s /\ k \in DOMAIN s
          BY <1>2, <3>1, <4>1
        <5>2. Increasing(s)
          BY <1>1
        <5> QED BY <5>1, <5>2 DEF Increasing
      <4> QED BY <3>1, <4>1, <4>2
    <3> QED BY <3>2, <3>3
  <2>6. ASSUME NEW k \in 1 .. n
        PROVE  k \in ToSet(t) <=> At(text, pattern, k) /\ Clear(ToSet(t), size, k)
    <3>1. Clear(ToSet(t), size, k) <=> Clear(ToSet(s), size, k)
      BY <1>2, <2>4 DEF Clear
    <3>2. CASE k = n
      BY <1>5, <2>4, <3>1, <3>2
    <3>3. CASE k # n
      <4>1. k \in 1 .. n - 1
        BY <3>3
      <4> QED BY <1>3, <2>4, <3>1, <3>3, <4>1
    <3> QED BY <3>2, <3>3
  <2> QED BY <2>2, <2>5, <2>6 DEF Greedy, t
<1>6. CASE ~(fits /\ Clear(ToSet(s), size, n))
  <2>1. t = s
    BY <1>4, <1>6 DEF MatchStep
  <2>2. n \notin ToSet(s)
    BY <1>2
  <2>3. \A k \in 1 .. n : k \in ToSet(s) <=> At(text, pattern, k) /\ Clear(ToSet(s), size, k)
    <3> SUFFICES ASSUME NEW k \in 1 .. n
                 PROVE  k \in ToSet(s) <=> At(text, pattern, k) /\ Clear(ToSet(s), size, k)
      OBVIOUS
    <3>1. CASE k = n
      BY <1>6, <2>2, <3>1
    <3>2. CASE k # n
      <4>1. k \in 1 .. n - 1
        BY <3>2
      <4> QED BY <1>3, <4>1
    <3> QED BY <3>1, <3>2
  <2> QED BY <1>1, <2>1, <2>3 DEF Greedy
<1> QED BY <1>5, <1>6

(* matchAll chooses from the left, of all the occurrences.                 *)
LEMMA MatchesAre ==
  ASSUME NEW text, Crossable(text), NEW pattern, Numeral(pattern)
  PROVE  Greedy(text, pattern, Matches(text, pattern), Len(text))
<1> DEFINE n == Len(text)
           step == [i \in 1 .. n |-> [before \in Seq(Nat) |-> MatchStep(text, pattern, before, i)]]
           Run(f) == f = [i \in 0 .. n |-> IF i = 0 THEN <<>>
                          ELSE IF At(text, pattern, i)
                                    /\ \A j \in DOMAIN f[i - 1] : f[i - 1][j] + Len(pattern) <= i
                               THEN Append(f[i - 1], i) ELSE f[i - 1]]
           found == CHOOSE f : Run(f)
<1>1. n \in Nat /\ Len(pattern) \in Nat
  BY DEF Crossable, Numeral
<1>2. Run(found)
  <2>1. step \in [1 .. n -> [Seq(Nat) -> Seq(Nat)]]
    <3>1. ASSUME NEW i \in 1 .. n, NEW before \in Seq(Nat)
          PROVE  MatchStep(text, pattern, before, i) \in Seq(Nat)
      <4>1. i \in Nat
        BY <1>1
      <4> QED BY <4>1, AppendProperties DEF MatchStep
    <3> QED BY <3>1
  <2>2. Iterations(n, Seq(Nat), <<>>, step) # {}
    <3>1. <<>> \in Seq(Nat)
      OBVIOUS
    <3> HIDE DEF step, n
    <3> QED BY <1>1, <2>1, <3>1, Recursion
  <2>3. PICK f \in [0 .. n -> Seq(Nat)] : f[0] = <<>> /\ \A i \in 1 .. n : f[i] = step[i][f[i - 1]]
    BY <2>2 DEF Iterations
  <2>4. ASSUME NEW i \in 0 .. n
        PROVE  f[i] = IF i = 0 THEN <<>> ELSE MatchStep(text, pattern, f[i - 1], i)
    <3>1. CASE i = 0
      BY <2>3, <3>1
    <3>2. CASE i # 0
      <4>1. i \in 1 .. n /\ i - 1 \in 0 .. n
        BY <1>1, <3>2
      <4>2. f[i] = step[i][f[i - 1]] /\ f[i - 1] \in Seq(Nat)
        BY <2>3, <4>1
      <4>3. step[i][f[i - 1]] = MatchStep(text, pattern, f[i - 1], i)
        BY <4>1, <4>2
      <4> QED BY <3>2, <4>2, <4>3
    <3> QED BY <3>1, <3>2
  <2>5. Run(f)
    BY <2>4 DEF MatchStep
  <2> HIDE DEF Run
  <2> QED BY <2>5
<1>3. /\ found[0] = <<>>
      /\ \A i \in 1 .. n : found[i] = MatchStep(text, pattern, found[i - 1], i)
  <2> HIDE DEF found
  <2>1. found = [i \in 0 .. n |-> IF i = 0 THEN <<>> ELSE MatchStep(text, pattern, found[i - 1], i)]
    BY <1>2 DEF MatchStep
  <2>2. 0 \in 0 .. n /\ \A i \in 1 .. n : i \in 0 .. n /\ i # 0
    BY <1>1
  <2> HIDE DEF n
  <2> QED BY <2>1, <2>2
<1>4. Matches(text, pattern) = found[n]
  BY DEF Matches
<1> HIDE DEF found
<1> DEFINE done == {i \in 0 .. n : Greedy(text, pattern, found[i], i)}
<1>5. 0 \in done
  <2>1. 0 \in 0 .. n /\ <<>> \in Seq(1 .. 0) /\ \A k \in 1 .. 0 : FALSE
    BY <1>1
  <2>2. DOMAIN <<>> = {}
    <3>1. \A k \in 1 .. 0 : FALSE
      OBVIOUS
    <3>2. DOMAIN <<>> = 1 .. 0
      OBVIOUS
    <3> QED BY <3>1, <3>2
  <2>3. Greedy(text, pattern, <<>>, 0)
    BY <2>1, <2>2 DEF Greedy, Increasing
  <2> QED BY <1>3, <2>1, <2>3
<1>6. ASSUME NEW i \in 1 .. n, i - 1 \in done
      PROVE  i \in done
  <2>1. i \in Nat \ {0} /\ i \in 0 .. n /\ Greedy(text, pattern, found[i - 1], i - 1)
    BY <1>1, <1>6
  <2>2. Greedy(text, pattern, MatchStep(text, pattern, found[i - 1], i), i)
    BY <1>1, <2>1, GreedyStep
  <2> QED BY <1>3, <2>1, <2>2
<1>7. \A i \in 0 .. n : i \in done
  <2> HIDE DEF done, n
  <2> QED BY <1>1, <1>5, <1>6, UpTo
<1>8. n \in done
  BY <1>1, <1>7
<1> QED BY <1>4, <1>8

(* A text with some of its digits crossed. *)
Blanked(text, crossed) == [q \in DOMAIN text |-> IF q \in crossed THEN X ELSE text[q]]

CoveredBy(places, pattern) == {q \in Int : \E i \in places : Covers(i, pattern, q)}

(* A text with digits crossed is as long, and the other digits are as they *)
(* were.                                                                   *)
LEMMA BlankedIs ==
  ASSUME NEW text, Crossable(text), NEW crossed
  PROVE  /\ Crossable(Blanked(text, crossed)) /\ Len(text) \in Nat
         /\ Len(Blanked(text, crossed)) = Len(text)
         /\ DOMAIN text = 1 .. Len(text) /\ DOMAIN Blanked(text, crossed) = 1 .. Len(text)
         /\ \A q \in 1 .. Len(text) :
              Blanked(text, crossed)[q] = IF q \in crossed THEN X ELSE text[q]
<1> DEFINE n == Len(text)
<1>1. text \in Seq(0 .. 10) /\ n \in Nat /\ DOMAIN text = 1 .. n
  BY LenProperties DEF Crossable
<1>2. \A q \in 1 .. n : text[q] \in 0 .. 10
  BY <1>1
<1>3. Blanked(text, crossed) = [q \in 1 .. n |-> IF q \in crossed THEN 10 ELSE text[q]]
  BY <1>1 DEF Blanked, X
<1>4. \A q \in 1 .. n : (IF q \in crossed THEN 10 ELSE text[q]) \in 0 .. 10
  BY <1>2
<1> HIDE DEF n
<1>5. Blanked(text, crossed) \in Seq(0 .. 10) /\ Len(Blanked(text, crossed)) = n
  BY <1>1, <1>3, <1>4
<1> QED BY <1>1, <1>3, <1>5 DEF Crossable, X, n

(* A pattern stands in what is left if it stood there and none of it is crossed. *)
LEMMA AtBlanked ==
  ASSUME NEW text, Crossable(text), NEW pattern, Numeral(pattern), NEW i \in Nat \ {0}, NEW crossed
  PROVE  At(Blanked(text, crossed), pattern, i)
           <=> At(text, pattern, i) /\ \A q \in Int : Covers(i, pattern, q) => q \notin crossed
<1> DEFINE n == Len(text)
           size == Len(pattern)
           done == Blanked(text, crossed)
<1>1. size \in Nat /\ size >= 1 /\ n \in Nat
  BY DEF Numeral, Crossable
<1>2. /\ Crossable(done) /\ Len(done) = n
      /\ \A q \in 1 .. n : done[q] = IF q \in crossed THEN X ELSE text[q]
  BY BlankedIs
<1> HIDE DEF done, n, size
<1>3. ASSUME At(done, pattern, i)
      PROVE  At(text, pattern, i) /\ \A q \in Int : Covers(i, pattern, q) => q \notin crossed
  <2>1. ASSUME NEW q \in Int, Covers(i, pattern, q)
        PROVE  q \notin crossed /\ text[q] = pattern[q - i + 1]
    <3>1. q \in 1 .. Len(done) /\ done[q] # X /\ done[q] = pattern[q - i + 1]
      BY <1>2, <1>3, <2>1, MatchUncrossed
    <3> QED BY <1>2, <3>1
  <2>2. i + size - 1 <= n
    BY <1>2, <1>3, AtIs DEF Fits, size
  <2>3. ASSUME NEW q \in 1 .. size
        PROVE  text[i + q - 1] = pattern[q]
    <3>1. i + q - 1 \in Int /\ Covers(i, pattern, i + q - 1) /\ (i + q - 1) - i + 1 = q
      BY <1>1 DEF Covers, size
    <3> QED BY <2>1, <3>1
  <2>4. Fits(text, pattern, i)
    BY <2>2, <2>3 DEF Fits, size, n
  <2> QED BY <2>1, <2>4, AtIs
<1>4. ASSUME At(text, pattern, i), \A q \in Int : Covers(i, pattern, q) => q \notin crossed
      PROVE  At(done, pattern, i)
  <2>1. Fits(text, pattern, i)
    BY <1>4, AtIs
  <2>2. i + size - 1 <= n
    BY <2>1 DEF Fits, n, size
  <2>3. ASSUME NEW q \in 1 .. size
        PROVE  done[i + q - 1] = pattern[q]
    <3>1. i + q - 1 \in 1 .. n /\ Covers(i, pattern, i + q - 1)
      BY <1>1, <2>2 DEF Covers, size
    <3>2. i + q - 1 \notin crossed
      BY <1>4, <3>1
    <3>3. text[i + q - 1] = pattern[q]
      BY <2>1 DEF Fits, size
    <3> QED BY <1>2, <3>1, <3>2, <3>3
  <2>4. Fits(done, pattern, i)
    BY <1>2, <2>2, <2>3 DEF Fits, size
  <2> QED BY <1>2, <2>4, AtIs
<1> QED BY <1>3, <1>4 DEF done

(* What is crossed next is the match itself: one that stood before it would *)
(* overlap one that is crossed already.                                    *)
LEMMA CrossedIs ==
  ASSUME NEW text, Crossable(text), NEW pattern, Numeral(pattern),
         NEW s, Greedy(text, pattern, s, Len(text)), NEW j \in 1 .. Len(s)
  PROVE  Crossed(Blanked(text, CoveredBy({s[k] : k \in 1 .. j - 1}, pattern)), pattern, s[j])
           = Blanked(text, CoveredBy({s[k] : k \in 1 .. j}, pattern))
<1> DEFINE n == Len(text)
           size == Len(pattern)
           C == CoveredBy({s[k] : k \in 1 .. j - 1}, pattern)
           done == Blanked(text, C)
           Later == CoveredBy({s[k] : k \in 1 .. j}, pattern)
<1>1. size \in Nat /\ size >= 1 /\ pattern \in Seq(0 .. 9) /\ n \in Nat
  BY DEF Numeral, Crossable
<1>2. /\ s \in Seq(1 .. n) /\ Len(s) \in Nat /\ DOMAIN s = 1 .. Len(s)
      /\ \A e : e \in ToSet(s) <=> \E k \in 1 .. Len(s) : s[k] = e
  BY ToSetIs DEF Greedy
<1>3. /\ \A k \in 1 .. Len(s) : s[k] \in 1 .. n
      /\ \A k, m \in 1 .. Len(s) : k < m => s[k] < s[m]
      /\ \A i \in 1 .. n : i \in ToSet(s) <=> At(text, pattern, i) /\ Clear(ToSet(s), size, i)
  <2>1. \A k \in 1 .. Len(s) : s[k] \in 1 .. n
    BY <1>2, ElementOfSeq
  <2>2. \A k, m \in 1 .. Len(s) : k < m => s[k] < s[m]
    <3>1. Increasing(s)
      BY DEF Greedy
    <3> QED BY <1>2, <3>1 DEF Increasing
  <2>3. \A i \in 1 .. n : i \in ToSet(s) <=> At(text, pattern, i) /\ Clear(ToSet(s), size, i)
    BY DEF Greedy
  <2> QED BY <2>1, <2>2, <2>3
<1>4. \A k \in 1 .. Len(s) : s[k] < s[j] => k \in 1 .. j - 1
  <2> SUFFICES ASSUME NEW k \in 1 .. Len(s), s[k] < s[j], j <= k
               PROVE  FALSE
    BY <1>2
  <2>1. k = j \/ s[j] < s[k]
    BY <1>2, <1>3
  <2> QED BY <1>3, <2>1
<1>5. \A k \in 1 .. j - 1 : k \in 1 .. Len(s) /\ s[k] < s[j] /\ s[k] + size <= s[j]
  <2> SUFFICES ASSUME NEW k \in 1 .. j - 1
               PROVE  k \in 1 .. Len(s) /\ s[k] < s[j] /\ s[k] + size <= s[j]
    OBVIOUS
  <2>1. k \in 1 .. Len(s) /\ s[k] < s[j]
    BY <1>2, <1>3
  <2>2. s[j] \in 1 .. n /\ s[j] \in ToSet(s) /\ s[k] \in ToSet(s)
    BY <1>2, <1>3, <2>1
  <2>3. Clear(ToSet(s), size, s[j])
    BY <1>3, <2>2
  <2> QED BY <2>1, <2>2, <2>3 DEF Clear
<1>6. /\ Crossable(done) /\ Len(done) = n /\ DOMAIN done = 1 .. n /\ DOMAIN text = 1 .. n
      /\ \A q \in 1 .. n : done[q] = IF q \in C THEN X ELSE text[q]
  BY BlankedIs
<1>7. \A q \in Int : q \in C <=> \E k \in 1 .. j - 1 : s[k] <= q /\ q < s[k] + size
  BY DEF CoveredBy, Covers
<1>8. \A q \in Int : q \in Later <=> \E k \in 1 .. j : s[k] <= q /\ q < s[k] + size
  BY DEF CoveredBy, Covers
<1> HIDE DEF C, done, Later, n, size
<1>9. s[j] \in 1 .. n /\ At(text, pattern, s[j])
  <2>1. s[j] \in 1 .. n /\ s[j] \in ToSet(s)
    BY <1>2, <1>3
  <2> QED BY <1>3, <2>1
<1>10. \A q \in Int, i \in Int : Covers(i, pattern, q) <=> i <= q /\ q < i + size
  BY DEF Covers, size
<1>11. At(done, pattern, s[j])
  <2>1. ASSUME NEW q \in Int, Covers(s[j], pattern, q)
        PROVE  q \notin C
    <3> SUFFICES ASSUME NEW k \in 1 .. j - 1, q < s[k] + size
                 PROVE  FALSE
      BY <1>7
    <3>1. s[k] + size <= s[j] /\ s[k] \in 1 .. n /\ s[j] <= q
      BY <1>3, <1>5, <1>9, <1>10, <2>1
    <3> QED BY <1>1, <1>9, <3>1
  <2> QED BY <1>9, <2>1, AtBlanked DEF done
<1>12. ASSUME NEW i \in 1 .. s[j] - 1, At(done, pattern, i)
       PROVE  FALSE
  <2>1. i \in Nat \ {0} /\ i < s[j] /\ i \in 1 .. n
    BY <1>1, <1>9
  <2>2. At(text, pattern, i) /\ \A q \in Int : Covers(i, pattern, q) => q \notin C
    BY <1>12, <2>1, AtBlanked DEF done
  <2>3. i \notin C
    BY <1>1, <1>10, <2>1, <2>2
  <2>4. \E e \in ToSet(s) : e <= i /\ i < e + size
    <3>1. CASE i \in ToSet(s)
      BY <1>1, <2>1, <3>1
    <3>2. CASE i \notin ToSet(s)
      <4>1. ~Clear(ToSet(s), size, i)
        BY <1>3, <2>1, <2>2, <3>2
      <4>2. PICK e \in ToSet(s) : e < i /\ ~(e + size <= i)
        BY <4>1 DEF Clear
      <4>3. e \in 1 .. n
        BY <1>2, <1>3
      <4> QED BY <1>1, <2>1, <4>2, <4>3
    <3> QED BY <3>1, <3>2
  <2>5. PICK k \in 1 .. Len(s) : s[k] <= i /\ i < s[k] + size
    BY <1>2, <2>4
  <2>6. k \in 1 .. j - 1
    BY <1>3, <1>4, <1>9, <2>1, <2>5
  <2> QED BY <1>7, <2>1, <2>3, <2>5, <2>6
<1> DEFINE First(i) == At(done, pattern, i) /\ \A m \in 1 .. i - 1 : ~At(done, pattern, m)
           first == CHOOSE i \in 1 .. s[j] : First(i)
<1>13. s[j] \in 1 .. s[j] /\ First(s[j])
  BY <1>9, <1>11, <1>12
<1>14. \A i \in 1 .. s[j] : First(i) => i = s[j]
  <2> SUFFICES ASSUME NEW i \in 1 .. s[j], At(done, pattern, i), i # s[j]
               PROVE  FALSE
    OBVIOUS
  <2>1. i \in 1 .. s[j] - 1
    BY <1>9
  <2> QED BY <1>12, <2>1
<1>15. first = s[j]
  <2> HIDE DEF First
  <2> QED BY <1>13, <1>14
<1>16. Crossed(done, pattern, s[j])
         = [q \in DOMAIN done |-> IF q \in s[j] .. s[j] + size - 1 THEN X ELSE done[q]]
  BY <1>15 DEF Crossed, size
<1> HIDE DEF first
<1>17. ASSUME NEW q \in 1 .. n
       PROVE  (IF q \in s[j] .. s[j] + size - 1 THEN X ELSE done[q])
                = IF q \in Later THEN X ELSE text[q]
  <2>1. q \in Later <=> q \in C \/ q \in s[j] .. s[j] + size - 1
    <3>1. q \in Int /\ (q \in s[j] .. s[j] + size - 1 <=> s[j] <= q /\ q < s[j] + size)
      BY <1>1, <1>9
    <3>2. \A k : k \in 1 .. j <=> k \in 1 .. j - 1 \/ k = j
      BY <1>2
    <3> QED BY <1>7, <1>8, <3>1, <3>2
  <2> QED BY <1>6, <2>1
<1> QED BY <1>6, <1>16, <1>17 DEF Blanked, done, C, Later

(* When all matches are crossed, the digits they cover are, and no others. *)
LEMMA AllCrossedIs ==
  ASSUME NEW text, Crossable(text), NEW pattern, Numeral(pattern),
         NEW s, Greedy(text, pattern, s, Len(text))
  PROVE  AllCrossed(text, pattern, s) = Blanked(text, CoveredBy(ToSet(s), pattern))
<1> DEFINE m == Len(s)
           To(j) == Blanked(text, CoveredBy({s[k] : k \in 1 .. j}, pattern))
           Run(f) == f = [j \in 0 .. m |-> IF j = 0 THEN text ELSE Crossed(f[j - 1], pattern, s[j])]
           after == CHOOSE f : Run(f)
<1>1. m \in Nat /\ s \in Seq(1 .. Len(text)) /\ text \in Seq(0 .. 10) /\ Len(text) \in Nat
  BY ToSetIs DEF Greedy, Crossable
<1>2. To(0) = text
  <2>1. \A q : q \notin CoveredBy({s[k] : k \in 1 .. 0}, pattern)
    BY DEF CoveredBy
  <2>2. To(0) = [q \in DOMAIN text |-> text[q]]
    BY <2>1 DEF Blanked
  <2> QED BY <1>1, <2>2
<1>3. \A j \in 1 .. m : To(j) = Crossed(To(j - 1), pattern, s[j])
  BY CrossedIs
<1> HIDE DEF To
<1>4. Run(after)
  <2>1. [j \in 0 .. m |-> To(j)]
          = [j \in 0 .. m |-> IF j = 0 THEN text
                              ELSE Crossed([i \in 0 .. m |-> To(i)][j - 1], pattern, s[j])]
    <3> SUFFICES ASSUME NEW j \in 0 .. m
                 PROVE  To(j) = IF j = 0 THEN text
                                ELSE Crossed([i \in 0 .. m |-> To(i)][j - 1], pattern, s[j])
      OBVIOUS
    <3>1. CASE j = 0
      BY <1>2, <3>1
    <3>2. CASE j # 0
      <4>1. j \in 1 .. m /\ j - 1 \in 0 .. m
        BY <1>1, <3>2
      <4> QED BY <1>3, <3>2, <4>1
    <3> QED BY <3>1, <3>2
  <2>2. Run([j \in 0 .. m |-> To(j)])
    BY <2>1
  <2> HIDE DEF Run
  <2> QED BY <2>2
<1> DEFINE done == {j \in 0 .. m : after[j] = To(j)}
<1>5. /\ after[0] = text
      /\ \A j \in 1 .. m : after[j] = Crossed(after[j - 1], pattern, s[j])
  <2> HIDE DEF after
  <2>1. after = [j \in 0 .. m |-> IF j = 0 THEN text ELSE Crossed(after[j - 1], pattern, s[j])]
    BY <1>4
  <2>2. 0 \in 0 .. m /\ \A j \in 1 .. m : j \in 0 .. m /\ j # 0
    BY <1>1
  <2> HIDE DEF m
  <2> QED BY <2>1, <2>2
<1>6. AllCrossed(text, pattern, s) = after[m]
  BY DEF AllCrossed
<1> HIDE DEF after
<1>7. 0 \in done
  BY <1>1, <1>2, <1>5
<1>8. \A j \in 1 .. m : j - 1 \in done => j \in done
  BY <1>1, <1>3, <1>5
<1>9. m \in done
  <2>1. \A j \in 0 .. m : j \in done
    <3> HIDE DEF done, m
    <3> QED BY <1>1, <1>7, <1>8, UpTo
  <2> QED BY <1>1, <2>1
<1>10. {s[k] : k \in 1 .. m} = ToSet(s)
  BY <1>1, ToSetIs
<1> QED BY <1>6, <1>9, <1>10 DEF To

(* The rows of a list, and what is kept while they are gone through.       *)
NumerologyRow == [equality : {"<", ">=", "=", "=~"}, amount : Nat]

AmountStates(n) ==
  [numerology : Seq(Nat), text : Seq(0 .. 10), substitutions : [1 .. n -> Nat]]

FoundBy(state, item) == Matches(state.text, Digits(item.amount))

Gaps(m) == [j \in 1 .. m |-> Gap]

(* What a row does, whichever it is. *)
LooksFor(old, new, k, item) ==
  /\ Greedy(old.text, Digits(item.amount), FoundBy(old, item), Len(old.text))
  /\ new.numerology = old.numerology \o Gaps(Len(FoundBy(old, item)))
  /\ new.text = Blanked(old.text, CoveredBy(ToSet(FoundBy(old, item)), Digits(item.amount)))
  /\ new.substitutions = [i \in DOMAIN old.substitutions |->
                            IF i \in ToSet(FoundBy(old, item)) THEN k ELSE old.substitutions[i]]

NamesIt(old, new, k, item) ==
  /\ new.numerology = Append(old.numerology, k)
  /\ new.text = (IF item.equality = "=" THEN <<>> ELSE old.text)
  /\ new.substitutions = old.substitutions

Does(value, old, new, k, item) ==
  IF item.equality = "=~" THEN LooksFor(old, new, k, item)
  ELSE IF Holds(value, item) THEN NamesIt(old, new, k, item)
  ELSE new = old

(* As many gaps as were asked for.                                         *)
LEMMA GapsAre ==
  ASSUME NEW m \in Nat
  PROVE  Gaps(m) \in Seq(Nat) /\ Len(Gaps(m)) = m /\ \A j \in 1 .. m : Gaps(m)[j] = Gap
BY DEF Gaps, Gap

(* A row does one of three things (the loop of parseNumerology).           *)
LEMMA AppliedDoes ==
  ASSUME NEW n \in Nat, NEW old \in AmountStates(n), NEW value \in Nat, NEW k \in Nat,
         NEW item \in NumerologyRow
  PROVE  /\ Applied(old, value, k, item) \in AmountStates(n)
         /\ Does(value, old, Applied(old, value, k, item), k, item)
<1> DEFINE new == Applied(old, value, k, item)
           pattern == Digits(item.amount)
           found == FoundBy(old, item)
           named == [old EXCEPT !.numerology = Append(@, k)]
           empty == [named EXCEPT !.text = <<>>]
           looked == [numerology |-> old.numerology \o [j \in DOMAIN found |-> Gap],
                      text |-> AllCrossed(old.text, pattern, found),
                      substitutions |-> [i \in DOMAIN old.substitutions |->
                        IF i \in ToSet(found) THEN k ELSE old.substitutions[i]]]
<1>1. /\ old.numerology \in Seq(Nat) /\ old.text \in Seq(0 .. 10)
      /\ old.substitutions \in [1 .. n -> Nat]
      /\ old = [numerology |-> old.numerology, text |-> old.text, substitutions |-> old.substitutions]
  BY DEF AmountStates
<1>2. item.equality \in {"<", ">=", "=", "=~"} /\ item.amount \in Nat
  BY DEF NumerologyRow
<1>3. /\ named.numerology = Append(old.numerology, k) /\ named.text = old.text
      /\ named.substitutions = old.substitutions
      /\ empty.numerology = Append(old.numerology, k) /\ empty.text = <<>>
      /\ empty.substitutions = old.substitutions
  BY DEF AmountStates
<1>4. named \in AmountStates(n) /\ empty \in AmountStates(n)
  <2>1. Append(old.numerology, k) \in Seq(Nat) /\ <<>> \in Seq(0 .. 10)
    BY <1>1
  <2>2. named \in AmountStates(n)
    BY <2>1 DEF AmountStates
  <2> HIDE DEF named
  <2> QED BY <2>1, <2>2 DEF AmountStates
<1>5. new = CASE item.equality = "<"  /\ value < item.amount -> named
              [] item.equality = ">=" /\ value >= item.amount -> named
              [] item.equality = "="  /\ value = item.amount -> empty
              [] item.equality = "=~" -> looked
              [] OTHER -> old
  BY DEF Applied, FoundBy
<1> HIDE DEF new, named, empty, looked, found, pattern
<1>6. CASE item.equality = "=~"
  <2>1. new = looked
    BY <1>5, <1>6
  <2>2. Crossable(old.text) /\ Numeral(pattern)
    BY <1>1, <1>2, DigitsAre DEF Crossable, pattern
  <2>3. Greedy(old.text, pattern, found, Len(old.text))
    BY <2>2, MatchesAre DEF found, FoundBy, pattern
  <2>4. AllCrossed(old.text, pattern, found) = Blanked(old.text, CoveredBy(ToSet(found), pattern))
    BY <2>2, <2>3, AllCrossedIs
  <2>5. Blanked(old.text, CoveredBy(ToSet(found), pattern)) \in Seq(0 .. 10)
    BY <2>2, BlankedIs DEF Crossable
  <2>6. DOMAIN found = 1 .. Len(found) /\ Len(found) \in Nat
    BY <2>3, ToSetIs DEF Greedy
  <2>7. Gaps(Len(found)) \in Seq(Nat) /\ [j \in DOMAIN found |-> Gap] = Gaps(Len(found))
    BY <2>6, GapsAre DEF Gaps
  <2>8. old.numerology \o Gaps(Len(found)) \in Seq(Nat)
    BY <1>1, <2>7
  <2>9. [i \in DOMAIN old.substitutions |-> IF i \in ToSet(found) THEN k ELSE old.substitutions[i]]
          \in [1 .. n -> Nat]
    BY <1>1
  <2>10. looked \in AmountStates(n)
    BY <2>4, <2>5, <2>7, <2>8, <2>9 DEF looked, AmountStates
  <2>11. LooksFor(old, new, k, item)
    BY <2>1, <2>3, <2>4, <2>7 DEF LooksFor, looked, found, pattern
  <2> QED BY <1>6, <2>1, <2>10, <2>11 DEF Does, new
<1>7. CASE item.equality # "=~" /\ Holds(value, item)
  <2>1. new = IF item.equality = "=" THEN empty ELSE named
    BY <1>2, <1>5, <1>7 DEF Holds
  <2>2. NamesIt(old, new, k, item)
    BY <1>3, <2>1 DEF NamesIt
  <2> QED BY <1>4, <1>7, <2>1, <2>2 DEF Does, new
<1>8. CASE item.equality # "=~" /\ ~Holds(value, item)
  <2>1. new = old
    BY <1>2, <1>5, <1>8 DEF Holds
  <2> QED BY <1>8, <2>1 DEF Does, new
<1> QED BY <1>6, <1>7, <1>8

(* The states that going through a list runs through. *)
StartOf(value) ==
  [numerology |-> <<>>, text |-> Digits(value),
   substitutions |-> [i \in DOMAIN Digits(value) |-> Gap]]

IsAmountRun(value, list, f) ==
  /\ f \in [0 .. Len(list) -> AmountStates(Len(Digits(value)))]
  /\ f[0] = StartOf(value)
  /\ \A k \in 1 .. Len(list) : Does(value, f[k - 1], f[k], k, list[k])

(* What parseNumerology makes of the last state. *)
GapsTo(end, i) == Cardinality({j \in 1 .. i : end.numerology[j] = Gap})
Subs(end) == {i \in DOMAIN end.substitutions : end.substitutions[i] # Gap}
SubOf(end, g) == CHOOSE i \in Subs(end) : Cardinality({j \in Subs(end) : j <= i}) = g
ToldOf(end) ==
  [i \in DOMAIN end.numerology |->
     IF end.numerology[i] # Gap THEN end.numerology[i]
     ELSE IF GapsTo(end, i) <= Cardinality(Subs(end))
          THEN end.substitutions[SubOf(end, GapsTo(end, i))] ELSE Gap]

(* parseNumerology goes through the list, and tells what the last state    *)
(* comes to.                                                               *)
LEMMA AmountRun ==
  ASSUME NEW value \in Nat, NEW list \in Seq(NumerologyRow)
  PROVE  \E f : IsAmountRun(value, list, f) /\ parseNumerology(value, list) = ToldOf(f[Len(list)])
<1> DEFINE n == Len(Digits(value))
           m == Len(list)
           S == AmountStates(n)
           start == StartOf(value)
           step == [k \in 1 .. m |-> [state \in S |-> Applied(state, value, k, list[k])]]
           Run(f) == f = [k \in 0 .. m |->
                            IF k = 0 THEN start ELSE Applied(f[k - 1], value, k, list[k])]
           after == CHOOSE f : Run(f)
<1>1. n \in Nat /\ m \in Nat /\ Digits(value) \in Seq(0 .. 9) /\ DOMAIN Digits(value) = 1 .. n
  <2>1. Digits(value) \in Seq(0 .. 9)
    BY DigitsAre DEF Numeral
  <2> QED BY <2>1, LenProperties
<1>2. start \in S
  <2>1. Digits(value) \in Seq(0 .. 10)
    <3>1. \A i \in 1 .. n : Digits(value)[i] \in 0 .. 10
      <4> SUFFICES ASSUME NEW i \in 1 .. n PROVE Digits(value)[i] \in 0 .. 10
        OBVIOUS
      <4>1. Digits(value)[i] \in 0 .. 9
        BY <1>1, ElementOfSeq
      <4> QED BY <4>1
    <3>2. Digits(value) = [i \in 1 .. n |-> Digits(value)[i]]
      BY <1>1
    <3> QED BY <1>1, <3>1, <3>2
  <2>2. [i \in DOMAIN Digits(value) |-> Gap] \in [1 .. n -> Nat]
    BY <1>1 DEF Gap
  <2>3. <<>> \in Seq(Nat)
    OBVIOUS
  <2> QED BY <2>1, <2>2, <2>3 DEF AmountStates, StartOf
<1>3. \A k \in 1 .. m : list[k] \in NumerologyRow /\ k \in Nat
  BY <1>1, ElementOfSeq
<1> HIDE DEF n, S, start
<1>4. \A k \in 1 .. m, state \in S :
        /\ Applied(state, value, k, list[k]) \in S
        /\ Does(value, state, Applied(state, value, k, list[k]), k, list[k])
  <2> SUFFICES ASSUME NEW k \in 1 .. m, NEW state \in S
               PROVE  /\ Applied(state, value, k, list[k]) \in S
                      /\ Does(value, state, Applied(state, value, k, list[k]), k, list[k])
    OBVIOUS
  <2>1. state \in AmountStates(n)
    BY DEF S
  <2> QED BY <1>1, <1>3, <2>1, AppliedDoes DEF S
<1>5. PICK f \in [0 .. m -> S] : f[0] = start /\ \A k \in 1 .. m : f[k] = step[k][f[k - 1]]
  <2>1. step \in [1 .. m -> [S -> S]]
    BY <1>4
  <2>2. Iterations(m, S, start, step) # {}
    <3> HIDE DEF step, m
    <3> QED BY <1>1, <1>2, <2>1, Recursion
  <2> QED BY <2>2 DEF Iterations
<1>6. \A k \in 1 .. m : k - 1 \in 0 .. m /\ k \in 0 .. m /\ k # 0
  BY <1>1
<1>7. \A k \in 1 .. m : f[k] = Applied(f[k - 1], value, k, list[k])
  BY <1>5, <1>6
<1>8. Run(f)
  <2>1. \A k \in 0 .. m : f[k] = IF k = 0 THEN start ELSE Applied(f[k - 1], value, k, list[k])
    <3> SUFFICES ASSUME NEW k \in 0 .. m
                 PROVE  f[k] = IF k = 0 THEN start ELSE Applied(f[k - 1], value, k, list[k])
      OBVIOUS
    <3>1. k = 0 \/ k \in 1 .. m
      BY <1>1
    <3> QED BY <1>5, <1>6, <1>7, <3>1
  <2> QED BY <1>5, <2>1
<1>9. Run(after)
  <2> HIDE DEF Run
  <2> QED BY <1>8
<1>10. parseNumerology(value, list) = ToldOf(after[m])
  BY DEF parseNumerology, ToldOf, SubOf, Subs, GapsTo, StartOf, start
<1> HIDE DEF after
<1>11. after = [k \in 0 .. m |-> IF k = 0 THEN start ELSE Applied(after[k - 1], value, k, list[k])]
  BY <1>9
<1>12. after[0] = start /\ \A k \in 1 .. m : after[k] = Applied(after[k - 1], value, k, list[k])
  <2>1. 0 \in 0 .. m
    BY <1>1
  <2> HIDE DEF m
  <2> QED BY <1>6, <1>11, <2>1
<1> DEFINE same == {k \in 0 .. m : after[k] = f[k]}
<1>13. \A k \in 0 .. m : k \in same
  <2>1. 0 \in same
    BY <1>1, <1>5, <1>12
  <2>2. \A k \in 1 .. m : k - 1 \in same => k \in same
    BY <1>6, <1>7, <1>12
  <2> HIDE DEF same, m
  <2> QED BY <1>1, <2>1, <2>2, UpTo
<1>14. after[m] = f[m]
  BY <1>1, <1>13
<1>15. \A k \in 1 .. m : Does(value, f[k - 1], f[k], k, list[k])
  BY <1>4, <1>5, <1>6, <1>7
<1>16. IsAmountRun(value, list, f)
  BY <1>5, <1>15 DEF IsAmountRun, S, n, start
<1> QED BY <1>10, <1>14, <1>16

(* Where the k-th row is found, all that is found, and what that crosses.  *)
Places(list, f, k) == IF list[k].equality = "=~" THEN ToSet(FoundBy(f[k - 1], list[k])) ELSE {}

Matched(value, list, f) ==
  {a \in (DOMAIN list) \X (DOMAIN Digits(value)) : a[2] \in Places(list, f, a[1])}

Ended(value, list, k) == \E j \in 1 .. k : list[j].equality = "=" /\ list[j].amount = value

CrossedBy(value, list, f, k) ==
  {q \in Int : \E a \in Matched(value, list, f) : a[1] <= k /\ Covers(a[2], PatternOf(list, a[1]), q)}

TextIs(value, list, f, k) ==
  f[k].text = IF Ended(value, list, k) THEN <<>>
              ELSE Blanked(Digits(value), CrossedBy(value, list, f, k))

ReadBy(value, list, f) ==
  value \in Nat /\ list \in Seq(NumerologyRow) /\ IsAmountRun(value, list, f)

(* The rows, the digits of the amount and the patterns are in range.       *)
LEMMA RowFacts ==
  ASSUME NEW value, NEW list, NEW f, ReadBy(value, list, f)
  PROVE  /\ Len(list) \in Nat /\ DOMAIN list = 1 .. Len(list)
         /\ Numeral(Digits(value)) /\ Crossable(Digits(value))
         /\ Len(Digits(value)) \in Nat /\ DOMAIN Digits(value) = 1 .. Len(Digits(value))
         /\ \A k \in 1 .. Len(list) :
              /\ list[k].equality \in {"<", ">=", "=", "=~"} /\ list[k].amount \in Nat
              /\ Numeral(PatternOf(list, k))
              /\ Len(PatternOf(list, k)) \in Nat /\ Len(PatternOf(list, k)) >= 1
<1>1. value \in Nat /\ list \in Seq(NumerologyRow)
  BY DEF ReadBy
<1>2. Len(list) \in Nat /\ DOMAIN list = 1 .. Len(list)
  BY <1>1, LenProperties
<1>3. Numeral(Digits(value))
  BY <1>1, DigitsAre
<1>4. Digits(value) \in Seq(0 .. 9) /\ Len(Digits(value)) \in Nat
      /\ DOMAIN Digits(value) = 1 .. Len(Digits(value))
  BY <1>3, LenProperties DEF Numeral
<1>5. Crossable(Digits(value))
  <2> DEFINE t == Digits(value)
  <2> HIDE DEF t
  <2>1. t \in Seq(0 .. 9) /\ Len(t) \in Nat
    BY <1>4 DEF t
  <2>2. \A i \in 1 .. Len(t) : t[i] \in 0 .. 10
    <3> SUFFICES ASSUME NEW i \in 1 .. Len(t) PROVE t[i] \in 0 .. 10
      OBVIOUS
    <3>1. t[i] \in 0 .. 9
      BY <2>1, ElementOfSeq
    <3> QED BY <3>1
  <2>3. t = [i \in 1 .. Len(t) |-> t[i]]
    BY <2>1
  <2>4. t \in Seq(0 .. 10)
    BY <2>1, <2>2, <2>3
  <2> QED BY <2>4 DEF Crossable, t
<1>6. ASSUME NEW k \in 1 .. Len(list)
      PROVE  /\ list[k].equality \in {"<", ">=", "=", "=~"} /\ list[k].amount \in Nat
             /\ Numeral(PatternOf(list, k))
             /\ Len(PatternOf(list, k)) \in Nat /\ Len(PatternOf(list, k)) >= 1
  <2>1. list[k] \in NumerologyRow
    BY <1>1, ElementOfSeq
  <2>2. list[k].equality \in {"<", ">=", "=", "=~"} /\ list[k].amount \in Nat
    BY <2>1 DEF NumerologyRow
  <2>3. Numeral(PatternOf(list, k))
    BY <2>2, DigitsAre DEF PatternOf
  <2> QED BY <2>2, <2>3 DEF Numeral
<1> QED BY <1>2, <1>3, <1>4, <1>5, <1>6

(* What is kept while the list is gone through is in range.                *)
LEMMA StatesAre ==
  ASSUME NEW value, NEW list, NEW f, ReadBy(value, list, f), NEW k \in 0 .. Len(list)
  PROVE  /\ f[k].numerology \in Seq(Nat) /\ Crossable(f[k].text)
         /\ f[k].substitutions \in [1 .. Len(Digits(value)) -> Nat]
<1>1. f[k] \in AmountStates(Len(Digits(value)))
  BY DEF ReadBy, IsAmountRun
<1> QED BY <1>1 DEF AmountStates, Crossable

(* Where a row is found, given what the text is.                           *)
LEMMA PlacesAre ==
  ASSUME NEW value, NEW list, NEW f, ReadBy(value, list, f), NEW k \in 1 .. Len(list),
         TextIs(value, list, f, k - 1), list[k].equality = "=~"
  PROVE  /\ Places(list, f, k) \subseteq 1 .. Len(Digits(value))
         /\ \A p \in 1 .. Len(Digits(value)) :
              p \in Places(list, f, k)
                <=> /\ At(f[k - 1].text, PatternOf(list, k), p)
                    /\ Clear(Places(list, f, k), Len(PatternOf(list, k)), p)
<1> DEFINE text == f[k - 1].text
           pattern == PatternOf(list, k)
           size == Len(pattern)
           s == FoundBy(f[k - 1], list[k])
           n == Len(Digits(value))
           C == CrossedBy(value, list, f, k - 1)
           places == Places(list, f, k)
<1>1. /\ Len(list) \in Nat /\ n \in Nat /\ Crossable(Digits(value))
      /\ Numeral(pattern) /\ size \in Nat /\ size >= 1
  BY RowFacts
<1>2. k - 1 \in 0 .. Len(list)
  BY <1>1
<1>3. Crossable(text)
  BY <1>2, StatesAre
<1>4. Does(value, f[k - 1], f[k], k, list[k])
  BY DEF ReadBy, IsAmountRun
<1>5. Greedy(text, pattern, s, Len(text))
  BY <1>4 DEF Does, LooksFor, PatternOf
<1>6. places = ToSet(s)
  BY DEF Places
<1>7. Len(text) \in Nat /\ Len(text) <= n
  <2>1. Len(Blanked(Digits(value), C)) = n
    BY <1>1, BlankedIs
  <2>2. Len(<<>>) = 0
    OBVIOUS
  <2>3. text = <<>> \/ text = Blanked(Digits(value), C)
    BY DEF TextIs
  <2> HIDE DEF text, n, C
  <2> QED BY <1>1, <2>1, <2>2, <2>3 DEF n
<1> HIDE DEF text, pattern, s, n, places, size
<1>8. ToSet(s) \subseteq 1 .. Len(text)
  BY <1>5, ToSetIs DEF Greedy
<1>9. ASSUME NEW p \in 1 .. n
      PROVE  p \in places <=> At(text, pattern, p) /\ Clear(places, size, p)
  <2>1. CASE p \in 1 .. Len(text)
    BY <1>5, <1>6, <2>1 DEF Greedy, size
  <2>2. CASE p \notin 1 .. Len(text)
    <3>1. ~(p + size - 1 <= Len(text))
      BY <1>1, <1>7, <2>2
    <3>2. ~At(text, pattern, p)
      BY <3>1 DEF At, size
    <3> QED BY <1>6, <1>8, <2>2, <3>2
  <2> QED BY <2>1, <2>2
<1>10. places \subseteq 1 .. n
  BY <1>1, <1>6, <1>7, <1>8
<1> QED BY <1>9, <1>10 DEF text, pattern, n, places, size

(* What was matched: a row, and a place where it was found.                *)
LEMMA MatchedIs ==
  ASSUME NEW value, NEW list, NEW f, ReadBy(value, list, f)
  PROVE  \A a : a \in Matched(value, list, f)
           <=> /\ a[1] \in 1 .. Len(list) /\ a[2] \in 1 .. Len(Digits(value))
               /\ a = <<a[1], a[2]>> /\ a[2] \in Places(list, f, a[1])
<1>1. DOMAIN list = 1 .. Len(list) /\ DOMAIN Digits(value) = 1 .. Len(Digits(value))
  BY RowFacts
<1> QED BY <1>1 DEF Matched

(* What the text is: nothing once a row has named the amount, and until    *)
(* then the amount without what was taken of it.                           *)
LEMMA TextsAre ==
  ASSUME NEW value, NEW list, NEW f, ReadBy(value, list, f)
  PROVE  \A k \in 0 .. Len(list) : TextIs(value, list, f, k)
<1> DEFINE m == Len(list)
           text == Digits(value)
           n == Len(text)
           C(k) == CrossedBy(value, list, f, k)
           taken == Matched(value, list, f)
           right == {k \in 0 .. m : TextIs(value, list, f, k)}
<1>1. m \in Nat /\ n \in Nat /\ Crossable(text)
  BY RowFacts
<1>2. 0 \in right
  <2>1. f[0].text = text
    BY DEF ReadBy, IsAmountRun, StartOf
  <2>2. ~Ended(value, list, 0)
    BY DEF Ended
  <2>3. \A q : q \notin C(0)
    <3>1. \A a \in taken : a[1] \in 1 .. m
      BY MatchedIs
    <3>2. \A a \in taken : ~(a[1] <= 0)
      <4> HIDE DEF taken
      <4> QED BY <1>1, <3>1
    <3> QED BY <3>2 DEF CrossedBy
  <2>4. Blanked(text, C(0)) = text
    <3>1. text = [q \in DOMAIN text |-> text[q]]
      BY <1>1 DEF Crossable
    <3> QED BY <2>3, <3>1 DEF Blanked
  <2> QED BY <1>1, <2>1, <2>2, <2>4 DEF TextIs
<1>3. ASSUME NEW k \in 1 .. m, k - 1 \in right
      PROVE  k \in right
  <2> DEFINE old == f[k - 1]
             new == f[k]
             item == list[k]
             pattern == PatternOf(list, k)
             places == Places(list, f, k)
  <2>1. TextIs(value, list, f, k - 1) /\ k \in 0 .. m /\ k - 1 \in 0 .. m
    BY <1>1, <1>3
  <2>2. Does(value, old, new, k, item)
    BY DEF ReadBy, IsAmountRun
  <2>3. Ended(value, list, k) <=> Ended(value, list, k - 1) \/ (item.equality = "=" /\ item.amount = value)
    <3>1. \A j : j \in 1 .. k <=> j \in 1 .. k - 1 \/ j = k
      BY <1>1
    <3> QED BY <3>1 DEF Ended
  <2>4. ASSUME NEW q \in Int
        PROVE  q \in C(k) <=> q \in C(k - 1) \/ \E p \in places : p \in 1 .. n /\ Covers(p, pattern, q)
    <3>1. \A a \in taken : a[1] \in 1 .. m /\ (a[1] <= k <=> a[1] <= k - 1 \/ a[1] = k)
      <4>1. \A a \in taken : a[1] \in 1 .. m
        BY MatchedIs
      <4> QED BY <1>1, <4>1
    <3>2. (\E a \in taken : a[1] = k /\ Covers(a[2], PatternOf(list, a[1]), q))
            <=> \E p \in places : p \in 1 .. n /\ Covers(p, pattern, q)
      <4>1. ASSUME NEW a \in taken, a[1] = k, Covers(a[2], PatternOf(list, a[1]), q)
            PROVE  \E p \in places : p \in 1 .. n /\ Covers(p, pattern, q)
        BY <4>1, MatchedIs
      <4>2. ASSUME NEW p \in places, p \in 1 .. n, Covers(p, pattern, q)
            PROVE  \E a \in taken : a[1] = k /\ Covers(a[2], PatternOf(list, a[1]), q)
        <5>1. <<k, p>> \in taken
          BY <4>2, MatchedIs
        <5> QED BY <4>2, <5>1
      <4> QED BY <4>1, <4>2
    <3> QED BY <3>1, <3>2 DEF CrossedBy
  <2>5. CASE item.equality = "=~"
    <3>1. LooksFor(old, new, k, item)
      BY <2>2, <2>5 DEF Does
    <3>2. new.text = Blanked(old.text, CoveredBy(places, pattern))
      BY <2>5, <3>1 DEF LooksFor, Places, PatternOf
    <3>3. Ended(value, list, k) <=> Ended(value, list, k - 1)
      BY <2>3, <2>5
    <3>4. CASE Ended(value, list, k)
      <4>1. old.text = <<>>
        BY <2>1, <3>3, <3>4 DEF TextIs
      <4>2. Crossable(<<>>)
        BY DEF Crossable
      <4>3. Crossable(new.text) /\ Len(new.text) = 0
        <5>1. Len(<<>>) = 0
          OBVIOUS
        <5> QED BY <3>2, <4>1, <4>2, <5>1, BlankedIs
      <4>4. new.text = <<>>
        BY <4>3, EmptySeq DEF Crossable
      <4> QED BY <2>1, <3>4, <4>4 DEF TextIs
    <3>5. CASE ~Ended(value, list, k)
      <4>1. old.text = Blanked(text, C(k - 1))
        BY <2>1, <3>3, <3>5 DEF TextIs
      <4>2. places \subseteq 1 .. n
        BY <2>1, <2>5, PlacesAre
      <4>3. \A q \in Int : q \in CoveredBy(places, pattern)
                             <=> \E p \in places : p \in 1 .. n /\ Covers(p, pattern, q)
        BY <4>2 DEF CoveredBy
      <4>4. Blanked(Blanked(text, C(k - 1)), CoveredBy(places, pattern)) = Blanked(text, C(k))
        <5> HIDE DEF C, places, pattern, text
        <5>1. /\ DOMAIN Blanked(text, C(k - 1)) = 1 .. Len(text) /\ DOMAIN text = 1 .. Len(text)
              /\ \A q \in 1 .. Len(text) :
                   Blanked(text, C(k - 1))[q] = IF q \in C(k - 1) THEN X ELSE text[q]
          BY <1>1, BlankedIs
        <5>2. \A q \in 1 .. Len(text) : q \in C(k) <=> q \in C(k - 1) \/ q \in CoveredBy(places, pattern)
          BY <2>4, <4>3
        <5> QED BY <5>1, <5>2 DEF Blanked
      <4> QED BY <2>1, <3>2, <3>5, <4>1, <4>4 DEF TextIs
    <3> QED BY <3>4, <3>5
  <2>6. CASE item.equality # "=~"
    <3>1. C(k) = C(k - 1)
      <4>1. places = {}
        BY <2>6 DEF Places
      <4>2. C(k) \subseteq Int /\ C(k - 1) \subseteq Int
        BY DEF CrossedBy
      <4> HIDE DEF C, places
      <4> QED BY <2>4, <4>1, <4>2
    <3>2. CASE Holds(value, item)
      <4>1. NamesIt(old, new, k, item)
        BY <2>2, <2>6, <3>2 DEF Does
      <4>2. item.equality = "=" => item.amount = value
        BY <3>2 DEF Holds
      <4> QED BY <2>1, <2>3, <3>1, <4>1, <4>2 DEF NamesIt, TextIs
    <3>3. CASE ~Holds(value, item)
      <4>1. new = old
        BY <2>2, <2>6, <3>3 DEF Does
      <4>2. ~(item.equality = "=" /\ item.amount = value)
        BY <3>3 DEF Holds
      <4> QED BY <2>1, <2>3, <3>1, <4>1, <4>2 DEF TextIs
    <3> QED BY <3>2, <3>3
  <2> QED BY <2>5, <2>6
<1>4. \A k \in 0 .. m : k \in right
  <2> HIDE DEF right, m
  <2> QED BY <1>1, <1>2, <1>3, UpTo
<1> QED BY <1>4

(* What Found chooses. *)
Solution(value, list, chosen) ==
  \A a \in AllFound(value, list) :
    a \in chosen <=> ~\E b \in chosen : Earlier(b, a) /\ Overlapping(list, b, a)

(* Found chooses a solution.                                               *)
LEMMA FoundByParts ==
  ASSUME NEW value, NEW list
  PROVE  Found(value, list)
           = CHOOSE chosen \in SUBSET AllFound(value, list) : Solution(value, list, chosen)
BY DEF Found, Solution

(* What is taken is among all that there is to find.                       *)
LEMMA MatchedAmongAll ==
  ASSUME NEW value, NEW list, NEW f, ReadBy(value, list, f)
  PROVE  Matched(value, list, f) \subseteq AllFound(value, list)
<1> SUFFICES ASSUME NEW a \in Matched(value, list, f)
             PROVE  a \in AllFound(value, list)
  OBVIOUS
<1> DEFINE k == a[1]
           p == a[2]
           text == Digits(value)
           old == f[k - 1].text
           pattern == PatternOf(list, k)
<1>1. /\ k \in 1 .. Len(list) /\ p \in 1 .. Len(text) /\ p \in Places(list, f, k)
      /\ a \in (DOMAIN list) \X (DOMAIN text)
  BY MatchedIs DEF Matched
<1>2. list[k].equality = "=~"
  BY <1>1 DEF Places
<1>3. /\ Len(list) \in Nat /\ Len(text) \in Nat /\ Crossable(text)
      /\ Numeral(pattern) /\ Len(pattern) \in Nat /\ Len(pattern) >= 1
  BY <1>1, RowFacts
<1>4. k - 1 \in 0 .. Len(list) /\ p \in Nat \ {0}
  BY <1>1, <1>3
<1>5. TextIs(value, list, f, k - 1)
  BY <1>4, TextsAre
<1>6. At(old, pattern, p)
  BY <1>1, <1>2, <1>5, PlacesAre
<1>7. ~Ended(value, list, k - 1)
  <2> SUFFICES ASSUME Ended(value, list, k - 1)
               PROVE  FALSE
    OBVIOUS
  <2>1. old = <<>>
    BY <1>5 DEF TextIs
  <2>2. p + Len(pattern) - 1 <= Len(<<>>)
    BY <1>6, <2>1 DEF At
  <2>3. Len(<<>>) = 0
    OBVIOUS
  <2> QED BY <1>3, <1>4, <2>2, <2>3
<1>8. Open(value, list, k)
  BY <1>7 DEF Open, Ended
<1>9. At(Blanked(text, CrossedBy(value, list, f, k - 1)), pattern, p)
  BY <1>5, <1>6, <1>7 DEF TextIs
<1>10. At(text, pattern, p)
  BY <1>3, <1>4, <1>9, AtBlanked
<1> QED BY <1>1, <1>2, <1>8, <1>10 DEF AllFound

(* What is taken is what the choice leaves: an occurrence is taken unless  *)
(* one that comes before it and overlaps it was.                           *)
LEMMA MatchedSolves ==
  ASSUME NEW value, NEW list, NEW f, ReadBy(value, list, f)
  PROVE  Solution(value, list, Matched(value, list, f))
<1> DEFINE taken == Matched(value, list, f)
           text == Digits(value)
           Size(k) == Len(PatternOf(list, k))
<1>1. /\ Len(list) \in Nat /\ Len(text) \in Nat /\ Crossable(text)
      /\ \A k \in 1 .. Len(list) : Numeral(PatternOf(list, k)) /\ Size(k) \in Nat /\ Size(k) >= 1
  BY RowFacts
<1>2. DOMAIN list = 1 .. Len(list) /\ DOMAIN text = 1 .. Len(text)
  BY RowFacts
<1>3. \A b \in taken : b[1] \in 1 .. Len(list) /\ b[2] \in 1 .. Len(text) /\ b[2] \in Places(list, f, b[1])
  BY MatchedIs
<1> HIDE DEF taken
<1>4. ASSUME NEW k \in 1 .. Len(list), NEW p \in 1 .. Len(text),
             list[k].equality = "=~", Open(value, list, k), At(text, PatternOf(list, k), p)
      PROVE  <<k, p>> \in taken
               <=> ~\E b \in taken : Earlier(b, <<k, p>>) /\ Overlapping(list, b, <<k, p>>)
  <2> DEFINE pattern == PatternOf(list, k)
             size == Size(k)
             C == CrossedBy(value, list, f, k - 1)
             places == Places(list, f, k)
             Blocks(b) == /\ b[1] < k \/ (b[1] = k /\ b[2] < p)
                          /\ b[2] < p + size /\ p < b[2] + Size(b[1])
  <2>1. k - 1 \in 0 .. Len(list) /\ k \in Nat /\ p \in Nat \ {0}
    BY <1>1
  <2>2. TextIs(value, list, f, k - 1)
    BY <2>1, TextsAre
  <2>3. f[k - 1].text = Blanked(text, C)
    BY <1>4, <2>2 DEF TextIs, Open, Ended
  <2>4. <<k, p>> \in taken <=> p \in places
    <3>1. <<k, p>>[1] = k /\ <<k, p>>[2] = p
      OBVIOUS
    <3> QED BY <3>1, MatchedIs DEF taken
  <2>5. p \in places <=> At(f[k - 1].text, pattern, p) /\ Clear(places, size, p)
    BY <1>4, <2>2, PlacesAre
  <2>6. At(f[k - 1].text, pattern, p) <=> \A q \in Int : Covers(p, pattern, q) => q \notin C
    BY <1>1, <1>4, <2>1, <2>3, AtBlanked
  <2>7. \A b \in taken : Earlier(b, <<k, p>>) /\ Overlapping(list, b, <<k, p>>) <=> Blocks(b)
    BY DEF Earlier, Overlapping
  <2>8. size \in Nat /\ size >= 1
    BY <1>1
  <2>9. ASSUME p \in places, NEW b \in taken, Blocks(b)
        PROVE  FALSE
    <3>1. /\ b[1] \in 1 .. Len(list) /\ b[2] \in Nat /\ Size(b[1]) \in Nat /\ Size(b[1]) >= 1
          /\ b[2] \in Places(list, f, b[1])
      BY <1>1, <1>3
    <3>2. CASE b[1] < k
      <4>1. b[2] < p + size /\ p < b[2] + Size(b[1])
        BY <2>9
      <4>2. PICK q \in Int : q >= p /\ q >= b[2] /\ q < p + size /\ q < b[2] + Size(b[1])
        <5> DEFINE d == b[2]
                   e == Size(b[1])
        <5>1. d \in Nat /\ e \in Nat /\ e >= 1 /\ d < p + size /\ p < d + e
          BY <3>1, <4>1
        <5> HIDE DEF d, e, size
        <5>2. CASE p <= d
          BY <2>1, <2>8, <5>1, <5>2 DEF d, e
        <5>3. CASE d < p
          BY <2>1, <2>8, <5>1, <5>3 DEF d, e
        <5> QED BY <2>1, <5>1, <5>2, <5>3
      <4>3. Covers(p, pattern, q) /\ Covers(b[2], PatternOf(list, b[1]), q)
        BY <4>2 DEF Covers
      <4>4. b[1] <= k - 1
        BY <2>1, <3>1, <3>2
      <4>5. q \in C
        BY <4>3, <4>4 DEF CrossedBy, taken
      <4> QED BY <2>5, <2>6, <2>9, <4>3, <4>5
    <3>3. CASE b[1] = k /\ b[2] < p
      <4>1. b[2] \in places /\ p < b[2] + size
        BY <2>9, <3>1, <3>3
      <4>2. b[2] + size <= p
        BY <2>5, <2>9, <3>3, <4>1 DEF Clear
      <4> HIDE DEF size
      <4> QED BY <2>1, <2>8, <3>1, <4>1, <4>2
    <3> QED BY <2>9, <3>2, <3>3
  <2>10. ASSUME p \notin places
         PROVE  \E b \in taken : Blocks(b)
    <3>1. CASE ~At(f[k - 1].text, pattern, p)
      <4>1. PICK q \in Int : Covers(p, pattern, q) /\ q \in C
        BY <2>6, <3>1
      <4>2. PICK b \in taken : b[1] <= k - 1 /\ Covers(b[2], PatternOf(list, b[1]), q)
        BY <4>1 DEF CrossedBy, taken
      <4>3. b[1] \in 1 .. Len(list) /\ b[2] \in Nat /\ Size(b[1]) \in Nat
        BY <1>1, <1>3
      <4>4. p <= q /\ q < p + size /\ b[2] <= q /\ q < b[2] + Size(b[1])
        BY <4>1, <4>2 DEF Covers
      <4>5. b[1] < k
        BY <2>1, <4>2, <4>3
      <4>6. b[2] < p + size /\ p < b[2] + Size(b[1])
        <5> DEFINE d == b[2]
                   e == Size(b[1])
        <5>1. d \in Nat /\ e \in Nat /\ p <= q /\ q < p + size /\ d <= q /\ q < d + e
          BY <4>3, <4>4
        <5> HIDE DEF d, e, size
        <5>2. d < p + size /\ p < d + e
          BY <2>1, <2>8, <5>1
        <5> QED BY <5>2 DEF d, e
      <4> QED BY <4>5, <4>6
    <3>2. CASE ~Clear(places, size, p)
      <4>1. PICK e \in places : e < p /\ ~(e + size <= p)
        BY <3>2 DEF Clear
      <4>2. e \in 1 .. Len(text)
        BY <1>4, <2>2, PlacesAre
      <4>3. <<k, e>> \in taken
        <5>1. <<k, e>>[1] = k /\ <<k, e>>[2] = e
          OBVIOUS
        <5> QED BY <4>1, <4>2, <5>1, MatchedIs DEF taken
      <4>4. e < p + size /\ p < e + size
        <5> HIDE DEF size
        <5> QED BY <1>1, <2>1, <2>8, <4>1, <4>2
      <4>5. Blocks(<<k, e>>)
        BY <4>1, <4>4
      <4> QED BY <4>3, <4>5
    <3> QED BY <2>5, <2>10, <3>1, <3>2
  <2> HIDE DEF Blocks
  <2> QED BY <2>4, <2>7, <2>9, <2>10
<1>5. ASSUME NEW a \in AllFound(value, list)
      PROVE  a \in taken <=> ~\E b \in taken : Earlier(b, a) /\ Overlapping(list, b, a)
  <2>1. /\ a = <<a[1], a[2]>> /\ a[1] \in 1 .. Len(list) /\ a[2] \in 1 .. Len(text)
        /\ list[a[1]].equality = "=~" /\ Open(value, list, a[1])
        /\ At(text, PatternOf(list, a[1]), a[2])
    BY <1>2 DEF AllFound
  <2>2. <<a[1], a[2]>> \in taken
          <=> ~\E b \in taken : Earlier(b, <<a[1], a[2]>>) /\ Overlapping(list, b, <<a[1], a[2]>>)
    BY <1>4, <2>1
  <2> QED BY <2>1, <2>2
<1> QED BY <1>5 DEF Solution, taken

(* There is one way to choose: two would differ in a first occurrence.     *)
LEMMA OneSolution ==
  ASSUME NEW value, NEW list, NEW f, ReadBy(value, list, f),
         NEW M \in SUBSET AllFound(value, list), Solution(value, list, M),
         NEW N \in SUBSET AllFound(value, list), Solution(value, list, N)
  PROVE  M = N
<1> DEFINE all == AllFound(value, list)
           D == {a \in all : ~(a \in M <=> a \in N)}
<1> SUFFICES ASSUME D # {}
             PROVE  FALSE
  OBVIOUS
<1>1. \A a \in all : a = <<a[1], a[2]>> /\ a[1] \in Nat /\ a[2] \in Nat
  <2>1. /\ DOMAIN list = 1 .. Len(list) /\ DOMAIN Digits(value) = 1 .. Len(Digits(value))
        /\ Len(list) \in Nat /\ Len(Digits(value)) \in Nat
    BY RowFacts
  <2> QED BY <2>1 DEF AllFound
<1> DEFINE rows == {a[1] : a \in D}
<1>2. PICK r \in rows : \A i \in rows : r <= i
  <2>1. rows \in SUBSET Nat /\ rows # {}
    BY <1>1
  <2> HIDE DEF rows
  <2> QED BY <2>1, LeastNatural
<1> DEFINE spots == {a[2] : a \in {b \in D : b[1] = r}}
<1>3. PICK p \in spots : \A i \in spots : p <= i
  <2>1. spots \in SUBSET Nat /\ spots # {}
    BY <1>1
  <2> HIDE DEF spots
  <2> QED BY <2>1, LeastNatural
<1>4. PICK a \in D : a[1] = r /\ a[2] = p
  OBVIOUS
<1>5. ASSUME NEW b \in all, Earlier(b, a)
      PROVE  b \in M <=> b \in N
  <2> SUFFICES ASSUME b \in D
               PROVE  FALSE
    OBVIOUS
  <2>1. b[1] \in Nat /\ b[2] \in Nat /\ a[1] \in Nat /\ a[2] \in Nat
    BY <1>1
  <2>2. b[1] \in rows /\ a[1] <= b[1]
    BY <1>2, <1>4
  <2>3. b[1] = a[1] /\ b[2] < a[2]
    BY <1>5, <2>1, <2>2 DEF Earlier
  <2>4. b[2] \in spots
    BY <1>4, <2>3
  <2> QED BY <1>3, <1>4, <2>1, <2>3, <2>4
<1>6. (\E b \in M : Earlier(b, a) /\ Overlapping(list, b, a))
        <=> \E b \in N : Earlier(b, a) /\ Overlapping(list, b, a)
  BY <1>5
<1>7. /\ a \in M <=> ~\E b \in M : Earlier(b, a) /\ Overlapping(list, b, a)
      /\ a \in N <=> ~\E b \in N : Earlier(b, a) /\ Overlapping(list, b, a)
  BY DEF Solution
<1> QED BY <1>4, <1>6, <1>7

(* What was matched is what is to be found.                                *)
LEMMA FoundIsMatched ==
  ASSUME NEW value, NEW list, NEW f, ReadBy(value, list, f)
  PROVE  Found(value, list) = Matched(value, list, f)
<1> DEFINE S == SUBSET AllFound(value, list)
           taken == Matched(value, list, f)
<1>1. taken \in S /\ Solution(value, list, taken)
  BY MatchedAmongAll, MatchedSolves
<1>2. \A N \in S : Solution(value, list, N) => N = taken
  BY <1>1, OneSolution
<1> HIDE DEF S, taken
<1>3. (CHOOSE chosen \in S : Solution(value, list, chosen)) = taken
  BY <1>1, <1>2
<1> QED BY <1>3, FoundByParts DEF S, taken

(* No digit is taken twice. *)
LEMMA MatchedOnce ==
  ASSUME NEW value, NEW list, NEW f, ReadBy(value, list, f),
         NEW a \in Matched(value, list, f), NEW b \in Matched(value, list, f), a[2] = b[2]
  PROVE  a = b
<1> DEFINE taken == Matched(value, list, f)
<1>1. /\ a \in AllFound(value, list) /\ b \in AllFound(value, list)
      /\ Solution(value, list, taken)
  BY MatchedAmongAll, MatchedSolves
<1>2. /\ a[1] \in 1 .. Len(list) /\ a[2] \in 1 .. Len(Digits(value)) /\ a = <<a[1], a[2]>>
      /\ b[1] \in 1 .. Len(list) /\ b = <<b[1], b[2]>>
  BY MatchedIs
<1>3. /\ Len(list) \in Nat /\ Len(Digits(value)) \in Nat
      /\ \A k \in 1 .. Len(list) : Len(PatternOf(list, k)) \in Nat /\ Len(PatternOf(list, k)) >= 1
  BY RowFacts
<1>4. Overlapping(list, a, b) /\ Overlapping(list, b, a)
  BY <1>2, <1>3 DEF Overlapping
<1>5. ~Earlier(a, b) /\ ~Earlier(b, a)
  BY <1>1, <1>4 DEF Solution
<1>6. a[1] = b[1]
  BY <1>2, <1>3, <1>5 DEF Earlier
<1> QED BY <1>2, <1>6

(* Two sets whose members correspond have as many.                         *)
LEMMA CountSame ==
  ASSUME NEW S, NEW T, IsFiniteSet(S), NEW g \in [S -> T],
         \A x, y \in S : g[x] = g[y] => x = y, \A t \in T : \E x \in S : g[x] = t
  PROVE  IsFiniteSet(T) /\ Cardinality(T) = Cardinality(S)
<1>1. g \in Bijection(S, T)
  BY DEF Bijection, Injection, Surjection, IsInjective
<1>2. ExistsBijection(S, T)
  BY <1>1 DEF ExistsBijection
<1> QED BY <1>2, FS_Bijection

AtMost(S, k) == {j \in S : j <= k}

(* Two members of a set of numbers do not come after equally many.         *)
LEMMA RankOnce ==
  ASSUME NEW S, IsFiniteSet(S), S \subseteq Nat, NEW i \in S, NEW k \in S,
         Cardinality(AtMost(S, i)) = Cardinality(AtMost(S, k))
  PROVE  i = k
<1> DEFINE To(x) == AtMost(S, x)
<1>1. \A x \in S : IsFiniteSet(To(x))
  BY FS_Subset DEF AtMost
<1>2. ASSUME NEW x \in S, NEW y \in S, x < y, Cardinality(To(x)) = Cardinality(To(y))
      PROVE  FALSE
  <2>1. To(x) \in SUBSET To(y)
    <3> SUFFICES ASSUME NEW j \in S, j <= x
                 PROVE  j <= y
      BY DEF AtMost
    <3>1. j \in Nat /\ x \in Nat /\ y \in Nat /\ x < y
      BY <1>2
    <3> QED BY <3>1
  <2>2. To(y) = To(x)
    <3> HIDE DEF To
    <3> QED BY <1>1, <1>2, <2>1, FS_Subset
  <2>3. y \in To(y) /\ y \notin To(x)
    BY <1>2 DEF AtMost
  <2> QED BY <2>2, <2>3
<1>3. ~(i < k) /\ ~(k < i)
  BY <1>2
<1> QED BY <1>3

(* Which row the digits at a place stand for. *)
SubstitutionsAreOf(value, list, f, k) ==
  \A p \in 1 .. Len(Digits(value)), j \in Nat \ {0} :
    f[k].substitutions[p] = j <=> <<j, p>> \in Matched(value, list, f) /\ j <= k

(* The substitutions after k rows are the places that those rows matched.  *)
LEMMA SubstitutionsAre ==
  ASSUME NEW value, NEW list, NEW f, ReadBy(value, list, f)
  PROVE  \A k \in 0 .. Len(list) : SubstitutionsAreOf(value, list, f, k)
<1> DEFINE m == Len(list)
           n == Len(Digits(value))
           taken == Matched(value, list, f)
           Right(k) == \A p \in 1 .. n, j \in Nat \ {0} :
                         f[k].substitutions[p] = j <=> <<j, p>> \in taken /\ j <= k
           right == {k \in 0 .. m : Right(k)}
<1>1. m \in Nat /\ n \in Nat /\ DOMAIN Digits(value) = 1 .. n
  BY RowFacts
<1>2. \A j, p : <<j, p>> \in taken <=> j \in 1 .. m /\ p \in 1 .. n /\ p \in Places(list, f, j)
  <2> SUFFICES ASSUME NEW j, NEW p
               PROVE  <<j, p>> \in taken <=> j \in 1 .. m /\ p \in 1 .. n /\ p \in Places(list, f, j)
    OBVIOUS
  <2>1. <<j, p>>[1] = j /\ <<j, p>>[2] = p
    OBVIOUS
  <2> QED BY <2>1, MatchedIs
<1>3. \A j, k, p : <<j, p>> \in taken /\ <<k, p>> \in taken => j = k
  <2> SUFFICES ASSUME NEW j, NEW k, NEW p, <<j, p>> \in taken, <<k, p>> \in taken
               PROVE  j = k
    OBVIOUS
  <2>1. <<j, p>>[2] = <<k, p>>[2]
    OBVIOUS
  <2>2. <<j, p>> = <<k, p>>
    BY <2>1, MatchedOnce
  <2> QED BY <2>2
<1> HIDE DEF taken
<1>4. 0 \in right
  <2>1. f[0].substitutions = [i \in DOMAIN Digits(value) |-> Gap]
    BY DEF ReadBy, IsAmountRun, StartOf
  <2>2. \A p \in 1 .. n : f[0].substitutions[p] = 0
    BY <1>1, <2>1 DEF Gap
  <2>3. Right(0)
    BY <2>2
  <2> QED BY <1>1, <2>3
<1>5. ASSUME NEW k \in 1 .. m, k - 1 \in right
      PROVE  k \in right
  <2> DEFINE old == f[k - 1].substitutions
             new == f[k].substitutions
             places == Places(list, f, k)
  <2>1. Does(value, f[k - 1], f[k], k, list[k])
    BY DEF ReadBy, IsAmountRun
  <2>2. k - 1 \in 0 .. m /\ k \in 0 .. m /\ k \in Nat \ {0}
    BY <1>1
  <2>3. DOMAIN old = 1 .. n
    BY <2>2, StatesAre
  <2>4. \A p \in 1 .. n : new[p] = IF p \in places THEN k ELSE old[p]
    <3>1. CASE list[k].equality = "=~"
      <4>1. LooksFor(f[k - 1], f[k], k, list[k])
        BY <2>1, <3>1 DEF Does
      <4>2. new = [i \in DOMAIN old |-> IF i \in places THEN k ELSE old[i]]
        BY <3>1, <4>1 DEF LooksFor, Places
      <4> QED BY <2>3, <4>2
    <3>2. CASE list[k].equality # "=~"
      <4>1. new = old
        BY <2>1, <3>2 DEF Does, NamesIt
      <4> QED BY <3>2, <4>1 DEF Places
    <3> QED BY <3>1, <3>2
  <2>5. Right(k - 1)
    BY <1>5
  <2> HIDE DEF old, new, places
  <2>6. ASSUME NEW p \in 1 .. n, NEW j \in Nat \ {0}
        PROVE  new[p] = j <=> <<j, p>> \in taken /\ j <= k
    <3>1. <<k, p>> \in taken <=> p \in places
      BY <1>2 DEF places
    <3>2. CASE p \in places
      BY <1>3, <2>2, <2>4, <3>1, <3>2
    <3>3. CASE p \notin places
      <4>1. new[p] = j <=> <<j, p>> \in taken /\ j <= k - 1
        BY <2>4, <2>5, <3>3 DEF old
      <4>2. <<j, p>> \in taken => j # k
        BY <3>1, <3>3
      <4> QED BY <2>2, <4>1, <4>2
    <3> QED BY <3>2, <3>3
  <2> QED BY <2>2, <2>6 DEF new
<1>6. \A k \in 0 .. m : k \in right
  <2> HIDE DEF right, m
  <2> QED BY <1>1, <1>4, <1>5, UpTo
<1> QED BY <1>6 DEF taken, SubstitutionsAreOf

(* The rows that name the amount, and where in the numerology each stands. *)
NamedIn(value, list) == {k \in DOMAIN list : Holds(value, list[k])}

NamedTo(value, list, k) == {j \in NamedIn(value, list) : j <= k}

MatchedTo(value, list, f, k) == {a \in Matched(value, list, f) : a[1] <= k}

CountTo(value, list, f, k) ==
  Cardinality(NamedTo(value, list, k)) + Cardinality(MatchedTo(value, list, f, k))

SpotOf(value, list, f, k) ==
  1 + Cardinality({j \in NamedIn(value, list) : j < k})
    + Cardinality({a \in Matched(value, list, f) : a[1] < k})

(* The rows that name the amount and the matches can be counted.           *)
LEMMA CountsAreNatural ==
  ASSUME NEW value, NEW list, NEW f, ReadBy(value, list, f)
  PROVE  /\ IsFiniteSet(NamedIn(value, list)) /\ IsFiniteSet(Matched(value, list, f))
         /\ \A k : /\ IsFiniteSet(NamedTo(value, list, k)) /\ IsFiniteSet(MatchedTo(value, list, f, k))
                   /\ Cardinality(NamedTo(value, list, k)) \in Nat
                   /\ Cardinality(MatchedTo(value, list, f, k)) \in Nat
<1>1. /\ DOMAIN list = 1 .. Len(list) /\ Len(list) \in Nat
      /\ DOMAIN Digits(value) = 1 .. Len(Digits(value)) /\ Len(Digits(value)) \in Nat
  BY RowFacts
<1>2. IsFiniteSet(1 .. Len(list)) /\ IsFiniteSet(1 .. Len(Digits(value)))
  BY <1>1, FS_Interval
<1>3. IsFiniteSet((1 .. Len(list)) \X (1 .. Len(Digits(value))))
  BY <1>2, FS_Product
<1>4. Matched(value, list, f) \in SUBSET ((1 .. Len(list)) \X (1 .. Len(Digits(value))))
  BY <1>1 DEF Matched
<1>5. NamedIn(value, list) \in SUBSET (1 .. Len(list))
  BY <1>1 DEF NamedIn
<1>6. IsFiniteSet(Matched(value, list, f)) /\ IsFiniteSet(NamedIn(value, list))
  BY <1>2, <1>3, <1>4, <1>5, FS_Subset
<1>7. ASSUME NEW k
      PROVE  IsFiniteSet(NamedTo(value, list, k)) /\ IsFiniteSet(MatchedTo(value, list, f, k))
  <2>1. /\ NamedTo(value, list, k) \in SUBSET NamedIn(value, list)
        /\ MatchedTo(value, list, f, k) \in SUBSET Matched(value, list, f)
    BY DEF NamedTo, MatchedTo
  <2> QED BY <1>6, <2>1, FS_Subset
<1> QED BY <1>6, <1>7, FS_CardinalityType

(* What a row adds to the counts. *)
LEMMA CountsGrow ==
  ASSUME NEW value, NEW list, NEW f, ReadBy(value, list, f), NEW k \in 1 .. Len(list)
  PROVE  /\ Cardinality(NamedTo(value, list, k))
              = Cardinality(NamedTo(value, list, k - 1)) + (IF Holds(value, list[k]) THEN 1 ELSE 0)
         /\ Cardinality(MatchedTo(value, list, f, k))
              = Cardinality(MatchedTo(value, list, f, k - 1))
                  + (IF list[k].equality = "=~" THEN Len(FoundBy(f[k - 1], list[k])) ELSE 0)
<1> DEFINE named == NamedIn(value, list)
           taken == Matched(value, list, f)
           s == FoundBy(f[k - 1], list[k])
           these == {a \in taken : a[1] = k}
           before == MatchedTo(value, list, f, k - 1)
           NamedBefore == NamedTo(value, list, k - 1)
<1>1. /\ Len(list) \in Nat /\ DOMAIN list = 1 .. Len(list)
      /\ Len(Digits(value)) \in Nat
  BY RowFacts
<1>2. IsFiniteSet(taken) /\ IsFiniteSet(before) /\ Cardinality(before) \in Nat
      /\ IsFiniteSet(NamedBefore) /\ Cardinality(NamedBefore) \in Nat
  BY CountsAreNatural
<1>3. \A j \in 1 .. Len(list) : j <= k <=> j <= k - 1 \/ j = k
  BY <1>1
<1>4. Cardinality(NamedTo(value, list, k))
        = Cardinality(NamedBefore) + (IF Holds(value, list[k]) THEN 1 ELSE 0)
  <2>1. k \in named <=> Holds(value, list[k])
    BY <1>1 DEF NamedIn
  <2>2. k \notin NamedBefore
    BY <1>1 DEF NamedTo
  <2>3. CASE k \in named
    <3>1. NamedTo(value, list, k) = NamedBefore \cup {k}
      BY <1>1, <1>3, <2>3 DEF NamedTo, NamedIn
    <3> HIDE DEF NamedBefore
    <3>2. Cardinality(NamedBefore \cup {k}) = Cardinality(NamedBefore) + 1
      BY <1>2, <2>2, FS_AddElement
    <3> QED BY <2>1, <2>3, <3>1, <3>2
  <2>4. CASE k \notin named
    <3>1. NamedTo(value, list, k) = NamedBefore
      BY <1>1, <1>3, <2>4 DEF NamedTo, NamedIn
    <3> QED BY <1>2, <2>1, <2>4, <3>1
  <2> QED BY <2>3, <2>4
<1>5. MatchedTo(value, list, f, k) = before \cup these /\ before \cap these = {}
  <2>1. \A a \in taken : a[1] \in 1 .. Len(list)
    BY MatchedIs
  <2>2. ~(k <= k - 1)
    BY <1>1
  <2> HIDE DEF taken
  <2> QED BY <1>3, <2>1, <2>2 DEF MatchedTo, taken
<1>6. CASE list[k].equality = "=~"
  <2>1. Does(value, f[k - 1], f[k], k, list[k]) /\ k - 1 \in 0 .. Len(list)
    BY <1>1 DEF ReadBy, IsAmountRun
  <2>2. Greedy(f[k - 1].text, Digits(list[k].amount), s, Len(f[k - 1].text))
    BY <1>6, <2>1 DEF Does, LooksFor
  <2>3. /\ Len(s) \in Nat /\ DOMAIN s = 1 .. Len(s) /\ Increasing(s)
        /\ \A e : e \in ToSet(s) <=> \E j \in 1 .. Len(s) : s[j] = e
    BY <2>2, ToSetIs DEF Greedy
  <2>4. TextIs(value, list, f, k - 1)
    BY <2>1, TextsAre
  <2>5. Places(list, f, k) = ToSet(s) /\ ToSet(s) \subseteq 1 .. Len(Digits(value))
    BY <1>6, <2>4, PlacesAre DEF Places
  <2>6. \A a : a \in these <=> \E j \in 1 .. Len(s) : a = <<k, s[j]>>
    <3>1. ASSUME NEW a, a \in these
          PROVE  \E j \in 1 .. Len(s) : a = <<k, s[j]>>
      <4>1. a = <<k, a[2]>> /\ a[2] \in Places(list, f, k)
        BY <3>1, MatchedIs
      <4> QED BY <2>3, <2>5, <4>1
    <3>2. ASSUME NEW j \in 1 .. Len(s)
          PROVE  <<k, s[j]>> \in these
      <4>1. s[j] \in Places(list, f, k) /\ s[j] \in 1 .. Len(Digits(value))
        BY <2>3, <2>5
      <4>2. <<k, s[j]>>[1] = k /\ <<k, s[j]>>[2] = s[j]
        OBVIOUS
      <4>3. <<k, s[j]>> \in taken
        BY <4>1, <4>2, MatchedIs
      <4> QED BY <4>2, <4>3
    <3> QED BY <3>1, <3>2
  <2> HIDE DEF these, s
  <2>7. \A i, j \in 1 .. Len(s) : s[i] = s[j] => i = j
    <3> SUFFICES ASSUME NEW i \in 1 .. Len(s), NEW j \in 1 .. Len(s), s[i] = s[j], i # j
                 PROVE  FALSE
      OBVIOUS
    <3>1. s[i] \in 1 .. Len(Digits(value))
      BY <2>3, <2>5
    <3>2. i < j \/ j < i
      BY <2>3
    <3> QED BY <2>3, <3>1, <3>2 DEF Increasing
  <2> DEFINE g == [j \in 1 .. Len(s) |-> <<k, s[j]>>]
  <2>8. /\ g \in [1 .. Len(s) -> these]
        /\ \A i, j \in 1 .. Len(s) : g[i] = g[j] => i = j
        /\ \A a \in these : \E j \in 1 .. Len(s) : g[j] = a
    BY <2>6, <2>7
  <2>9. IsFiniteSet(1 .. Len(s)) /\ Cardinality(1 .. Len(s)) = Len(s)
    <3>1. 1 \in Int /\ Len(s) \in Int
      BY <2>3
    <3>2. IsFiniteSet(1 .. Len(s)) /\ Cardinality(1 .. Len(s)) = IF 1 > Len(s) THEN 0 ELSE Len(s) - 1 + 1
      BY <3>1, FS_Interval
    <3> QED BY <2>3, <3>2
  <2>10. IsFiniteSet(these) /\ Cardinality(these) = Len(s)
    <3> HIDE DEF g
    <3> QED BY <2>8, <2>9, CountSame
  <2>11. Cardinality(before \cap these) = 0
    BY <1>5, FS_EmptySet
  <2>12. Cardinality(before \cup these) = Cardinality(before) + Len(s)
    <3> HIDE DEF before
    <3>1. Cardinality(before \cup these)
            = Cardinality(before) + Cardinality(these) - Cardinality(before \cap these)
      BY <1>2, <2>10, FS_Union
    <3> QED BY <1>2, <2>3, <2>10, <2>11, <3>1
  <2> QED BY <1>4, <1>5, <1>6, <2>12 DEF s
<1>7. CASE list[k].equality # "=~"
  <2>1. these = {}
    <3> SUFFICES ASSUME NEW a \in taken, a[1] = k
                 PROVE  FALSE
      OBVIOUS
    <3>1. a[2] \in Places(list, f, k)
      BY MatchedIs
    <3> QED BY <1>7, <3>1 DEF Places
  <2>2. MatchedTo(value, list, f, k) = before
    <3> HIDE DEF before, these
    <3> QED BY <1>5, <2>1
  <2>3. Cardinality(MatchedTo(value, list, f, k)) = Cardinality(before) + 0
    <3> HIDE DEF before
    <3> QED BY <1>2, <2>2
  <2> QED BY <1>4, <1>7, <2>3
<1> QED BY <1>6, <1>7

(* A row stands after all that the rows before it added.                   *)
LEMMA SpotsAre ==
  ASSUME NEW value, NEW list, NEW f, ReadBy(value, list, f), NEW k \in 1 .. Len(list)
  PROVE  SpotOf(value, list, f, k) = CountTo(value, list, f, k - 1) + 1
<1>1. Len(list) \in Nat /\ DOMAIN list = 1 .. Len(list)
  BY RowFacts
<1>2. \A j \in 1 .. Len(list) : j < k <=> j <= k - 1
  BY <1>1
<1>3. \A a \in Matched(value, list, f) : a[1] \in 1 .. Len(list)
  BY MatchedIs
<1>4. {a \in Matched(value, list, f) : a[1] < k} = MatchedTo(value, list, f, k - 1)
  BY <1>2, <1>3 DEF MatchedTo
<1>5. {j \in NamedIn(value, list) : j < k} = NamedTo(value, list, k - 1)
  BY <1>1, <1>2 DEF NamedTo, NamedIn
<1>6. /\ Cardinality(NamedTo(value, list, k - 1)) \in Nat
      /\ Cardinality(MatchedTo(value, list, f, k - 1)) \in Nat
  BY CountsAreNatural
<1> DEFINE u == Cardinality(NamedTo(value, list, k - 1))
           v == Cardinality(MatchedTo(value, list, f, k - 1))
<1>7. SpotOf(value, list, f, k) = 1 + u + v /\ CountTo(value, list, f, k - 1) = u + v
  BY <1>4, <1>5 DEF SpotOf, CountTo
<1>8. u \in Nat /\ v \in Nat
  BY <1>6
<1> HIDE DEF u, v
<1> QED BY <1>7, <1>8

(* What the numerology is after k rows: a row that names the amount stands *)
(* at its spot, and all else are gaps, as many as were found.              *)
NumerologyIs(value, list, f, k) ==
  /\ Len(f[k].numerology) = CountTo(value, list, f, k)
  /\ \A j \in NamedIn(value, list) : j <= k =>
       /\ SpotOf(value, list, f, j) \in 1 .. Len(f[k].numerology)
       /\ f[k].numerology[SpotOf(value, list, f, j)] = j
  /\ \A i \in 1 .. Len(f[k].numerology) : f[k].numerology[i] # Gap =>
       \E j \in NamedIn(value, list) : j <= k /\ i = SpotOf(value, list, f, j)

(* The numerology after k rows has the named rows at their spots, and      *)
(* gaps.                                                                   *)
LEMMA NumerologiesAre ==
  ASSUME NEW value, NEW list, NEW f, ReadBy(value, list, f)
  PROVE  \A k \in 0 .. Len(list) : NumerologyIs(value, list, f, k)
<1> DEFINE m == Len(list)
           named == NamedIn(value, list)
           Spot(j) == SpotOf(value, list, f, j)
           Count(k) == CountTo(value, list, f, k)
           right == {k \in 0 .. m : NumerologyIs(value, list, f, k)}
<1>1. m \in Nat /\ \A j \in named : j \in 1 .. m
  BY RowFacts DEF NamedIn
<1>2. 0 \in right
  <2>1. f[0].numerology = <<>>
    BY DEF ReadBy, IsAmountRun, StartOf
  <2>2. Len(f[0].numerology) = 0
    BY <2>1
  <2>3. NamedTo(value, list, 0) = {} /\ MatchedTo(value, list, f, 0) = {}
    <3>1. \A a \in Matched(value, list, f) : a[1] \in 1 .. m
      BY MatchedIs
    <3>2. \A j \in 1 .. m : ~(j <= 0)
      BY <1>1
    <3> QED BY <1>1, <3>1, <3>2 DEF NamedTo, MatchedTo
  <2>4. Count(0) = 0
    BY <2>3, FS_EmptySet DEF CountTo
  <2>5. \A j \in named : ~(j <= 0)
    BY <1>1
  <2>6. \A i \in 1 .. 0 : FALSE
    OBVIOUS
  <2>7. 0 \in 0 .. m
    BY <1>1
  <2>8. NumerologyIs(value, list, f, 0)
    BY <2>2, <2>4, <2>5, <2>6 DEF NumerologyIs
  <2> QED BY <2>7, <2>8
<1>3. ASSUME NEW k \in 1 .. m, k - 1 \in right
      PROVE  k \in right
  <2> DEFINE old == f[k - 1].numerology
             new == f[k].numerology
             s == FoundBy(f[k - 1], list[k])
             item == list[k]
  <2>1. Does(value, f[k - 1], f[k], k, item)
    BY DEF ReadBy, IsAmountRun
  <2>2. k - 1 \in 0 .. m /\ k \in 0 .. m /\ k \in Nat \ {0}
    BY <1>1
  <2>3. old \in Seq(Nat) /\ Len(old) \in Nat
    BY <2>2, StatesAre
  <2>4. NumerologyIs(value, list, f, k - 1)
    BY <1>3
  <2>5. /\ Len(old) = Count(k - 1)
        /\ \A j \in named : j <= k - 1 => Spot(j) \in 1 .. Len(old) /\ old[Spot(j)] = j
        /\ \A i \in 1 .. Len(old) : old[i] # Gap => \E j \in named : j <= k - 1 /\ i = Spot(j)
    BY <2>4 DEF NumerologyIs
  <2>6. \A j \in named : j <= k <=> j <= k - 1 \/ j = k
    BY <1>1, <2>2
  <2>7. k \in named <=> Holds(value, item)
    BY RowFacts DEF NamedIn
  <2>8. /\ Cardinality(NamedTo(value, list, k - 1)) \in Nat
        /\ Cardinality(MatchedTo(value, list, f, k - 1)) \in Nat
    BY CountsAreNatural
  <2>9. Count(k) = Count(k - 1) + (IF Holds(value, item) THEN 1 ELSE 0)
                     + (IF item.equality = "=~" THEN Len(s) ELSE 0)
    <3> DEFINE u == Cardinality(NamedTo(value, list, k - 1))
               v == Cardinality(MatchedTo(value, list, f, k - 1))
               c == IF Holds(value, item) THEN 1 ELSE 0
               d == IF item.equality = "=~" THEN Len(s) ELSE 0
    <3>1. Cardinality(NamedTo(value, list, k)) = u + c /\ Cardinality(MatchedTo(value, list, f, k)) = v + d
      BY CountsGrow
    <3>2. u \in Nat /\ v \in Nat /\ c \in Int
      BY <2>8
    <3>3. d \in Int
      <4>1. item.equality = "=~" => Len(s) \in Nat
        <5>1. item.equality = "=~" => Greedy(f[k - 1].text, Digits(item.amount), s, Len(f[k - 1].text))
          BY <2>1 DEF Does, LooksFor
        <5> QED BY <5>1, ToSetIs DEF Greedy
      <4> QED BY <4>1
    <3>4. Count(k) = (u + c) + (v + d) /\ Count(k - 1) = u + v
      BY <3>1 DEF CountTo
    <3> HIDE DEF u, v, c, d, Count
    <3>5. Count(k) = Count(k - 1) + c + d
      BY <3>2, <3>3, <3>4
    <3> QED BY <3>5 DEF c, d
  <2>10. k \in named => Spot(k) = Len(old) + 1
    BY <2>5, SpotsAre
  <2> HIDE DEF named, Spot, Count
  <2>11. CASE item.equality = "=~"
    <3>1. LooksFor(f[k - 1], f[k], k, item)
      BY <2>1, <2>11 DEF Does
    <3>2. Len(s) \in Nat
      BY <3>1, ToSetIs DEF LooksFor, Greedy
    <3>3. new = old \o Gaps(Len(s))
      BY <3>1 DEF LooksFor
    <3>4. ~Holds(value, item)
      BY <2>11 DEF Holds
    <3> DEFINE z == Len(s)
    <3>5. z \in Nat /\ new = old \o Gaps(z)
      BY <3>2, <3>3
    <3> HIDE DEF new, old
    <3>6. /\ Len(new) = Len(old) + z
          /\ \A i \in 1 .. Len(new) : new[i] = IF i <= Len(old) THEN old[i] ELSE Gap
      <4> DEFINE g == Gaps(z)
      <4> HIDE DEF z
      <4>1. g \in Seq(Nat) /\ Len(g) = z /\ \A i \in 1 .. z : g[i] = Gap
        BY <3>5, GapsAre
      <4>2. new = old \o g
        BY <3>5
      <4> HIDE DEF g
      <4>3. /\ Len(new) = Len(old) + Len(g)
            /\ \A i \in 1 .. Len(new) : new[i] = IF i <= Len(old) THEN old[i] ELSE g[i - Len(old)]
        <5>1. old \in Seq(Nat)
          BY <2>3 DEF old
        <5>2. /\ Len(old \o g) = Len(old) + Len(g)
              /\ \A i \in 1 .. Len(old) + Len(g) :
                   (old \o g)[i] = IF i <= Len(old) THEN old[i] ELSE g[i - Len(old)]
          BY <4>1, <5>1, ConcatProperties
        <5> QED BY <4>2, <5>2
      <4>4. \A i \in 1 .. Len(new) : ~(i <= Len(old)) => i - Len(old) \in 1 .. z
        BY <2>3, <3>5, <4>1, <4>3 DEF old
      <4> QED BY <4>1, <4>3, <4>4
    <3>7. Len(new) = Count(k)
      <4>1. Count(k) = Count(k - 1) + 0 + z
        BY <2>9, <2>11, <3>4
      <4>2. Len(old) = Count(k - 1) /\ Len(old) \in Nat
        BY <2>3, <2>5 DEF old
      <4> HIDE DEF z
      <4> QED BY <3>5, <3>6, <4>1, <4>2
    <3> HIDE DEF z
    <3>8. \A i \in 1 .. Len(old) : i \in 1 .. Len(new) /\ new[i] = old[i]
      BY <2>3, <3>5, <3>6 DEF old
    <3>9. \A j \in named : j <= k => Spot(j) \in 1 .. Len(new) /\ new[Spot(j)] = j
      BY <2>5, <2>6, <2>7, <3>4, <3>8 DEF old
    <3>10. \A i \in 1 .. Len(new) : new[i] # Gap => \E j \in named : j <= k /\ i = Spot(j)
      <4> SUFFICES ASSUME NEW i \in 1 .. Len(new), new[i] # Gap
                   PROVE  \E j \in named : j <= k /\ i = Spot(j)
        OBVIOUS
      <4>1. i \in 1 .. Len(old) /\ old[i] # Gap
        BY <2>3, <3>5, <3>6 DEF old
      <4> QED BY <2>5, <2>6, <4>1 DEF old
    <3>11. NumerologyIs(value, list, f, k)
      BY <3>7, <3>9, <3>10 DEF NumerologyIs, new, named, Spot, Count
    <3> QED BY <2>2, <3>11
  <2>12. CASE item.equality # "=~" /\ Holds(value, item)
    <3>1. new = Append(old, k)
      BY <2>1, <2>12 DEF Does, NamesIt
    <3> HIDE DEF new, old
    <3>2. /\ Len(new) = Len(old) + 1 /\ new[Len(old) + 1] = k
          /\ \A i \in 1 .. Len(old) : new[i] = old[i]
      BY <2>2, <2>3, <3>1, AppendProperties
    <3>3. \A i : i \in 1 .. Len(new) <=> i \in 1 .. Len(old) \/ i = Len(old) + 1
      BY <2>3, <3>2
    <3>4. Len(new) = Count(k)
      <4>1. Count(k) = Count(k - 1) + 1 + 0
        BY <2>9, <2>12
      <4>2. Len(old) = Count(k - 1)
        BY <2>5 DEF old
      <4> QED BY <2>3, <3>2, <4>1, <4>2
    <3>5. \A j \in named : j <= k => Spot(j) \in 1 .. Len(new) /\ new[Spot(j)] = j
      BY <2>5, <2>6, <2>10, <3>2, <3>3 DEF old
    <3>6. \A i \in 1 .. Len(new) : new[i] # Gap => \E j \in named : j <= k /\ i = Spot(j)
      <4> SUFFICES ASSUME NEW i \in 1 .. Len(new), new[i] # Gap
                   PROVE  \E j \in named : j <= k /\ i = Spot(j)
        OBVIOUS
      <4>1. CASE i = Len(old) + 1
        <5>1. k <= k /\ k \in named /\ i = Spot(k)
          BY <2>2, <2>7, <2>10, <2>12, <4>1 DEF old
        <5> QED BY <5>1
      <4>2. CASE i \in 1 .. Len(old)
        BY <2>5, <2>6, <3>2, <4>2 DEF old
      <4> QED BY <3>3, <4>1, <4>2
    <3>7. NumerologyIs(value, list, f, k)
      BY <3>4, <3>5, <3>6 DEF NumerologyIs, new, named, Spot, Count
    <3> QED BY <2>2, <3>7
  <2>13. CASE item.equality # "=~" /\ ~Holds(value, item)
    <3>1. new = old
      BY <2>1, <2>13 DEF Does
    <3>2. Len(new) = Count(k)
      <4>1. Count(k) = Count(k - 1) + 0 + 0
        BY <2>9, <2>13
      <4> QED BY <2>3, <2>5, <3>1, <4>1
    <3>3. NumerologyIs(value, list, f, k)
      BY <2>5, <2>6, <2>7, <2>13, <3>1, <3>2 DEF NumerologyIs, named, Spot, Count
    <3> QED BY <2>2, <3>3
  <2> QED BY <2>11, <2>12, <2>13
<1>4. \A k \in 0 .. m : k \in right
  <2> HIDE DEF right, m
  <2> QED BY <1>1, <1>2, <1>3, UpTo
<1> QED BY <1>4

(* The digits that are substituted are those that are taken.               *)
LEMMA SubsAreMatched ==
  ASSUME NEW value, NEW list, NEW f, ReadBy(value, list, f)
  PROVE  /\ IsFiniteSet(Subs(f[Len(list)])) /\ Subs(f[Len(list)]) \subseteq 1 .. Len(Digits(value))
         /\ \A a \in Matched(value, list, f) : f[Len(list)].substitutions[a[2]] = a[1]
         /\ \A p : p \in Subs(f[Len(list)]) <=> \E a \in Matched(value, list, f) : a[2] = p
<1> DEFINE m == Len(list)
           n == Len(Digits(value))
           end == f[m]
           taken == Matched(value, list, f)
<1>1. m \in Nat /\ m \in 0 .. m /\ n \in Nat
  BY RowFacts
<1>2. end.substitutions \in [1 .. n -> Nat]
  BY <1>1, StatesAre
<1>3. \A p \in 1 .. n, j \in Nat \ {0} : end.substitutions[p] = j <=> <<j, p>> \in taken /\ j <= m
  <2>1. SubstitutionsAreOf(value, list, f, m)
    BY <1>1, SubstitutionsAre
  <2> QED BY <2>1 DEF SubstitutionsAreOf
<1>4. \A a \in taken : a[1] \in 1 .. m /\ a[2] \in 1 .. n /\ a = <<a[1], a[2]>>
  BY MatchedIs
<1>5. Subs(end) = {p \in 1 .. n : end.substitutions[p] # 0}
  BY <1>2 DEF Subs, Gap
<1>6. IsFiniteSet(Subs(end))
  <2>1. IsFiniteSet(1 .. n)
    BY <1>1, FS_Interval
  <2>2. Subs(end) \in SUBSET (1 .. n)
    BY <1>5
  <2> QED BY <2>1, <2>2, FS_Subset
<1> HIDE DEF end, taken, m, n
<1>7. ASSUME NEW a \in taken
      PROVE  end.substitutions[a[2]] = a[1] /\ a[2] \in Subs(end)
  <2>1. a[1] \in Nat \ {0} /\ a[1] <= m /\ a[2] \in 1 .. n /\ <<a[1], a[2]>> \in taken
    BY <1>1, <1>4
  <2>2. end.substitutions[a[2]] = a[1]
    BY <1>3, <2>1
  <2> QED BY <1>5, <2>1, <2>2
<1>8. ASSUME NEW p \in Subs(end)
      PROVE  \E a \in taken : a[2] = p
  <2> DEFINE j == end.substitutions[p]
  <2>1. p \in 1 .. n /\ j \in Nat \ {0}
    BY <1>2, <1>5
  <2>2. <<j, p>> \in taken
    BY <1>3, <2>1
  <2>3. <<j, p>>[2] = p
    OBVIOUS
  <2> QED BY <2>2, <2>3
<1> QED BY <1>5, <1>6, <1>7, <1>8 DEF end, taken, m, n

(* A gap is filled by the digits that come after as many as it comes after. *)
LEMMA GapFilled ==
  ASSUME NEW value, NEW list, NEW f, ReadBy(value, list, f), NEW a \in Matched(value, list, f),
         NEW g, Cardinality({b \in Matched(value, list, f) : b[2] <= a[2]}) = g
  PROVE  /\ g \in Nat /\ g <= Cardinality(Subs(f[Len(list)]))
         /\ Cardinality(Subs(f[Len(list)])) \in Nat
         /\ f[Len(list)].substitutions[SubOf(f[Len(list)], g)] = a[1]
<1> DEFINE end == f[Len(list)]
           S == Subs(end)
           taken == Matched(value, list, f)
           some == {b \in taken : b[2] <= a[2]}
           To(p) == AtMost(S, p)
<1>1. /\ IsFiniteSet(S) /\ S \subseteq Nat
      /\ \A b \in taken : end.substitutions[b[2]] = b[1]
      /\ \A p : p \in S <=> \E b \in taken : b[2] = p
  <2>1. S \subseteq 1 .. Len(Digits(value)) /\ Len(Digits(value)) \in Nat
    BY SubsAreMatched, RowFacts
  <2>2. S \subseteq Nat
    <3> HIDE DEF S
    <3> QED BY <2>1
  <2> QED BY <2>2, SubsAreMatched
<1>2. IsFiniteSet(taken)
  BY CountsAreNatural
<1>3. IsFiniteSet(some)
  BY <1>2, FS_Subset
<1>4. \A x, y \in taken : x[2] = y[2] => x = y
  BY MatchedOnce
<1> DEFINE h == [b \in some |-> b[2]]
<1>5. Cardinality(To(a[2])) = g
  <2>1. h \in [some -> To(a[2])]
    BY <1>1 DEF AtMost
  <2>2. \A x, y \in some : h[x] = h[y] => x = y
    BY <1>4
  <2>3. \A t \in To(a[2]) : \E x \in some : h[x] = t
    BY <1>1 DEF AtMost
  <2> DEFINE T == To(a[2])
  <2> HIDE DEF h, some, To, T
  <2>4. Cardinality(T) = Cardinality(some)
    BY <1>3, <2>1, <2>2, <2>3, CountSame DEF T
  <2> QED BY <2>4 DEF T, some
<1>6. a[2] \in S
  BY <1>1
<1>7. /\ g \in Nat /\ Cardinality(S) \in Nat /\ g <= Cardinality(S)
  <2>1. To(a[2]) \in SUBSET S
    BY DEF AtMost
  <2> DEFINE T == To(a[2])
  <2>2. T \in SUBSET S /\ Cardinality(T) = g
    BY <1>5, <2>1
  <2> HIDE DEF T, S
  <2>3. IsFiniteSet(T) /\ Cardinality(T) <= Cardinality(S)
    BY <1>1, <2>2, FS_Subset
  <2> QED BY <1>1, <2>2, <2>3, FS_CardinalityType
<1>8. \A p \in S : Cardinality(To(p)) = g => p = a[2]
  <2> SUFFICES ASSUME NEW p \in S, Cardinality(To(p)) = g
               PROVE  p = a[2]
    OBVIOUS
  <2>1. Cardinality(AtMost(S, p)) = Cardinality(AtMost(S, a[2]))
    BY <1>5
  <2> HIDE DEF S
  <2> QED BY <1>1, <1>6, <2>1, RankOnce
<1>9. SubOf(end, g) = CHOOSE p \in S : Cardinality(To(p)) = g
  BY DEF SubOf, AtMost
<1> HIDE DEF To, S
<1>10. SubOf(end, g) = a[2]
  <2> DEFINE Ranked(p) == Cardinality(To(p)) = g
  <2>1. a[2] \in S /\ Ranked(a[2]) /\ \A p \in S : Ranked(p) => p = a[2]
    BY <1>5, <1>6, <1>8
  <2>2. SubOf(end, g) = CHOOSE p \in S : Ranked(p)
    BY <1>9
  <2> HIDE DEF Ranked
  <2> QED BY <2>1, <2>2
<1> QED BY <1>1, <1>7, <1>10 DEF S

(* What is told of an amount, with the parts of AmountsAreRead by name.    *)
AmountRead(told, named, found) ==
  LET Place(k) == 1 + Cardinality({j \in named : j < k}) + Cardinality({a \in found : a[1] < k})
      free     == DOMAIN told \ {Place(k) : k \in named}
  IN /\ DOMAIN told = 1 .. Cardinality(named) + Cardinality(found)
     /\ \A k \in named : told[Place(k)] = k
     /\ \A a \in found, i \in free :
          Cardinality({b \in found : b[2] <= a[2]}) = Cardinality({j \in free : j <= i})
            => told[i] = a[1]

(* Every amount is told as it should be, by every list.                    *)
LEMMA AmountIsRead ==
  ASSUME NEW value \in Nat, NEW list \in Seq(NumerologyRow)
  PROVE  AmountRead(parseNumerology(value, list), NamedIn(value, list), Found(value, list))
<1>1. PICK f : IsAmountRun(value, list, f) /\ parseNumerology(value, list) = ToldOf(f[Len(list)])
  BY AmountRun
<1>2. ReadBy(value, list, f)
  BY <1>1 DEF ReadBy
<1> DEFINE m == Len(list)
           end == f[m]
           num == end.numerology
           told == ToldOf(end)
           named == NamedIn(value, list)
           found == Matched(value, list, f)
           Place(k) == 1 + Cardinality({j \in named : j < k}) + Cardinality({a \in found : a[1] < k})
           free == DOMAIN told \ {Place(k) : k \in named}
<1>3. Found(value, list) = found
  BY <1>2, FoundIsMatched
<1>4. m \in Nat /\ m \in 0 .. m /\ DOMAIN list = 1 .. m
  BY <1>2, RowFacts
<1>5. num \in Seq(Nat) /\ Len(num) \in Nat /\ DOMAIN num = 1 .. Len(num)
  <2>1. num \in Seq(Nat)
    BY <1>2, <1>4, StatesAre
  <2> QED BY <2>1, LenProperties
<1>6. NumerologyIs(value, list, f, m)
  BY <1>2, <1>4, NumerologiesAre
<1>7. \A k \in named : k \in 1 .. m
  BY <1>4 DEF NamedIn
<1>8. Len(num) = Cardinality(named) + Cardinality(found)
  <2>1. NamedTo(value, list, m) = named
    <3>1. \A k \in named : k <= m
      BY <1>4, <1>7
    <3> QED BY <3>1 DEF NamedTo
  <2>2. MatchedTo(value, list, f, m) = found
    <3>1. \A a \in found : a[1] \in 1 .. m
      BY <1>2, MatchedIs
    <3>2. \A a \in found : a[1] <= m
      <4> HIDE DEF found
      <4> QED BY <1>4, <3>1
    <3> QED BY <3>2 DEF MatchedTo
  <2> QED BY <1>6, <2>1, <2>2 DEF NumerologyIs, CountTo
<1>9. DOMAIN told = 1 .. Len(num)
  BY <1>5 DEF ToldOf
<1>10. ASSUME NEW k \in named
       PROVE  Place(k) \in 1 .. Len(num) /\ num[Place(k)] = k
  <2>1. Place(k) = SpotOf(value, list, f, k)
    BY DEF SpotOf
  <2>2. k <= m
    BY <1>4, <1>7
  <2> QED BY <1>6, <2>1, <2>2 DEF NumerologyIs
<1>11. \A i \in 1 .. Len(num) : num[i] # Gap => \E k \in named : i = Place(k)
  <2> SUFFICES ASSUME NEW i \in 1 .. Len(num), num[i] # Gap
               PROVE  \E k \in named : i = Place(k)
    OBVIOUS
  <2>1. PICK k \in named : i = SpotOf(value, list, f, k)
    BY <1>6 DEF NumerologyIs
  <2>2. Place(k) = SpotOf(value, list, f, k)
    BY DEF SpotOf
  <2> QED BY <2>1, <2>2
<1> HIDE DEF named, found, Place
<1>12. \A i : i \in free <=> i \in 1 .. Len(num) /\ num[i] = Gap
  <2>1. \A k \in named : num[Place(k)] # Gap
    <3>1. \A k \in named : k # 0
      BY <1>4, <1>7
    <3> QED BY <1>10, <3>1 DEF Gap
  <2> QED BY <1>9, <1>11, <2>1
<1>13. \A k \in named : told[Place(k)] = k
  <2> SUFFICES ASSUME NEW k \in named
               PROVE  told[Place(k)] = k
    OBVIOUS
  <2>1. Place(k) \in DOMAIN num /\ num[Place(k)] = k /\ num[Place(k)] # Gap
    <3>1. k # 0
      BY <1>4, <1>7
    <3> QED BY <1>5, <1>10, <3>1 DEF Gap
  <2> QED BY <2>1 DEF ToldOf
<1>14. ASSUME NEW a \in found, NEW i \in free,
              Cardinality({b \in found : b[2] <= a[2]}) = Cardinality({j \in free : j <= i})
       PROVE  told[i] = a[1]
  <2> DEFINE g == GapsTo(end, i)
  <2>1. i \in 1 .. Len(num) /\ num[i] = Gap
    BY <1>12
  <2>2. {j \in 1 .. i : num[j] = Gap} = {j \in free : j <= i}
    <3>1. \A j : j \in 1 .. i <=> j \in 1 .. Len(num) /\ j <= i
      BY <1>5, <2>1
    <3> HIDE DEF free, num
    <3> QED BY <1>12, <3>1
  <2>3. Cardinality({b \in found : b[2] <= a[2]}) = g
    BY <1>14, <2>2 DEF GapsTo
  <2> HIDE DEF g
  <2>4. /\ g \in Nat /\ g <= Cardinality(Subs(end))
        /\ end.substitutions[SubOf(end, g)] = a[1]
    BY <1>2, <2>3, GapFilled DEF found
  <2>5. told[i] = IF g <= Cardinality(Subs(end)) THEN end.substitutions[SubOf(end, g)] ELSE Gap
    <3>1. i \in DOMAIN num /\ ~(num[i] # Gap)
      BY <1>5, <2>1
    <3> QED BY <3>1 DEF ToldOf, g
  <2> QED BY <2>4, <2>5
<1>15. DOMAIN told = 1 .. Cardinality(named) + Cardinality(found)
  BY <1>8, <1>9
<1>16. AmountRead(told, named, found)
  BY <1>13, <1>14, <1>15 DEF AmountRead, Place
<1> QED BY <1>1, <1>3, <1>16 DEF named

(* Of every amount the rows that mean something are told, each digit used  *)
(* once, first rows and left digits first, and what was found among the    *)
(* digits from left to right (parseNumerology).                            *)
THEOREM AmountsStayRead == ReadingSpec => []AmountsAreRead
<1>1. ASSUME ReadingInv
      PROVE  AmountsAreRead
  <2> SUFFICES ASSUME task.is = "amount"
               PROVE  AmountsAreRead
    BY DEF AmountsAreRead
  <2>1. task.value \in Nat /\ task.list \in Seq(NumerologyRow)
    BY <1>1 DEF ReadingInv, NumerologyRow
  <2>2. AmountRead(parseNumerology(task.value, task.list),
                   NamedIn(task.value, task.list), Found(task.value, task.list))
    BY <2>1, AmountIsRead
  <2> QED BY <2>2 DEF AmountRead, NamedIn, AmountsAreRead
<1>2. ReadingInv => AmountsAreRead
  BY <1>1
<1> QED BY <1>2, ReadingInvariant, PTL
=============================================================================
