---------------------------- MODULE EffectsQueue ----------------------------
(***************************************************************************)
(* The effects of boosts on the page: TriggerQueue, SoundPew and MidiPew   *)
(* of webroot/script/common.js.  A boost brings a list of triggers, each   *)
(* with a MIDI note, a sound, both or neither.  One is played at once if   *)
(* nothing plays or waits; the others wait for a timer that looks at the   *)
(* queue every second.  An action is a task with its promise callbacks.    *)
(***************************************************************************)
EXTENDS Integers, Sequences

CONSTANTS
  Lists,       \* the lists of triggers that boosts bring
  MaxEffects   \* bound: triggers handed to the queue

Parts == {"midi", "sound"}

ASSUME ListsAssumption ==
  /\ Lists \subseteq Seq(SUBSET Parts) \ {<<>>}
  /\ MaxEffects \in Nat

VARIABLES
  wanted,      \* the triggers so far, in the order they came
  queue,       \* those that wait, by their number
  playing,
  plays,       \* those that were started: the number, and how its parts are
  midiOutput   \* "unknown" (and not initialized), "none" or "some"

queueVars == <<wanted, queue, playing, plays, midiOutput>>

PartStates == {"absent", "asking", "going", "done", "failed", "hung"}

(* Promise.all of the parts: resolved when all are, rejected when one is.  *)
Rejected(parts) == \E p \in Parts : parts[p] = "failed"
Resolved(parts) == \A p \in Parts : parts[p] \in {"absent", "done"}
Settled(parts)  == Rejected(parts) \/ Resolved(parts)
UnderWay(parts) == \E p \in Parts : parts[p] \in {"asking", "going", "hung"}

QueueInit ==
  /\ wanted = <<>> /\ queue = <<>> /\ plays = <<>>
  /\ playing = FALSE
  /\ midiOutput = "unknown"

(* doTrigger.  MIDI is asked for first, and done if there is no output.    *)
Started(has) ==
  [p \in Parts |-> IF p \notin has THEN "absent"
                   ELSE CASE p = "midi" /\ midiOutput = "unknown" -> "asking"
                          [] p = "midi" /\ midiOutput = "none" -> "done"
                          [] OTHER -> "going"]

DoTrigger(n, has) ==
  /\ plays' = Append(plays, [n |-> n, parts |-> Started(has)])
  /\ playing' = ~Settled(Started(has))

(* Mutant of HandleTriggers: what waits does not matter. *)
HandleTriggersIdle(list) ==
  LET n == Len(wanted)
  IN
  /\ n + Len(list) <= MaxEffects
  /\ wanted' = wanted \o list
  /\ IF ~playing
     THEN /\ DoTrigger(n + 1, list[1])
          /\ queue' = queue \o [i \in 1 .. Len(list) - 1 |-> n + 1 + i]
     ELSE /\ queue' = queue \o [i \in 1 .. Len(list) |-> n + i]
          /\ UNCHANGED <<playing, plays>>
  /\ UNCHANGED midiOutput

(* handleTriggers: the first is played at once if it can be, and even if   *)
(* it has no parts the others find the flag still set.                     *)
HandleTriggers(list) ==
  LET n == Len(wanted)
  IN
  /\ n + Len(list) <= MaxEffects
  /\ wanted' = wanted \o list
  /\ IF ~playing /\ queue = <<>>
     THEN /\ DoTrigger(n + 1, list[1])
          /\ queue' = [i \in 1 .. Len(list) - 1 |-> n + 1 + i]
     ELSE /\ queue' = queue \o [i \in 1 .. Len(list) |-> n + i]
          /\ UNCHANGED <<playing, plays>>
  /\ UNCHANGED midiOutput

(* Mutant of Tick: the timer does not look whether something plays.        *)
TickAnyway ==
  /\ queue # <<>>
  /\ DoTrigger(Head(queue), wanted[Head(queue)])
  /\ queue' = Tail(queue)
  /\ UNCHANGED <<wanted, midiOutput>>

(* The timer. *)
Tick ==
  /\ ~playing /\ queue # <<>>
  /\ DoTrigger(Head(queue), wanted[Head(queue)])
  /\ queue' = Tail(queue)
  /\ UNCHANGED <<wanted, midiOutput>>

----------------------------------------------------------------------------
(* Mutant of Becomes: a failure is not taken for the end. *)
BecomesUnlessFailed(k, p, state) ==
  LET parts == [plays[k].parts EXCEPT ![p] = state]
  IN
  /\ plays' = [plays EXCEPT ![k].parts = parts]
  /\ playing' = (playing /\ (Settled(plays[k].parts) \/ ~Resolved(parts)))
  /\ UNCHANGED <<wanted, queue>>

(* A part of a trigger that was started goes on; the flag is cleared when  *)
(* that settles the promise of its parts, which it does once.              *)
Becomes(k, p, state) ==
  LET parts == [plays[k].parts EXCEPT ![p] = state]
  IN
  /\ plays' = [plays EXCEPT ![k].parts = parts]
  /\ playing' = (playing /\ (Settled(plays[k].parts) \/ ~Settled(parts)))
  /\ UNCHANGED <<wanted, queue>>

(* requestMIDIAccess answers, or fails and leaves midiOutput as it was;    *)
(* the note is sent to the output, which may throw.                        *)
InitMIDI(k) ==
  /\ plays[k].parts["midi"] = "asking"
  /\ \E found \in {"none", "some", midiOutput} :
       /\ midiOutput' = found
       /\ IF found = "some" THEN \E state \in {"going", "failed"} : Becomes(k, "midi", state)
          ELSE Becomes(k, "midi", "done")

(* The sound has ended, or the note's time is up and Note Off is sent.     *)
EndPart(k, p) ==
  /\ plays[k].parts[p] = "going"
  /\ Becomes(k, p, "done")
  /\ UNCHANGED midiOutput

(* audio.play() is refused: the file is gone, or the user has not clicked  *)
(* on the page yet.                                                        *)
RefuseSound(k) ==
  /\ plays[k].parts["sound"] = "going"
  /\ Becomes(k, "sound", "failed")
  /\ UNCHANGED midiOutput

(* The sound stalls without an end, or Note Off throws in its timer: the   *)
(* promise is never settled.                                               *)
HangPart(k, p) ==
  /\ plays[k].parts[p] = "going"
  /\ Becomes(k, p, "hung")
  /\ UNCHANGED midiOutput

PartStep ==
  \E k \in DOMAIN plays : \/ InitMIDI(k) \/ RefuseSound(k)
                          \/ \E p \in Parts : EndPart(k, p) \/ HangPart(k, p)

QueueNext == (\E list \in Lists : HandleTriggers(list)) \/ Tick \/ PartStep

QueueSpec == QueueInit /\ [][QueueNext]_queueVars

----------------------------------------------------------------------------
(* Properties *)

QueueTypeOK ==
  /\ wanted \in Seq(SUBSET Parts) /\ queue \in Seq(Nat)
  /\ plays \in Seq([n : Nat, parts : [Parts -> PartStates]])
  /\ playing \in BOOLEAN
  /\ midiOutput \in {"unknown", "none", "some"}

(* The triggers are started in the order they came, none twice and none    *)
(* left out, though some are started by the boost that brings them and     *)
(* others by the timer; and none while an earlier one sounds.  The         *)
(* exception is one whose other part failed: the first rejection clears    *)
(* the flag and what still sounds is not waited for.                       *)
PlayedInTurn ==
  /\ QueueTypeOK
  /\ Len(plays) + Len(queue) = Len(wanted)
  /\ \A k \in DOMAIN plays : plays[k].n = k
  /\ \A j \in DOMAIN queue : queue[j] = Len(plays) + j
  /\ \A k \in DOMAIN plays :
       k < Len(plays) /\ UnderWay(plays[k].parts) => Rejected(plays[k].parts)

(* What waits is played in the end, unless the part of a trigger never     *)
(* ends or the user never answers the browser about MIDI: nothing but its  *)
(* promise clears the flag.                                                *)
Stuck ==
  /\ plays # <<>> /\ ~Settled(plays[Len(plays)].parts)
  /\ \E p \in Parts : plays[Len(plays)].parts[p] \in {"asking", "hung"}

EffectsArePlayed == []<>(queue = <<>> \/ Stuck)
=============================================================================
