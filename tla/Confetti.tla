------------------------------ MODULE Confetti ------------------------------
(***************************************************************************)
(* The confetti of webroot/script/confetti.js, which every new boost on    *)
(* the page shoots (shootConfetti of helipad.js): a start, and a timeout   *)
(* to stop.  One animation moves the particles frame by frame; while it    *)
(* streams, those that fall out of the window start again at its top, and  *)
(* then it removes them until none is left.                                *)
(***************************************************************************)
EXTENDS Integers, Sequences

CONSTANTS
  MaxParticles,   \* maxParticleCount (120 in the code)
  Height,         \* of the window, in steps of a frame
  MaxShots        \* bound: confetti shot

ASSUME ConfettiAssumption == MaxParticles \in Nat \ {0} /\ Height \in Nat /\ MaxShots \in Nat

VARIABLES
  particles,          \* of each its y: -2 is above -15 pixels, out of sight
  streamingConfetti,
  animationTimer,     \* a frame is asked for; null otherwise
  frames,             \* frames the browser owes
  stops,              \* timeouts to stop
  shots

confettiVars == <<particles, streamingConfetti, animationTimer, frames, stops, shots>>

ConfettiInit ==
  /\ particles = <<>> /\ streamingConfetti = FALSE /\ animationTimer = FALSE
  /\ frames = 0 /\ stops = 0 /\ shots = 0

Top == {-2, -1}   \* resetParticle

(* updateParticles, without the sway: out of sight and no longer streaming *)
(* a particle is sent below the bottom; at the bottom it starts again or   *)
(* is removed.                                                             *)
Updated(y) == IF ~streamingConfetti /\ y = -2 THEN Height + 2 ELSE y + 1

Fallen == {i \in DOMAIN particles : Updated(particles[i]) > Height}

UpdateParticles ==
  IF streamingConfetti
  THEN \E again \in [Fallen -> Top] :
         particles' = [i \in DOMAIN particles |->
                         IF i \in Fallen THEN again[i] ELSE Updated(particles[i])]
  ELSE particles' = SelectSeq([i \in DOMAIN particles |-> Updated(particles[i])],
                              LAMBDA y : y <= Height)

(* Mutant of Frame: what falls out of the window always starts again.      *)
FrameForever ==
  /\ frames > 0
  /\ IF particles = <<>>
     THEN animationTimer' = FALSE /\ frames' = frames - 1 /\ UNCHANGED particles
     ELSE /\ particles' = [i \in DOMAIN particles |-> IF i \in Fallen THEN -1 ELSE Updated(particles[i])]
          /\ UNCHANGED <<animationTimer, frames>>
  /\ UNCHANGED <<streamingConfetti, stops, shots>>

(* runAnimation *)
Frame ==
  /\ frames > 0
  /\ IF particles = <<>>
     THEN animationTimer' = FALSE /\ frames' = frames - 1 /\ UNCHANGED particles
     ELSE UpdateParticles /\ UNCHANGED <<animationTimer, frames>>
  /\ UNCHANGED <<streamingConfetti, stops, shots>>

(* startConfetti and a timeout.  An animation that is not running starts,  *)
(* and its first frame moves the new particles at once.                    *)
ShootConfetti ==
  /\ shots < MaxShots /\ shots' = shots + 1
  /\ \E new \in [1 .. MaxParticles - Len(particles) -> IF animationTimer THEN Top ELSE {-1, 0}] :
       particles' = particles \o new
  /\ streamingConfetti' = TRUE /\ animationTimer' = TRUE
  /\ frames' = frames + IF animationTimer THEN 0 ELSE 1
  /\ stops' = stops + 1

(* stopConfetti: the first timeout ends what a later shot has started.     *)
StopConfetti ==
  /\ stops > 0 /\ stops' = stops - 1
  /\ streamingConfetti' = FALSE
  /\ UNCHANGED <<particles, animationTimer, frames, shots>>

ConfettiNext == ShootConfetti \/ Frame \/ StopConfetti

ConfettiSpec == ConfettiInit /\ [][ConfettiNext]_confettiVars

(* The animation ends by itself some time after the last shot, however the *)
(* shots and their timeouts overlap; until then exactly one runs, or the   *)
(* particles would fall twice as fast.                                     *)
OneAnimation ==
  /\ frames = IF animationTimer THEN 1 ELSE 0
  /\ particles # <<>> => animationTimer

ConfettiEnds == []OneAnimation /\ []<>(particles = <<>> /\ ~animationTimer)
=============================================================================
