---------------------------- MODULE ProfileQuery ----------------------------
(***************************************************************************)
(* What querySync of the relay pool promises its caller: each query is     *)
(* answered at most once, with genuine events of the author asked for and  *)
(* none of them twice, and an answer never changes once it is given.       *)
(***************************************************************************)
CONSTANTS
  Queries,
  Authors,
  Genuine(_)    \* the events that asking for an author may return

VARIABLES
  asked,        \* the author each query so far is about
  answers       \* the answer, a sequence, to each query answered so far

Init == asked = <<>> /\ answers = <<>>

Ask(q, a) ==
  /\ q \notin DOMAIN asked
  /\ asked' = [x \in DOMAIN asked \cup {q} |-> IF x = q THEN a ELSE asked[x]]

Kept == \A q \in DOMAIN answers : q \in DOMAIN answers' /\ answers'[q] = answers[q]

Answer(q) ==
  LET given == answers'[q]
  IN
  /\ q \in DOMAIN asked'
  /\ \A k \in DOMAIN given : given[k] \in Genuine(asked'[q])
  /\ \A j, k \in DOMAIN given : given[j] = given[k] => j = k

(* One task of the browser may ask a query and answer several. *)
Next ==
  /\ asked' = asked \/ \E q \in Queries, a \in Authors : Ask(q, a)
  /\ Kept
  /\ \A q \in DOMAIN answers' \ DOMAIN answers : Answer(q)

Spec == Init /\ [][Next]_<<asked, answers>>
=============================================================================
