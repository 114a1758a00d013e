---------------------------- MODULE PageEffects -----------------------------
(***************************************************************************)
(* What the events of the websocket set off on the page (initWebsocket of  *)
(* webroot/script/helipad.js): a new boost its triggers and its confetti,  *)
(* a balance the display; and the dialog a user opens at a boost.  They    *)
(* share no state but the page, so that a behaviour follows one of them    *)
(* and leaves the others as they began.                                    *)
(***************************************************************************)
EXTENDS EffectsQueue, Confetti, Balance, BoostInfo

VARIABLE watched   \* "triggers", "confetti", "balance" or "dialog"

vars == <<watched, queueVars, confettiVars, balanceVars, infoVars>>

Init ==
  /\ watched \in {"triggers", "confetti", "balance", "dialog"}
  /\ QueueInit /\ ConfettiInit /\ BalanceInit /\ InfoInit
  /\ watched # "dialog" => pathname = "/"

Triggers(A) == watched = "triggers" /\ A /\ UNCHANGED <<watched, confettiVars, balanceVars, infoVars>>
Falling(A)  == watched = "confetti" /\ A /\ UNCHANGED <<watched, queueVars, balanceVars, infoVars>>
Display(A)  == watched = "balance" /\ A /\ UNCHANGED <<watched, queueVars, confettiVars, infoVars>>
Opening(A)  == watched = "dialog" /\ A /\ UNCHANGED <<watched, queueVars, confettiVars, balanceVars>>

Next ==
  \/ Triggers(QueueNext)
  \/ Falling(ConfettiNext)
  \/ Display(BalanceNext)
  \/ Opening(InfoNext)

Spec == Init /\ [][Next]_vars

(* Timers fire, frames are drawn while the page is visible, sounds end;    *)
(* the poller and the server go on.                                        *)
FairSpec ==
  /\ Spec
  /\ WF_vars(Triggers(Tick))
  /\ \A k \in 1 .. MaxEffects, p \in Parts :
       WF_vars(k \in DOMAIN plays /\ Triggers(EndPart(k, p)))
  /\ WF_vars(Falling(Frame)) /\ WF_vars(Falling(StopConfetti))
  /\ WF_vars(Display(PollBalance)) /\ WF_vars(Display(OpenSocket))
  /\ WF_vars(Display(ReceiveBalance)) /\ WF_vars(Display(GetBalance))
  /\ \A g \in 1 .. MaxGets :
       WF_vars(g \in DOMAIN gets /\ Display(ReadBalance(g) \/ AnswerBalance(g)))

(* Once the node's balance rests the page shows it for good, whatever      *)
(* events were lost and in whichever order the answers came (getBalance    *)
(* does not wait for its last answer).                                     *)
BalanceIsCurrent == watched = "balance" => <>[](currentBalance = nodeBalance)
=============================================================================
