------------------------------ MODULE Balance -------------------------------
(***************************************************************************)
(* The balance shown on the page: poll_balance of src/poller.rs, which     *)
(* stores the node's balance and broadcasts it when it has changed, the    *)
(* page's websocket, and BalanceTracker of webroot/script/common.js, which *)
(* also asks for the stored balance every seven seconds.                   *)
(***************************************************************************)
EXTENDS Integers, Sequences

CONSTANTS
  Balances,          \* what the node's balance may be
  MaxGets,           \* bound: requests under way at once
  MaxBalanceFaults   \* bound: changes of the balance, failed writes and broken sockets

ASSUME BalanceAssumption == Balances \subseteq Nat /\ {MaxGets, MaxBalanceFaults} \subseteq Nat

VARIABLES
  nodeBalance,
  walletBalance,     \* node_info in the database
  currentOfPoller,   \* current_balance of lnd_poller
  socket,            \* HelipadWebsocket: "open", or "closed" for five seconds
  events,            \* balances broadcast to the page and not handled yet
  gets,              \* requests of getBalance: "asked", or the balance read
  currentBalance,    \* shown on the page; -1: null
  balanceFaults

balanceVars == <<nodeBalance, walletBalance, currentOfPoller, socket, events, gets,
                 currentBalance, balanceFaults>>

Asked == -1

BalanceInit ==
  /\ nodeBalance \in Balances
  /\ walletBalance = nodeBalance /\ currentOfPoller = nodeBalance
  /\ socket = "closed" /\ events = <<>>
  /\ gets = <<Asked>>          \* the constructor's
  /\ currentBalance = -1
  /\ balanceFaults = 0

Fault == balanceFaults < MaxBalanceFaults /\ balanceFaults' = balanceFaults + 1

BalanceMoves ==
  /\ Fault
  /\ nodeBalance' \in Balances
  /\ UNCHANGED <<walletBalance, currentOfPoller, socket, events, gets, currentBalance>>

(* poll_balance: what is broadcast goes by the poller's own copy, whether  *)
(* or not it could be stored.                                              *)
PollBalance ==
  /\ \/ walletBalance' = nodeBalance /\ UNCHANGED balanceFaults
     \/ Fault /\ UNCHANGED walletBalance
  /\ events' = IF currentOfPoller # nodeBalance /\ socket = "open"
               THEN Append(events, nodeBalance) ELSE events
  /\ currentOfPoller' = nodeBalance
  /\ UNCHANGED <<nodeBalance, socket, gets, currentBalance>>

(* onclose, and connect five seconds later; what was sent in between, or   *)
(* was on its way, is lost.                                                *)
CloseSocket ==
  /\ socket = "open" /\ Fault
  /\ socket' = "closed" /\ events' = <<>>
  /\ UNCHANGED <<nodeBalance, walletBalance, currentOfPoller, gets, currentBalance>>

OpenSocket ==
  /\ socket = "closed" /\ socket' = "open"
  /\ UNCHANGED <<nodeBalance, walletBalance, currentOfPoller, events, gets, currentBalance, balanceFaults>>

(* setBalance, by an event. *)
ReceiveBalance ==
  /\ events # <<>>
  /\ currentBalance' = Head(events) /\ events' = Tail(events)
  /\ UNCHANGED <<nodeBalance, walletBalance, currentOfPoller, socket, gets, balanceFaults>>

(* Mutant of GetBalance: the tracker asks once and then relies on events.  *)
GetBalanceOnce ==
  /\ currentBalance = -1 /\ Len(gets) < MaxGets
  /\ gets' = Append(gets, Asked)
  /\ UNCHANGED <<nodeBalance, walletBalance, currentOfPoller, socket, events, currentBalance, balanceFaults>>

(* getBalance, every seven seconds whether or not the last has answered.   *)
GetBalance ==
  /\ Len(gets) < MaxGets
  /\ gets' = Append(gets, Asked)
  /\ UNCHANGED <<nodeBalance, walletBalance, currentOfPoller, socket, events, currentBalance, balanceFaults>>

(* api_v1_balance *)
ReadBalance(g) ==
  /\ gets[g] = Asked
  /\ gets' = [gets EXCEPT ![g] = walletBalance]
  /\ UNCHANGED <<nodeBalance, walletBalance, currentOfPoller, socket, events, currentBalance, balanceFaults>>

(* Its answers come in any order, or not at all. *)
AnswerBalance(g) ==
  /\ gets[g] # Asked
  /\ \/ currentBalance' = gets[g] /\ UNCHANGED balanceFaults
     \/ Fault /\ UNCHANGED currentBalance
  /\ gets' = SubSeq(gets, 1, g - 1) \o SubSeq(gets, g + 1, Len(gets))
  /\ UNCHANGED <<nodeBalance, walletBalance, currentOfPoller, socket, events>>

BalanceNext ==
  \/ BalanceMoves \/ PollBalance \/ CloseSocket \/ OpenSocket \/ ReceiveBalance \/ GetBalance
  \/ \E g \in DOMAIN gets : ReadBalance(g) \/ AnswerBalance(g)
=============================================================================
