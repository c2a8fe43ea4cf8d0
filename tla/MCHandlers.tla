----------------------------- MODULE MCHandlers -----------------------------
(* Handlers of HTTP requests side by side with others of their kind: the    *)
(* gateway's, which start and settle calls; those that expand and store     *)
(* conversations; and those of the console that create and change accounts. *)
(* They share no state, so that a behaviour here is one of any of the       *)
(* three, the others at rest.                                               *)
EXTENDS MCGateway, ResponseHistory, Accounts

CONSTANTS h1, h2, e1, e2, s1, s2

VARIABLE part

HandlersInit ==
  /\ GatewayInit /\ HistoryInit /\ AccountsInit
  /\ part \in {"calls", "conversations", "accounts"}

HandlersNext ==
  /\ UNCHANGED part
  /\ \/ part = "calls" /\ GatewayNext /\ UNCHANGED <<historyVars, accountVars>>
     \/ part = "conversations" /\ HistoryNext /\ UNCHANGED <<gatewayVars, accountVars>>
     \/ part = "accounts" /\ AccountsNext /\ UNCHANGED <<gatewayVars, historyVars>>

HandlersSpec == HandlersInit /\ [][HandlersNext]_<<gatewayVars, historyVars, accountVars, part>>
=============================================================================
