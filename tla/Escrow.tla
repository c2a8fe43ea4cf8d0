------------------------------- MODULE Escrow -------------------------------
(***************************************************************************)
(* What the billing store promises a user, without operations, entries or   *)
(* usage rows: a call first puts an amount aside, and later, once, either   *)
(* pays its cost out of it (and out of the account, when it cost more) or   *)
(* gets all of it back.  Nothing else takes money from an account except an *)
(* adjustment that the account can cover.                                   *)
(***************************************************************************)
EXTENDS Integers

CONSTANTS Users, Requests, Owner

VARIABLES
  account,  \* what a user can spend
  phase,    \* of a call: "none", "held", "charged" or "released"
  hold,     \* what is put aside for a call
  charge    \* what a call was made to pay

escrowVars == <<account, phase, hold, charge>>

EscrowInit ==
  /\ account = [u \in Users |-> 0]
  /\ phase = [r \in Requests |-> "none"]
  /\ hold = [r \in Requests |-> 0]
  /\ charge = [r \in Requests |-> 0]

(* The amounts are the environment's choice, so an action reads its amount  *)
(* off the state it leads to.                                               *)

\* A credit of any size, or a debit that the account covers.
Move(u) ==
  /\ account'[u] > account[u] \/ account'[u] >= 0
  /\ account' = [account EXCEPT ![u] = account'[u]]
  /\ UNCHANGED <<phase, hold, charge>>

PutAside(r) ==
  LET amount == hold'[r] IN
  /\ phase[r] = "none" /\ 0 <= amount /\ amount <= account[Owner[r]]
  /\ account' = [account EXCEPT ![Owner[r]] = @ - amount]
  /\ phase' = [phase EXCEPT ![r] = "held"]
  /\ hold' = [hold EXCEPT ![r] = amount]
  /\ UNCHANGED charge

Pay(r) ==
  LET cost == charge'[r] IN
  /\ phase[r] = "held" /\ 0 <= cost
  /\ account' = [account EXCEPT ![Owner[r]] = @ + hold[r] - cost]
  /\ phase' = [phase EXCEPT ![r] = "charged"]
  /\ hold' = [hold EXCEPT ![r] = 0]
  /\ charge' = [charge EXCEPT ![r] = cost]

GiveBack(r) ==
  /\ phase[r] = "held"
  /\ account' = [account EXCEPT ![Owner[r]] = @ + hold[r]]
  /\ phase' = [phase EXCEPT ![r] = "released"]
  /\ hold' = [hold EXCEPT ![r] = 0]
  /\ UNCHANGED charge

EscrowNext ==
  \/ \E u \in Users : Move(u)
  \/ \E r \in Requests : PutAside(r) \/ Pay(r) \/ GiveBack(r)

EscrowSpec == EscrowInit /\ [][EscrowNext]_escrowVars
=============================================================================
