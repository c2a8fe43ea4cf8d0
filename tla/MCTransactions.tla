--------------------------- MODULE MCTransactions ---------------------------
(* Transactions row by row: those on groups, keys and routes, and those on  *)
(* the money.  They share no state, so that a behaviour here is one of      *)
(* either, the other at rest.                                               *)
(*                                                                          *)
(* Money: two requests of one user under one key, an order of that user and *)
(* one of its inviter.                                                      *)
EXTENDS MCGroups, Locking

CONSTANTS w1, w2, w3, inviter, user, q1, q2, o1, o2

VARIABLE part

MCRequestUser == q1 :> user @@ q2 :> user
MCIdemKey == [r \in Requests |-> q1]
MCPayer == o1 :> user @@ o2 :> inviter
MCReferrer == user :> inviter @@ inviter :> Nobody

TransactionsInit == GroupsInit /\ LockingInit /\ part \in {"groups", "money"}

TransactionsNext ==
  /\ UNCHANGED part
  /\ \/ part = "groups" /\ GroupsNext /\ UNCHANGED lockingVars
     \/ part = "money" /\ LockingNext /\ UNCHANGED groupsVars

TransactionsSpec == TransactionsInit /\ [][TransactionsNext]_<<groupsVars, lockingVars, part>>
=============================================================================
