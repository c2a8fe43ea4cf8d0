------------------------------ MODULE Recovery ------------------------------
(***************************************************************************)
(* The loop that settles what handlers left unsettled: every 15 seconds, in *)
(* every replica, cmd/novro lists the operations in pending_settlement,     *)
(* oldest first, and repeats Finalize and CompleteOperation for each of     *)
(* them.  One loop is modelled; it runs beside callers of the store that    *)
(* are unconstrained, which the loops of other replicas are among.          *)
(*                                                                          *)
(* A call of the store can fail before its transaction commits, or after    *)
(* the commit, when only the answer is lost.  A pass can end anywhere: the  *)
(* process stops, or the 30 seconds of the pass are over.                   *)
(***************************************************************************)
EXTENDS Billing, SequencesExt

CONSTANTS
  RecoveryLimit, \* operations a pass lists at most
  Unreadable     \* operations whose settlement_json no longer decodes

ASSUME RecoveryAssumption ==
  RecoveryLimit \in Nat \ {0} /\ Unreadable \subseteq Requests

VARIABLES
  queue,  \* operations in pending_settlement by updated_at, oldest first
  batch,  \* what is left of the list of this pass
  stage   \* the call to make next for the head of the batch

recoveryVars == <<batch, stage>>
allVars == <<vars, queue, recoveryVars>>

RecoveryTypeOK ==
  /\ queue \in Seq(Requests)
  /\ batch \in Seq([request : Requests, reserved : Nat, cost : Nat])
  /\ stage \in {"finalizing", "completing"}
  /\ ToSet(queue) = {r \in Requests : status[r] = "pending_settlement"} /\ IsInjective(queue)

RecoveryInit == queue = <<>> /\ batch = <<>> /\ stage = "finalizing"

(* The two methods that move an operation in the queue: both save the row,  *)
(* and saving sets updated_at.                                              *)

MarkPendingSettlement(r, input) ==
  MarkOperationPendingSettlement(r, input) /\ queue' = Append(RemoveFirst(queue, r), r)

Complete(r) == CompleteOperation(r) /\ queue' = RemoveFirst(queue, r)

InPlace(effect) == effect /\ UNCHANGED queue
Nothing == UNCHANGED <<vars, queue>>

\* A call that fails: before its commit, or after it.
Lost(effect) == effect \/ Nothing

-----------------------------------------------------------------------------
Oldest == SubSeq(queue, 1, IF Len(queue) < RecoveryLimit THEN Len(queue) ELSE RecoveryLimit)

Item(r) == [request |-> r, reserved |-> reserved[r], cost |-> snapshot[r]]

\* One row that does not decode makes the whole list an error.
ListPendingSettlements ==
  /\ batch = <<>>
  /\ \A i \in DOMAIN Oldest : Oldest[i] \notin Unreadable
  /\ batch' = [i \in DOMAIN Oldest |-> Item(Oldest[i])]
  /\ stage' = "finalizing"
  /\ Nothing

At(r, s) == batch # <<>> /\ Head(batch).request = r /\ stage = s
UsageOf(item) == [reserved |-> item.reserved, cost |-> item.cost]

NextItem == batch' = Tail(batch) /\ stage' = "finalizing"

RecoverFinalize(r) ==
  LET input == UsageOf(Head(batch)) IN
  /\ At(r, "finalizing")
  /\ InPlace(Finalize(r, input)) \/ (FinalizeReplayed(r, input) /\ Nothing)
  /\ stage' = "completing" /\ UNCHANGED batch

RecoverComplete(r) ==
  /\ At(r, "completing")
  /\ Complete(r) \/ (CompleteReplayed(r) /\ Nothing)
  /\ NextItem

\* A variant that gives up the pass when the store refuses.
RefusedAtOnce(r) ==
  /\ At(r, "finalizing") /\ ~FinalizeAccepted(r, UsageOf(Head(batch)))
  /\ ~FinalizeReplayed(r, UsageOf(Head(batch)))
  /\ Nothing
  /\ batch' = <<>> /\ stage' = "finalizing"

\* The store refuses: the pass goes on with the next item.
RecoverRefused(r) ==
  LET input == UsageOf(Head(batch)) IN
  /\ \/ At(r, "finalizing") /\ ~FinalizeAccepted(r, input) /\ ~FinalizeReplayed(r, input)
     \/ At(r, "completing") /\ ~CompleteAccepted(r) /\ ~CompleteReplayed(r)
  /\ Nothing
  /\ NextItem

\* The call fails: the pass goes on with the next item, too.
RecoverFails(r) ==
  /\ \/ At(r, "finalizing") /\ Lost(InPlace(Finalize(r, UsageOf(Head(batch)))))
     \/ At(r, "completing") /\ Lost(Complete(r))
  /\ NextItem

PassEnds ==
  /\ batch # <<>>
  /\ batch' = <<>> /\ stage' = "finalizing"
  /\ Nothing

RecoverItem(r) == RecoverFinalize(r) \/ RecoverComplete(r) \/ RecoverRefused(r) \/ RecoverFails(r)
RecoveryStep == ListPendingSettlements \/ PassEnds \/ \E r \in Requests : RecoverItem(r)

-----------------------------------------------------------------------------
(* The other callers of the store.                                          *)
CallerStep(r) ==
  \/ \E amount \in Amounts : InPlace(StartOperation(r, amount))
  \/ \E input \in UsageInputs : MarkPendingSettlement(r, input)
  \/ \E input \in UsageInputs : InPlace(Finalize(r, input))
  \/ Complete(r)
  \/ \E code \in FailureCodes :
       InPlace(MarkOperationPendingUnknown(r, code) \/ FailOperation(r, code) \/ RecordFailure(r, code))

Callers == (\E r \in Requests : CallerStep(r)) \/ InPlace(WalletStep)

RecoveringNext == RecoveryStep \/ (Callers /\ UNCHANGED recoveryVars)

(* A pass starts again and again; a call that is made again and again is    *)
(* answered at some time: a pass that never gets beyond an item, for ever,  *)
(* would be a database that is down for ever.                               *)
RecoveryFairness ==
  /\ WF_allVars(ListPendingSettlements)
  /\ \A r \in Requests :
       SF_allVars(RecoverFinalize(r)) /\ SF_allVars(RecoverComplete(r)) /\ SF_allVars(RecoverRefused(r))

RecoveringSpec == Init /\ RecoveryInit /\ [][RecoveringNext]_allVars /\ RecoveryFairness
-----------------------------------------------------------------------------
(* Properties.                                                              *)

\* The list is read once and used later, while handlers and other replicas go
\* on: whatever they do in between, an item still says what the operation
\* costs, so repeating Finalize with it is a replay and never a second charge.
ListedItemStaysValid ==
  \A i \in DOMAIN batch :
    LET item == batch[i]  r == item.request IN
    /\ status[r] \in {"pending_settlement", "completed"}
    /\ item.reserved = reserved[r]
    /\ item.cost = IF status[r] = "completed" THEN usage[r].cost ELSE snapshot[r]

\* service.go:475 promises that one damaged or conflicting snapshot does not
\* hold up the others: an operation whose intent is stored is settled in the
\* end, unless it is itself the one that cannot be settled.
PendingIsSettled ==
  \A r \in Requests :
    status[r] = "pending_settlement" /\ r \notin Unreadable
      ~> status[r] = "completed" \/ usage[r].kind = "failed"
=============================================================================
