------------------------------ MODULE Gateway -------------------------------
(***************************************************************************)
(* The request path of the gateway (internal/gateway/handler.go) on top of  *)
(* the billing store and its recovery loop.  One handler runs per request,  *)
(* in any replica; handlers interleave with each other, with the loop and   *)
(* with administrators.                                                     *)
(*                                                                          *)
(* Every call of the store can fail before or after its commit (Lost), and  *)
(* is repeated by retrySettlement where the code does so; a handler can die *)
(* between any two calls.  What the upstream answers is chosen freely; what *)
(* the properties need to know of the answer is whether the upstream may    *)
(* have done the work, how the code classifies it, and what it cost.        *)
(***************************************************************************)
EXTENDS Recovery

CONSTANTS
  Estimate,                \* what proxy reserves: the maximum over the candidates
  Candidates,              \* candidate routes of a request
  MaxUpstreamHTTPAttempts, \* attempts on one candidate that answers non-2xx
  SettlementRetries        \* len(settlementRetryDelays)

\* Reasons and codes the handler stores; each stands for those of its kind.
ResultUnknown == "upstream_result_unknown"
StreamIncomplete == "upstream_stream_incomplete"
IntentUnavailable == "settlement_intent_unavailable"
CallFailed == "upstream_unavailable"

ASSUME GatewayAssumption ==
  /\ Estimate \in [Requests -> Amounts]
  /\ Candidates \in Nat \ {0} /\ MaxUpstreamHTTPAttempts \in Nat \ {0} /\ SettlementRetries \in Nat
  /\ {ResultUnknown, StreamIncomplete, IntentUnavailable, CallFailed} \subseteq FailureCodes

VARIABLES
  step,      \* the call the handler of a request makes next
  candidate, \* the candidate route it is trying
  attempts,  \* non-2xx answers of that candidate so far
  tries,     \* failures of the store call it is repeating
  cost,      \* the quote, once the upstream has answered
  reason,    \* what it will store with a failed or unknown operation
  reply,     \* what the client has been sent
  executed   \* calls that the upstream may have carried out

handlerVars == <<step, candidate, attempts, tries, cost, reason, reply, executed>>
gatewayVars == <<allVars, handlerVars>>

Steps == {"arriving", "calling", "relaying", "failing", "marking", "recording",
          "persisting", "finalizing", "completing", "done", "dead"}
Replies == {"none", "refused", "error", "replay", "streamed", "delivered", "failed", "held", "incomplete", "unsettled"}

GatewayTypeOK ==
  /\ TypeOK
  /\ RecoveryTypeOK
  /\ step \in [Requests -> Steps]
  /\ candidate \in [Requests -> 1..Candidates]
  /\ attempts \in [Requests -> 0..(MaxUpstreamHTTPAttempts - 1)]
  /\ tries \in [Requests -> 0..SettlementRetries]
  /\ cost \in [Requests -> Nat]
  /\ reason \in [Requests -> FailureCodes \cup {NoCode}]
  /\ reply \in [Requests -> Replies]
  /\ executed \in [Requests -> Nat]

HandlerInit ==
  /\ step = [r \in Requests |-> "arriving"]
  /\ candidate = [r \in Requests |-> 1]
  /\ attempts = [r \in Requests |-> 0]
  /\ tries = [r \in Requests |-> 0]
  /\ cost = [r \in Requests |-> 0]
  /\ reason = [r \in Requests |-> NoCode]
  /\ reply = [r \in Requests |-> "none"]
  /\ executed = [r \in Requests |-> 0]

-----------------------------------------------------------------------------
Goto(r, s) == step' = [step EXCEPT ![r] = s] /\ tries' = [tries EXCEPT ![r] = 0]

\* Headers that are out cannot be taken back: a stream keeps what it was sent.
Answer(r, text) == reply' = [reply EXCEPT ![r] = IF @ = "streamed" THEN @ ELSE text]

Finish(r, text) == Goto(r, "done") /\ Answer(r, text)

\* retrySettlement calls again, unless the delays or the 10 seconds are used up.
Again(r) ==
  /\ tries[r] < SettlementRetries
  /\ tries' = [tries EXCEPT ![r] = @ + 1]
  /\ UNCHANGED <<step, reply, reason>>

-----------------------------------------------------------------------------
(* StartOperation: called once.  Only an operation it created is executed.  *)

\* A variant that calls the upstream for a replayed operation, too.
StartsOrResumes(r) ==
  /\ step[r] = "arriving"
  /\ \/ InPlace(StartOperation(r, Estimate[r])) \/ (StartReplayed(r) /\ Nothing)
  /\ Goto(r, "calling")
  /\ UNCHANGED <<candidate, attempts, cost, reason, reply, executed>>

Starts(r) ==
  /\ step[r] = "arriving"
  /\ InPlace(StartOperation(r, Estimate[r]))
  /\ Goto(r, "calling")
  /\ UNCHANGED <<candidate, attempts, cost, reason, reply, executed>>

StartRefused(r) ==
  /\ step[r] = "arriving"
  /\ \/ StartReplayed(r) /\ Nothing /\ Finish(r, "replay")
     \/ (StartConflict(r) \/ StartInsufficient(r, Estimate[r])) /\ Nothing /\ Finish(r, "refused")
     \/ Lost(InPlace(StartOperation(r, Estimate[r]))) /\ Finish(r, "error")
  /\ UNCHANGED <<candidate, attempts, cost, reason, executed>>

-----------------------------------------------------------------------------
(* The candidate loop.                                                      *)

\* The next candidate, or the end of the loop.
NextCandidate(r) ==
  IF candidate[r] < Candidates
  THEN /\ candidate' = [candidate EXCEPT ![r] = @ + 1] /\ attempts' = [attempts EXCEPT ![r] = 0]
       /\ UNCHANGED <<step, tries, reason>>
  ELSE Goto(r, "failing") /\ reason' = [reason EXCEPT ![r] = CallFailed] /\ UNCHANGED <<candidate, attempts>>

\* No byte was written: the route is misconfigured or no connection was made.
NotSent(r) ==
  /\ step[r] = "calling"
  /\ NextCandidate(r)
  /\ Nothing /\ UNCHANGED <<cost, reply, executed>>

\* The total timeout is over before anything was written.
OutOfTime(r) ==
  /\ step[r] = "calling"
  /\ Goto(r, "failing") /\ reason' = [reason EXCEPT ![r] = CallFailed]
  /\ Nothing /\ UNCHANGED <<candidate, attempts, cost, reply, executed>>

\* Any status outside 2xx.
Rejected(r) ==
  /\ step[r] = "calling"
  /\ IF attempts[r] + 1 < MaxUpstreamHTTPAttempts
     THEN attempts' = [attempts EXCEPT ![r] = @ + 1] /\ UNCHANGED <<step, tries, reason, candidate>>
     ELSE NextCandidate(r)
  /\ Nothing /\ UNCHANGED <<cost, reply, executed>>

\* The upstream may have done the work, or certainly has.
Executes(r) == executed' = [executed EXCEPT ![r] = @ + 1] /\ UNCHANGED <<candidate, attempts>>

Unknown(r, why) == Goto(r, "marking") /\ reason' = [reason EXCEPT ![r] = why] /\ UNCHANGED <<cost, reply>>
Fails(r) == Goto(r, "failing") /\ reason' = [reason EXCEPT ![r] = CallFailed] /\ UNCHANGED <<cost, reply>>

\* A quote is zero when every rate is, and then so is the reservation.
Quotes(r) == IF Estimate[r] = 0 THEN {0} ELSE Amounts
Billable(r) == \E c \in Quotes(r) :
  Goto(r, "persisting") /\ cost' = [cost EXCEPT ![r] = c] /\ UNCHANGED <<reason, reply>>

\* A variant that takes a broken connection for one that was never made.
LostAsUnsent(r) ==
  /\ step[r] = "calling"
  /\ NextCandidate(r)
  /\ executed' = [executed EXCEPT ![r] = @ + 1]
  /\ Nothing /\ UNCHANGED <<cost, reply>>

\* The request was written and no answer came.
AnswerLost(r) ==
  /\ step[r] = "calling"
  /\ Executes(r)
  /\ Unknown(r, ResultUnknown)
  /\ Nothing

\* A 2xx answer that is read as a whole: billable, failed, or neither (also when
\* it breaks off, comes too late or cannot be priced).  One that cannot be
\* converted to the client's protocol counts as failed.
Answered(r) ==
  /\ step[r] = "calling"
  /\ Executes(r)
  /\ Billable(r) \/ Fails(r) \/ Unknown(r, ResultUnknown)
  /\ Nothing

\* A 2xx answer that is an event stream, asked for or not.
StreamBegins(r) ==
  /\ step[r] = "calling"
  /\ Executes(r)
  /\ Goto(r, "relaying")
  /\ Nothing /\ UNCHANGED <<cost, reason, reply>>

\* A stream that ends billable has been relayed; before another end, a
\* conversion may have written nothing yet, which leaves the reply open.
StreamEnds(r) ==
  /\ step[r] = "relaying"
  /\ \/ /\ \E c \in Quotes(r) : cost' = [cost EXCEPT ![r] = c]
        /\ Goto(r, "persisting") /\ Answer(r, "streamed") /\ UNCHANGED reason
     \/ /\ \/ Goto(r, "failing") /\ reason' = [reason EXCEPT ![r] = CallFailed]
           \/ Goto(r, "marking") /\ reason' = [reason EXCEPT ![r] = StreamIncomplete]
        /\ \E sent \in {"none", "streamed"} : Answer(r, sent)
        /\ UNCHANGED cost
  /\ Nothing /\ UNCHANGED <<candidate, attempts, executed>>

Calls(r) == NotSent(r) \/ OutOfTime(r) \/ Rejected(r) \/ AnswerLost(r) \/ Answered(r) \/ StreamBegins(r) \/ StreamEnds(r)

-----------------------------------------------------------------------------
(* The call did not happen: release the hold, then record a failed row.     *)
(* Errors of both are logged and nothing else.                              *)

FailsOperation(r) ==
  /\ step[r] = "failing"
  /\ Lost(InPlace(FailOperation(r, reason[r])))
  /\ Again(r) \/ (Goto(r, "recording") /\ UNCHANGED <<reason, reply>>)
  /\ UNCHANGED <<candidate, attempts, cost, executed>>

RecordsFailure(r) ==
  /\ step[r] = "recording"
  /\ Lost(InPlace(RecordFailure(r, reason[r])))
  /\ Finish(r, IF reason[r] = StreamIncomplete THEN "incomplete" ELSE "failed")
  /\ UNCHANGED <<candidate, attempts, cost, reason, executed>>

(* The call may have happened: keep the hold.                               *)

Marked(r) ==
  CASE reason[r] = StreamIncomplete /\ reply[r] = "none" -> Goto(r, "recording") /\ UNCHANGED reply
    [] reason[r] = IntentUnavailable -> Finish(r, "unsettled")
    [] OTHER -> Finish(r, "held")

\* A variant that releases the hold when the mark cannot be stored.
MarksOrReleases(r) ==
  /\ step[r] = "marking"
  /\ \/ Lost(InPlace(MarkOperationPendingUnknown(r, reason[r]))) /\ Again(r)
     \/ /\ InPlace(MarkOperationPendingUnknown(r, reason[r]) \/ FailOperation(r, reason[r]))
        /\ Marked(r) /\ UNCHANGED reason
  /\ UNCHANGED <<candidate, attempts, cost, executed>>

MarksUnknown(r) ==
  /\ step[r] = "marking"
  /\ Lost(InPlace(MarkOperationPendingUnknown(r, reason[r])))
  /\ Again(r) \/ (Marked(r) /\ UNCHANGED reason)
  /\ UNCHANGED <<candidate, attempts, cost, executed>>

-----------------------------------------------------------------------------
(* settle: the intent, the money, the end.  Only a lost intent stops it; a  *)
(* failure after the intent is logged, the client gets its answer, and the  *)
(* recovery loop finishes the work.                                         *)

Settled(r) == [reserved |-> Estimate[r], cost |-> cost[r]]

\* A variant that answers the client although the intent is not stored.
PersistsAnyway(r) ==
  /\ step[r] = "persisting"
  /\ \/ (MarkPendingSettlement(r, Settled(r)) \/ Nothing) /\ Goto(r, "finalizing") /\ UNCHANGED <<reason, reply>>
     \/ Lost(MarkPendingSettlement(r, Settled(r))) /\ Again(r)
  /\ UNCHANGED <<candidate, attempts, cost, executed>>

PersistsIntent(r) ==
  /\ step[r] = "persisting"
  /\ \/ /\ MarkPendingSettlement(r, Settled(r)) \/ (MarkSettlementReplayed(r, Settled(r)) /\ Nothing)
        /\ Goto(r, "finalizing") /\ UNCHANGED <<reason, reply>>
     \/ /\ Lost(MarkPendingSettlement(r, Settled(r)))
        /\ \/ Again(r)
           \/ Goto(r, "marking") /\ reason' = [reason EXCEPT ![r] = IntentUnavailable] /\ UNCHANGED reply
  /\ UNCHANGED <<candidate, attempts, cost, executed>>

\* A variant that treats a failed finalization as a failed call.
FinalizesOrFails(r) ==
  /\ step[r] = "finalizing"
  /\ \/ InPlace(Finalize(r, Settled(r))) /\ Goto(r, "completing") /\ UNCHANGED <<reason, reply>>
     \/ Lost(InPlace(Finalize(r, Settled(r)))) /\ Fails(r)
  /\ UNCHANGED <<candidate, attempts, cost, executed>>

FinalizesUsage(r) ==
  /\ step[r] = "finalizing"
  /\ \/ /\ InPlace(Finalize(r, Settled(r))) \/ (FinalizeReplayed(r, Settled(r)) /\ Nothing)
        /\ Goto(r, "completing") /\ UNCHANGED <<reason, reply>>
     \/ /\ Lost(InPlace(Finalize(r, Settled(r))))
        /\ Again(r) \/ (Finish(r, "delivered") /\ UNCHANGED reason)
  /\ UNCHANGED <<candidate, attempts, cost, executed>>

Completes(r) ==
  /\ step[r] = "completing"
  /\ Lost(Complete(r))
  /\ Again(r) \/ (Finish(r, "delivered") /\ UNCHANGED reason)
  /\ UNCHANGED <<candidate, attempts, cost, executed>>

-----------------------------------------------------------------------------
\* The process that runs the handler stops: the client gets nothing more.
HandlerDies(r) ==
  /\ step[r] \notin {"arriving", "done", "dead"}
  /\ Goto(r, "dead")
  /\ Nothing /\ UNCHANGED <<candidate, attempts, cost, reason, reply, executed>>

HandlerStep(r) ==
  \/ Starts(r) \/ StartRefused(r) \/ Calls(r) \/ FailsOperation(r) \/ RecordsFailure(r) \/ MarksUnknown(r)
  \/ PersistsIntent(r) \/ FinalizesUsage(r) \/ Completes(r) \/ HandlerDies(r)

GatewayNext ==
  \/ (\E r \in Requests : HandlerStep(r)) /\ UNCHANGED recoveryVars
  \/ RecoveryStep /\ UNCHANGED handlerVars
  \/ InPlace(WalletStep) /\ UNCHANGED <<recoveryVars, handlerVars>>

(* Handlers need no fairness: whatever becomes of them, the loop goes on.   *)
GatewayFairness ==
  /\ WF_gatewayVars(ListPendingSettlements /\ UNCHANGED handlerVars)
  /\ \A r \in Requests :
       /\ SF_gatewayVars(RecoverFinalize(r) /\ UNCHANGED handlerVars)
       /\ SF_gatewayVars(RecoverComplete(r) /\ UNCHANGED handlerVars)

GatewayInit == Init /\ RecoveryInit /\ HandlerInit
GatewaySpec == GatewayInit /\ [][GatewayNext]_gatewayVars
FairGatewaySpec == GatewaySpec /\ GatewayFairness
-----------------------------------------------------------------------------
(* Properties.                                                              *)

\* A call is carried out at most once, however often a client sends it under
\* one idempotency key and however calls to the upstream break: README.md:40.
ExecutedOncePerKey ==
  \A r, s \in Requests : executed[r] > 0 /\ executed[s] > 0 /\ IdemKey[r] = IdemKey[s]
    => r = s /\ executed[r] = 1

(* What a client is told and what its wallet is charged agree, whatever     *)
(* fails and whoever goes on.  A complete answer leaves the gateway only    *)
(* when its price is on record: no crash after it can make the call free    *)
(* (docs/api.md:213).  A client that is told the call failed is never       *)
(* charged for it, then or later.  One that is told its reservation is      *)
(* kept, because nobody knows whether the call happened, has it kept:       *)
(* nothing settles or releases it.                                          *)
Delivered(r) ==
  /\ status[r] \in {"pending_settlement", "completed"}
  /\ cost[r] = IF status[r] = "completed" THEN usage[r].cost ELSE snapshot[r]

IsFree(r) == status[r] \in {"processing", "failed"} /\ ~HasSuccess(r)

IsHeld(r) == status[r] \in {"processing", "pending_unknown"} /\ Debited(r) = Estimate[r]

AnswersAreTrue ==
  \A r \in Requests :
    /\ reply[r] = "delivered" => Delivered(r)
    /\ reply[r] = "failed" => IsFree(r)
    /\ reply[r] = "held" => IsHeld(r)

\* Handlers never leave a failed usage row, another cost or another hold under
\* an operation that waits for its settlement, so Finalize succeeds there as
\* soon as the wallet can hold the difference: a failed row would make the
\* store refuse it for ever.
HasRoom(u, difference) == MinInt64 <= balance[u] + difference /\ balance[u] + difference <= MaxInt64

PendingCanSettle ==
  \A r \in Requests : status[r] = "pending_settlement" /\ HasRoom(Owner[r], reserved[r] - snapshot[r]) =>
    LET input == [reserved |-> reserved[r], cost |-> snapshot[r]] IN
    FinalizeAccepted(r, input) \/ FinalizeReplayed(r, input)

\* Once the intent is stored the operation is completed, whatever dies.
IntentIsCompleted ==
  \A r \in Requests : status[r] = "pending_settlement" ~> status[r] = "completed"
=============================================================================
