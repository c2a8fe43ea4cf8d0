------------------------------ MODULE Billing ------------------------------
(***************************************************************************)
(* The billing store of the gateway: wallets, their ledger entries, the     *)
(* gateway operations and the usage rows (internal/billing).  Every method  *)
(* of the store is one MySQL transaction that locks the rows it decides on, *)
(* so a method is one action here; module Locking takes the transactions    *)
(* apart and shows that this is justified.                                  *)
(*                                                                          *)
(* The callers are unconstrained: any method may be called at any moment,   *)
(* in any order, any number of times.  Whatever holds here holds for every  *)
(* handler, retry, recovery loop and replica that share the database.       *)
(*                                                                          *)
(* A ledger entry is stored as its amount under (reference, type), and 0    *)
(* means that the row does not exist: the code never writes a zero amount.  *)
(***************************************************************************)
EXTENDS Integers, FiniteSetsExt

CONSTANTS
  Users,        \* owners of wallets
  Requests,     \* request ids; a request id is also the id of its operation
  Owner,        \* the user a request is authenticated as
  IdemKey,      \* the (API key, idempotency key hash) a request carries
  Digest,       \* the (request hash, endpoint) a request carries
  Amounts,      \* what may be reserved, and what a call may turn out to cost
  FailureCodes, \* reasons stored with an operation or with a failed usage row
  NoCode,       \* the empty reason
  AdjustRefs,   \* reference ids of manual adjustments
  AdjustAmounts,\* amounts of manual adjustments
  LegacyUsage,  \* usage rows that older releases left behind, by id
  MaxAmount,    \* service.go: no single amount exceeds 10^15 micros
  MaxInt64,     \* the largest balance the column holds
  MinInt64      \* the smallest

ASSUME BillingAssumption ==
  /\ Owner \in [Requests -> Users]
  /\ \A r, s \in Requests : IdemKey[r] = IdemKey[s] => Owner[r] = Owner[s]
  /\ Amounts \subseteq Nat
  /\ AdjustAmounts \subseteq Int \ {0}
  /\ NoCode \notin FailureCodes
  /\ \A l \in DOMAIN LegacyUsage : LegacyUsage[l].user \in Users /\ LegacyUsage[l].cost \in Nat
  /\ IsFiniteSet(Requests) /\ IsFiniteSet(AdjustRefs) /\ IsFiniteSet(DOMAIN LegacyUsage)
  /\ MaxAmount \in Nat /\ MaxInt64 \in Nat /\ MinInt64 \in Int /\ MinInt64 <= 0

VARIABLES
  balance,      \* wallets.balance_micros, by user
  reservation,  \* usage_reservation entries, by request: what was put aside, as a debit
  refund,       \* usage_refund entries: what came back of it
  settlement,   \* usage_settlement entries: what was debited on top of it
  status,       \* gateway_operations.status, "absent" before the row exists
  reserved,     \* gateway_operations.reserved_micros
  snapshot,     \* the cost in gateway_operations.settlement_json, or NoSnapshot
  failureCode,  \* gateway_operations.failure_code
  usage,        \* api_usages, by request_id
  adjustment,   \* manual_adjustment entries, by wallet and reference
  compensation  \* usage_compensation entries, by legacy usage row

entryVars == <<reservation, refund, settlement>>
vars == <<balance, reservation, refund, settlement, status, reserved, snapshot, failureCode, usage, adjustment, compensation>>

Statuses == {"absent", "processing", "pending_settlement", "pending_unknown", "completed", "failed"}
NoSnapshot == -1
UsageRows == [kind : {"none", "failed", "success"}, cost : Nat, code : FailureCodes \cup {NoCode}]
NoUsage == [kind |-> "none", cost |-> 0, code |-> NoCode]
UsageInputs == [reserved : Amounts, cost : Amounts]

TypeOK ==
  /\ balance \in [Users -> Int]
  /\ reservation \in [Requests -> Int] /\ refund \in [Requests -> Nat] /\ settlement \in [Requests -> Int]
  /\ status \in [Requests -> Statuses]
  /\ reserved \in [Requests -> Nat]
  /\ snapshot \in [Requests -> Nat \cup {NoSnapshot}]
  /\ failureCode \in [Requests -> FailureCodes \cup {NoCode}]
  /\ usage \in [Requests -> UsageRows]
  /\ adjustment \in [Users -> [AdjustRefs -> Int]]
  /\ compensation \in [DOMAIN LegacyUsage -> Nat]

Init ==
  /\ balance = [u \in Users |-> 0]
  /\ reservation = [r \in Requests |-> 0]
  /\ refund = [r \in Requests |-> 0]
  /\ settlement = [r \in Requests |-> 0]
  /\ status = [r \in Requests |-> "absent"]
  /\ reserved = [r \in Requests |-> 0]
  /\ snapshot = [r \in Requests |-> NoSnapshot]
  /\ failureCode = [r \in Requests |-> NoCode]
  /\ usage = [r \in Requests |-> NoUsage]
  /\ adjustment = [u \in Users |-> [a \in AdjustRefs |-> 0]]
  /\ compensation = [l \in DOMAIN LegacyUsage |-> 0]

-----------------------------------------------------------------------------
(* Queries the methods share.                                              *)

\* A variant that forgets the status code of the row.
HasAnyUsage(r) == usage[r].kind # "none"

HasSuccess(r) == usage[r].kind = "success"   \* a row with status_code < 400

\* The reservation entry the operation says it made is really in the ledger.
ReservationMatches(r) == reserved[r] > 0 => reservation[r] = -reserved[r]

\* A variant that looks for the same request instead of for the same key.
ExistingSameRequest(r) ==
  {x \in Requests : status[x] # "absent" /\ IdemKey[x] = IdemKey[r] /\ Digest[x] = Digest[r]}

\* Operations already stored under the API key and idempotency key of r.
Existing(r) == {x \in Requests : status[x] # "absent" /\ IdemKey[x] = IdemKey[r]}

ValidUsage(input) == input.cost <= MaxAmount /\ (input.reserved = 0 => input.cost = 0)

-----------------------------------------------------------------------------
(* StartOperation: the outcomes in the order the code tries them.           *)

StartReplayed(r) == \E x \in Existing(r) : Digest[x] = Digest[r]
StartConflict(r) == Existing(r) # {} /\ ~StartReplayed(r)
StartInsufficient(r, amount) == Existing(r) = {} /\ balance[Owner[r]] < amount
\* A variant that trusts the balance the handler saw earlier.
StartUnchecked(r, amount) == status[r] = "absent" /\ Existing(r) = {} /\ amount <= MaxAmount

StartCreated(r, amount) ==
  /\ status[r] = "absent" /\ Existing(r) = {}
  /\ amount <= MaxAmount /\ amount <= balance[Owner[r]]

\* Takes the hold and creates the operation in one transaction.
StartOperation(r, amount) ==
  /\ StartCreated(r, amount)
  /\ balance' = [balance EXCEPT ![Owner[r]] = @ - amount]
  /\ reservation' = [reservation EXCEPT ![r] = -amount]
  /\ status' = [status EXCEPT ![r] = "processing"]
  /\ reserved' = [reserved EXCEPT ![r] = amount]
  /\ UNCHANGED <<refund, settlement, snapshot, failureCode, usage, adjustment, compensation>>

-----------------------------------------------------------------------------
(* MarkOperationPendingSettlement: fixes what the call cost before any      *)
(* money moves.                                                             *)

MarkSettlementReplayed(r, input) ==
  ValidUsage(input) /\ status[r] = "completed" /\ input.reserved = reserved[r] /\ HasSuccess(r)

\* A variant that lets a later intent replace the one that is stored.
MarkSettlementRewrites(r, input) ==
  ValidUsage(input) /\ input.reserved = reserved[r] /\ status[r] \in {"processing", "pending_settlement"}

MarkSettlementAccepted(r, input) ==
  /\ ValidUsage(input) /\ input.reserved = reserved[r]
  /\ \/ status[r] = "processing"
     \/ status[r] = "pending_settlement" /\ snapshot[r] = input.cost

MarkOperationPendingSettlement(r, input) ==
  /\ MarkSettlementAccepted(r, input)
  /\ status' = [status EXCEPT ![r] = "pending_settlement"]
  /\ snapshot' = [snapshot EXCEPT ![r] = input.cost]
  /\ failureCode' = [failureCode EXCEPT ![r] = NoCode]
  /\ UNCHANGED <<balance, entryVars, reserved, usage, adjustment, compensation>>

-----------------------------------------------------------------------------
(* MarkOperationPendingUnknown: the upstream may have done the work.        *)

MarkUnknownReplayed(r, reason) == status[r] = "pending_unknown" /\ failureCode[r] = reason
\* A variant that lets a late uncertainty overtake the settlement.
MarkUnknownLate(r) == status[r] \in {"processing", "pending_settlement"}

MarkUnknownAccepted(r) == status[r] = "processing"

MarkOperationPendingUnknown(r, reason) ==
  /\ MarkUnknownAccepted(r)
  /\ status' = [status EXCEPT ![r] = "pending_unknown"]
  /\ failureCode' = [failureCode EXCEPT ![r] = reason]
  /\ UNCHANGED <<balance, entryVars, reserved, snapshot, usage, adjustment, compensation>>

-----------------------------------------------------------------------------
(* Finalize: the difference between the hold and the cost, and the usage    *)
(* row, in one transaction.  The operation stays pending_settlement.        *)

\* A variant that takes a second finalization before the completion for a conflict.
FinalizeReplayedLate(r, input) ==
  ValidUsage(input) /\ input.reserved = reserved[r] /\ status[r] = "completed" /\ HasSuccess(r) /\ usage[r].cost = input.cost

\* A row that says the same thing is a repeated call, not an error.
FinalizeReplayed(r, input) ==
  /\ ValidUsage(input) /\ input.reserved = reserved[r]
  /\ status[r] \in {"pending_settlement", "completed"}
  /\ HasSuccess(r) /\ usage[r].cost = input.cost

\* A variant that writes the difference whatever its sign.
RefundDifference(input) == input.reserved - input.cost

\* The entry that returns what was held beyond the cost, and the one that
\* takes what the hold did not cover.
RefundEntry(input) == IF input.reserved > input.cost THEN input.reserved - input.cost ELSE 0
SettlementEntry(input) == IF input.reserved < input.cost THEN input.reserved - input.cost ELSE 0

FinalizeAccepted(r, input) ==
  LET wallet == balance[Owner[r]] IN
  /\ ValidUsage(input) /\ input.reserved = reserved[r]
  /\ status[r] = "pending_settlement" /\ snapshot[r] = input.cost
  /\ usage[r].kind = "none"
  /\ ReservationMatches(r)
  /\ refund[r] = 0
  /\ RefundEntry(input) > 0 => wallet <= MaxInt64 - RefundEntry(input)
  /\ SettlementEntry(input) < 0 => settlement[r] \in {0, SettlementEntry(input)}
  /\ SettlementEntry(input) < 0 /\ settlement[r] = 0 => wallet >= MinInt64 - SettlementEntry(input)

Finalize(r, input) ==
  LET extra == IF settlement[r] = 0 THEN SettlementEntry(input) ELSE 0 IN
  /\ FinalizeAccepted(r, input)
  /\ balance' = [balance EXCEPT ![Owner[r]] = @ + RefundEntry(input) + extra]
  /\ refund' = [refund EXCEPT ![r] = RefundEntry(input)]
  /\ settlement' = [settlement EXCEPT ![r] = @ + extra]
  /\ usage' = [usage EXCEPT ![r] = [kind |-> "success", cost |-> input.cost, code |-> NoCode]]
  /\ UNCHANGED <<reservation, status, reserved, snapshot, failureCode, adjustment, compensation>>

-----------------------------------------------------------------------------
(* CompleteOperation                                                        *)

CompleteReplayed(r) == status[r] = "completed"
CompleteAccepted(r) == status[r] = "pending_settlement" /\ HasSuccess(r)

CompleteOperation(r) ==
  /\ CompleteAccepted(r)
  /\ status' = [status EXCEPT ![r] = "completed"]
  /\ snapshot' = [snapshot EXCEPT ![r] = NoSnapshot]
  /\ UNCHANGED <<balance, entryVars, reserved, failureCode, usage, adjustment, compensation>>

-----------------------------------------------------------------------------
(* FailOperation: gives the hold back, once.                                *)

FailReplayed(r, code) == status[r] = "failed" /\ failureCode[r] = code

\* A variant that releases whatever is not yet completed.
FailUndecided(r) == status[r] \in {"processing", "pending_settlement", "pending_unknown"}

\* A variant without the overflow check.
FailUnbounded(r) == status[r] = "processing" /\ ~HasSuccess(r) /\ ReservationMatches(r)

FailAccepted(r) ==
  /\ status[r] = "processing"
  /\ ~HasSuccess(r)
  /\ ReservationMatches(r)
  /\ refund[r] = 0 /\ reserved[r] > 0 => balance[Owner[r]] <= MaxInt64 - reserved[r]

FailOperation(r, code) ==
  LET released == IF refund[r] = 0 THEN reserved[r] ELSE 0 IN
  /\ FailAccepted(r)
  /\ balance' = [balance EXCEPT ![Owner[r]] = @ + released]
  /\ refund' = [refund EXCEPT ![r] = @ + released]
  /\ status' = [status EXCEPT ![r] = "failed"]
  /\ failureCode' = [failureCode EXCEPT ![r] = code]
  /\ snapshot' = [snapshot EXCEPT ![r] = NoSnapshot]
  /\ UNCHANGED <<reservation, settlement, reserved, usage, adjustment, compensation>>

-----------------------------------------------------------------------------
(* RecordFailure: read, then insert, outside any transaction.  The unique   *)
(* request_id makes the insert fail if a row has appeared in between, so    *)
(* the method as a whole inserts only where there is no row.                *)

RecordFailure(r, code) ==
  /\ usage[r].kind = "none"
  /\ usage' = [usage EXCEPT ![r] = [kind |-> "failed", cost |-> 0, code |-> code]]
  /\ UNCHANGED <<balance, entryVars, status, reserved, snapshot, failureCode, adjustment, compensation>>

-----------------------------------------------------------------------------
(* Adjust: an administrator credits or debits a wallet.  A second call      *)
(* under the same reference is a replay or a conflict and changes nothing.  *)

InRange(u, amount) == IF amount < 0 THEN balance[u] >= -amount ELSE balance[u] <= MaxInt64 - amount

\* A variant that does not look for an earlier entry under the reference.
AdjustRepeated(u, ref, amount) == -MaxAmount <= amount /\ amount <= MaxAmount /\ InRange(u, amount)

AdjustAccepted(u, ref, amount) ==
  adjustment[u][ref] = 0 /\ -MaxAmount <= amount /\ amount <= MaxAmount /\ InRange(u, amount)

Adjust(u, ref, amount) ==
  /\ AdjustAccepted(u, ref, amount)
  /\ balance' = [balance EXCEPT ![u] = @ + amount]
  /\ adjustment' = [adjustment EXCEPT ![u][ref] = amount]
  /\ UNCHANGED <<entryVars, status, reserved, snapshot, failureCode, usage, compensation>>

-----------------------------------------------------------------------------
(* CompensateLegacyUsage: gives back what an estimate of an older release   *)
(* charged.  Rows of the current release are never eligible.                *)

Eligible(row) == row.success /\ row.estimated /\ row.version = "token-v2" /\ row.cost > 0

CompensateLegacyUsage(l) ==
  LET row == LegacyUsage[l] IN
  /\ Eligible(row)
  /\ compensation[l] = 0
  /\ balance[row.user] <= MaxInt64 - row.cost
  /\ balance' = [balance EXCEPT ![row.user] = @ + row.cost]
  /\ compensation' = [compensation EXCEPT ![l] = row.cost]
  /\ UNCHANGED <<entryVars, status, reserved, snapshot, failureCode, usage, adjustment>>

-----------------------------------------------------------------------------
OperationStep(r) ==
  \/ \E amount \in Amounts : StartOperation(r, amount)
  \/ \E input \in UsageInputs : MarkOperationPendingSettlement(r, input)
  \/ \E reason \in FailureCodes : MarkOperationPendingUnknown(r, reason)
  \/ \E input \in UsageInputs : Finalize(r, input)
  \/ CompleteOperation(r)
  \/ \E code \in FailureCodes : FailOperation(r, code)
  \/ \E code \in FailureCodes : RecordFailure(r, code)

WalletStep ==
  \/ \E u \in Users, ref \in AdjustRefs, amount \in AdjustAmounts : Adjust(u, ref, amount)
  \/ \E l \in DOMAIN LegacyUsage : CompensateLegacyUsage(l)

Next == WalletStep \/ \E r \in Requests : OperationStep(r)

Spec == Init /\ [][Next]_vars
-----------------------------------------------------------------------------
(* Properties.                                                              *)

\* What the ledger says request r has cost its owner so far.
Debited(r) == -(reservation[r] + refund[r] + settlement[r])

\* The reservation of r as the wallet summary counts it: no successful usage
\* row and no refund entry under the same reference.
ActiveHold(r) == IF ~HasSuccess(r) /\ refund[r] = 0 THEN -reservation[r] ELSE 0

\* Whatever order the methods are called in, every micro a request has debited
\* is either a hold the wallet summary shows (GetSummary) or the cost in its
\* usage row: nothing is lost between Finalize, FailOperation and RecordFailure.
DebitIsHoldOrCost == \A r \in Requests : Debited(r) = ActiveHold(r) + usage[r].cost

\* The status an operation is in and the money it has moved agree: a completed
\* one cost exactly its usage row, a failed one nothing, an undecided one holds
\* exactly its reservation, and pending_settlement is one of the first and last.
StatusAgreesWithLedger ==
  \A r \in Requests :
    /\ status[r] \in {"absent", "failed"} => ~HasSuccess(r) /\ Debited(r) = 0
    /\ status[r] \in {"processing", "pending_unknown"} => ~HasSuccess(r) /\ Debited(r) = reserved[r]
    /\ status[r] = "pending_settlement" => Debited(r) = (IF HasSuccess(r) THEN snapshot[r] ELSE reserved[r])
    /\ status[r] = "completed" => HasSuccess(r) /\ Debited(r) = usage[r].cost

\* A wallet equals the sum of its entries: no balance update of any method
\* (all of them write an absolute value) is without its entry, or twice.
SumOver(f, S) == MapThenSumSet(LAMBDA x : f[x], S)
AdjustedBy(u) == SumOver(adjustment[u], AdjustRefs)
CompensatedTo(u) == SumOver(compensation, {l \in DOMAIN LegacyUsage : LegacyUsage[l].user = u})
DebitedFrom(u) == SumOver([r \in Requests |-> Debited(r)], {r \in Requests : Owner[r] = u})
BalanceIsSumOfEntries ==
  \A u \in Users : balance[u] = AdjustedBy(u) + CompensatedTo(u) - DebitedFrom(u)

\* A wallet is below zero only after some call of its owner turned out to cost
\* more than was held for it: reservations and adjustments never overdraw.
OverdraftOnlyBySettlement ==
  \A u \in Users : balance[u] < 0 => \E r \in Requests : Owner[r] = u /\ settlement[r] < 0

\* One idempotency key stands for at most one operation, hence for at most one
\* hold, however many requests carry it.
OneOperationPerKey ==
  \A r, s \in Requests :
    r # s /\ status[r] # "absent" /\ status[s] # "absent" => IdemKey[r] # IdemKey[s]

\* The range checks before every credit and debit keep the balance in its column.
BalanceFits == \A u \in Users : MinInt64 <= balance[u] /\ balance[u] <= MaxInt64

\* The audit trail is append-only: an entry or a usage row, once written, is
\* never rewritten, and completed and failed are final.
AuditTrailGrowsOnly ==
  [][\A r \in Requests :
       /\ reservation[r] # 0 => reservation'[r] = reservation[r]
       /\ refund[r] # 0 => refund'[r] = refund[r]
       /\ settlement[r] # 0 => settlement'[r] = settlement[r]
       /\ usage[r].kind # "none" => usage'[r] = usage[r]
       /\ status[r] \in {"completed", "failed"} => status'[r] = status[r]]_vars

\* A call whose upstream result is unknown is frozen: nothing the program runs
\* settles it, refunds it or takes it back to another status.
UnknownIsFrozen ==
  [][\A r \in Requests : status[r] = "pending_unknown" =>
       /\ status'[r] = "pending_unknown" /\ failureCode'[r] = failureCode[r]
       /\ Debited(r)' = Debited(r)]_vars

\* The ledger implements the escrow: what the wallet summary shows as held is
\* what is put aside, and what has left the wallet for good is the charge.
Phase(r) ==
  CASE HasSuccess(r) -> "charged"
    [] ~HasSuccess(r) /\ status[r] = "absent" -> "none"
    [] ~HasSuccess(r) /\ status[r] = "failed" -> "released"
    [] OTHER -> "held"
AccountEscrow == INSTANCE Escrow WITH
  account <- balance,
  phase <- [r \in Requests |-> Phase(r)],
  hold <- [r \in Requests |-> ActiveHold(r)],
  charge <- [r \in Requests |-> Debited(r) - ActiveHold(r)]
ImplementsEscrow == AccountEscrow!EscrowSpec
=============================================================================
