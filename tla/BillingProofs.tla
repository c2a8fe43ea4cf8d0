---------------------------- MODULE BillingProofs ----------------------------
(* Proofs about module Billing, for every set of users and requests, every  *)
(* assignment of idempotency keys and every range of amounts: what its      *)
(* ledger keeps, and that it implements Escrow.                             *)
EXTENDS Billing, FiniteSetTheorems, WellFoundedInduction, TLAPS

USE DEF Statuses, NoSnapshot, entryVars

(* The ledger of one request in each of the three situations it can be in.  *)
Held(r) ==
  /\ reservation[r] + reserved[r] = 0 /\ refund[r] = 0 /\ settlement[r] = 0
  /\ ~HasSuccess(r)

Charged(r) ==
  /\ HasSuccess(r)
  /\ reservation[r] + reserved[r] = 0
  /\ refund[r] = RefundEntry([reserved |-> reserved[r], cost |-> usage[r].cost])
  /\ settlement[r] = SettlementEntry([reserved |-> reserved[r], cost |-> usage[r].cost])

Released(r) ==
  /\ reservation[r] + reserved[r] = 0 /\ refund[r] = reserved[r] /\ settlement[r] = 0
  /\ ~HasSuccess(r)

\* The inductive invariant: the status says which situation it is.  Only
\* pending_settlement leaves it open, because Finalize moves the money and
\* CompleteOperation moves the status in two transactions.
RequestInv(r) ==
  /\ ~HasSuccess(r) => usage[r].cost = 0
  /\ status[r] = "absent" => Held(r) /\ reserved[r] = 0
  /\ status[r] \in {"processing", "pending_unknown"} => Held(r)
  /\ status[r] = "pending_settlement" => Held(r) \/ (Charged(r) /\ usage[r].cost = snapshot[r])
  /\ status[r] = "completed" => Charged(r)
  /\ status[r] = "failed" => Released(r)
LedgerInv == \A r \in Requests : RequestInv(r)

-----------------------------------------------------------------------------
(* The entries Finalize writes add up to the difference it has to settle.   *)
LEMMA EntriesOfDifference ==
  ASSUME NEW input \in [reserved : Nat, cost : Nat]
  PROVE  /\ RefundEntry(input) \in Nat
         /\ SettlementEntry(input) \in Int
         /\ SettlementEntry(input) <= 0
         /\ RefundEntry(input) + SettlementEntry(input) = input.reserved - input.cost
BY DEF RefundEntry, SettlementEntry

(* Before the first call nothing is held, charged or released.              *)
LEMMA InitInv == Init => TypeOK /\ LedgerInv
<1> SUFFICES ASSUME Init PROVE TypeOK /\ LedgerInv
  OBVIOUS
<1>1. TypeOK
  <2>1. NoUsage \in UsageRows
    BY DEF NoUsage, UsageRows
  <2> QED BY <2>1 DEF Init, TypeOK
<1>2. ASSUME NEW r \in Requests PROVE RequestInv(r)
  <2>1. status[r] = "absent" /\ reserved[r] = 0 /\ reservation[r] = 0 /\ refund[r] = 0 /\ settlement[r] = 0
    BY DEF Init
  <2>2. usage[r].kind = "none" /\ usage[r].cost = 0
    BY DEF Init, NoUsage
  <2>3. Held(r)
    BY <2>1, <2>2 DEF Held, HasSuccess
  <2> QED BY <2>1, <2>2, <2>3 DEF RequestInv
<1> QED BY <1>1, <1>2 DEF LedgerInv

(* No action leaves the types, whatever its arguments.                      *)
LEMMA TypeStep == TypeOK /\ [Next]_vars => TypeOK'
<1> SUFFICES ASSUME TypeOK, [Next]_vars PROVE TypeOK'
  OBVIOUS
<1>1. ASSUME NEW r \in Requests, NEW amount \in Amounts, StartOperation(r, amount) PROVE TypeOK'
  <2>1. amount \in Nat /\ Owner[r] \in Users
    BY BillingAssumption
  <2> QED BY <1>1, <2>1 DEF TypeOK, StartOperation, StartCreated
<1>2. ASSUME NEW r \in Requests, NEW input \in UsageInputs, MarkOperationPendingSettlement(r, input) PROVE TypeOK'
  <2>1. input.cost \in Nat
    BY BillingAssumption DEF UsageInputs
  <2> QED BY <1>2, <2>1 DEF TypeOK, MarkOperationPendingSettlement
<1>3. ASSUME NEW r \in Requests, NEW reason \in FailureCodes, MarkOperationPendingUnknown(r, reason) PROVE TypeOK'
  BY <1>3 DEF TypeOK, MarkOperationPendingUnknown
<1>4. ASSUME NEW r \in Requests, NEW input \in UsageInputs, Finalize(r, input) PROVE TypeOK'
  <2>1. input \in [reserved : Nat, cost : Nat] /\ Owner[r] \in Users
    BY BillingAssumption DEF UsageInputs
  <2>2. usage' \in [Requests -> UsageRows]
    BY <1>4, <2>1 DEF TypeOK, Finalize, UsageRows
  <2>3. /\ balance' \in [Users -> Int] /\ refund' \in [Requests -> Nat]
        /\ settlement' \in [Requests -> Int]
    BY <1>4, <2>1, EntriesOfDifference DEF TypeOK, Finalize
  <2> QED BY <1>4, <2>2, <2>3 DEF TypeOK, Finalize
<1>5. ASSUME NEW r \in Requests, CompleteOperation(r) PROVE TypeOK'
  BY <1>5 DEF TypeOK, CompleteOperation
<1>6. ASSUME NEW r \in Requests, NEW code \in FailureCodes, FailOperation(r, code) PROVE TypeOK'
  <2>1. balance' \in [Users -> Int] /\ refund' \in [Requests -> Nat]
    <3>1. Owner[r] \in Users
      BY BillingAssumption
    <3> QED BY <1>6, <3>1 DEF TypeOK, FailOperation
  <2> QED BY <1>6, <2>1 DEF TypeOK, FailOperation
<1>7. ASSUME NEW r \in Requests, NEW code \in FailureCodes, RecordFailure(r, code) PROVE TypeOK'
  <2>1. usage' \in [Requests -> UsageRows]
    BY <1>7 DEF TypeOK, RecordFailure, UsageRows
  <2> QED BY <1>7, <2>1 DEF TypeOK, RecordFailure
<1>8. ASSUME NEW u \in Users, NEW ref \in AdjustRefs, NEW amount \in AdjustAmounts, Adjust(u, ref, amount) PROVE TypeOK'
  <2>1. amount \in Int
    BY BillingAssumption
  <2>2. balance' \in [Users -> Int]
    BY <1>8, <2>1 DEF TypeOK, Adjust
  <2>3. adjustment' \in [Users -> [AdjustRefs -> Int]]
    BY <1>8, <2>1 DEF TypeOK, Adjust
  <2> QED BY <1>8, <2>2, <2>3 DEF TypeOK, Adjust
<1>9. ASSUME NEW l \in DOMAIN LegacyUsage, CompensateLegacyUsage(l) PROVE TypeOK'
  <2>1. LegacyUsage[l].cost \in Nat /\ LegacyUsage[l].user \in Users
    BY BillingAssumption
  <2>2. balance' \in [Users -> Int] /\ compensation' \in [DOMAIN LegacyUsage -> Nat]
    BY <1>9, <2>1 DEF TypeOK, CompensateLegacyUsage
  <2> QED BY <1>9, <2>2 DEF TypeOK, CompensateLegacyUsage
<1>10. CASE UNCHANGED vars
  BY <1>10 DEF TypeOK, vars
<1> QED
  BY <1>1, <1>2, <1>3, <1>4, <1>5, <1>6, <1>7, <1>8, <1>9, <1>10 DEF Next, WalletStep, OperationStep

(* Every reachable state is well typed; in particular no refund is negative *)
(* whatever a call cost.                                                    *)
THEOREM TypeCorrect == Spec => []TypeOK
BY InitInv, TypeStep, PTL DEF Spec
-----------------------------------------------------------------------------
(* The entries of every request stay what its status says, at each method.  *)
LEMMA LedgerStep == TypeOK /\ LedgerInv /\ [Next]_vars => LedgerInv'
<1> SUFFICES ASSUME TypeOK, LedgerInv, [Next]_vars, NEW q \in Requests PROVE RequestInv(q)'
  BY DEF LedgerInv
<1> USE DEF TypeOK, UsageRows, HasSuccess, Held
<1>0. RequestInv(q)
  BY DEF LedgerInv
<1>1. ASSUME NEW r \in Requests, NEW amount \in Amounts, StartOperation(r, amount) PROVE RequestInv(q)'
  BY <1>0, <1>1, BillingAssumption DEF RequestInv, StartOperation, StartCreated, Charged, Released
<1>2. ASSUME NEW r \in Requests, NEW input \in UsageInputs, MarkOperationPendingSettlement(r, input) PROVE RequestInv(q)'
  BY <1>0, <1>2 DEF RequestInv, MarkOperationPendingSettlement, MarkSettlementAccepted, Charged, Released
<1>3. ASSUME NEW r \in Requests, NEW reason \in FailureCodes, MarkOperationPendingUnknown(r, reason) PROVE RequestInv(q)'
  BY <1>0, <1>3 DEF RequestInv, MarkOperationPendingUnknown, MarkUnknownAccepted, Charged, Released
<1>4. ASSUME NEW r \in Requests, NEW input \in UsageInputs, Finalize(r, input) PROVE RequestInv(q)'
  <2>1. input \in [reserved : Nat, cost : Nat]
    BY BillingAssumption DEF UsageInputs
  <2>2. status[r] = "pending_settlement" /\ snapshot[r] = input.cost /\ reserved[r] = input.reserved /\ ~HasSuccess(r)
    BY <1>4 DEF Finalize, FinalizeAccepted
  <2>3. CASE q # r
    BY <1>0, <1>4, <2>3 DEF RequestInv, Finalize, Charged, Released
  <2>4. CASE q = r
    <3>1. Held(r)
      BY <1>0, <2>2, <2>4 DEF RequestInv, Charged
    <3>2. /\ refund'[r] = RefundEntry(input) /\ settlement'[r] = SettlementEntry(input)
          /\ usage'[r].kind = "success" /\ usage'[r].cost = input.cost
      BY <1>4, <2>1, <3>1, EntriesOfDifference DEF Finalize
    <3>3. input = [reserved |-> reserved'[r], cost |-> usage'[r].cost]
      BY <1>4, <2>1, <2>2, <3>2 DEF Finalize
    <3>4. Charged(r)' /\ usage'[r].cost = snapshot'[r]
      BY <1>4, <2>2, <3>1, <3>2, <3>3 DEF Finalize, Charged
    <3> QED BY <1>4, <2>2, <2>4, <3>4 DEF RequestInv, Finalize, Charged
  <2> QED BY <2>3, <2>4
<1>5. ASSUME NEW r \in Requests, CompleteOperation(r) PROVE RequestInv(q)'
  BY <1>0, <1>5 DEF RequestInv, CompleteOperation, CompleteAccepted, Charged, Released
<1>6. ASSUME NEW r \in Requests, NEW code \in FailureCodes, FailOperation(r, code) PROVE RequestInv(q)'
  BY <1>0, <1>6 DEF RequestInv, FailOperation, FailAccepted, Charged, Released
<1>7. ASSUME NEW r \in Requests, NEW code \in FailureCodes, RecordFailure(r, code) PROVE RequestInv(q)'
  BY <1>0, <1>7 DEF RequestInv, RecordFailure, Charged, Released
<1>8. ASSUME NEW u \in Users, NEW ref \in AdjustRefs, NEW amount \in AdjustAmounts, Adjust(u, ref, amount) PROVE RequestInv(q)'
  BY <1>0, <1>8 DEF RequestInv, Adjust, Charged, Released
<1>9. ASSUME NEW l \in DOMAIN LegacyUsage, CompensateLegacyUsage(l) PROVE RequestInv(q)'
  BY <1>0, <1>9 DEF RequestInv, CompensateLegacyUsage, Charged, Released
<1>10. CASE UNCHANGED vars
  BY <1>0, <1>10 DEF RequestInv, vars, Charged, Released
<1> QED
  BY <1>1, <1>2, <1>3, <1>4, <1>5, <1>6, <1>7, <1>8, <1>9, <1>10 DEF Next, WalletStep, OperationStep

(* The status of every operation and the entries of its request agree in    *)
(* every reachable state, for any callers.                                  *)
THEOREM LedgerInvariant == Spec => [](TypeOK /\ LedgerInv)
BY InitInv, TypeStep, LedgerStep, PTL DEF Spec

(* The invariant says more than the two properties the runs check.          *)
LEMMA LedgerInvImplies == TypeOK /\ LedgerInv => StatusAgreesWithLedger /\ DebitIsHoldOrCost
<1> SUFFICES ASSUME TypeOK, LedgerInv, NEW r \in Requests
    PROVE  /\ status[r] \in {"absent", "failed"} => ~HasSuccess(r) /\ Debited(r) = 0
           /\ status[r] \in {"processing", "pending_unknown"} => ~HasSuccess(r) /\ Debited(r) = reserved[r]
           /\ status[r] = "pending_settlement" => Debited(r) = (IF HasSuccess(r) THEN snapshot[r] ELSE reserved[r])
           /\ status[r] = "completed" => HasSuccess(r) /\ Debited(r) = usage[r].cost
           /\ Debited(r) = ActiveHold(r) + usage[r].cost
  BY DEF StatusAgreesWithLedger, DebitIsHoldOrCost
<1>1. /\ RequestInv(r) /\ status[r] \in Statuses /\ usage[r].cost \in Nat
      /\ reserved[r] \in Nat /\ reservation[r] \in Int /\ refund[r] \in Nat /\ settlement[r] \in Int
  BY DEF LedgerInv, TypeOK, UsageRows
<1>2. Held(r) => Debited(r) = reserved[r] /\ ~HasSuccess(r) /\ ActiveHold(r) = reserved[r]
  BY <1>1 DEF Held, Debited, ActiveHold
<1>3. Charged(r) => Debited(r) = usage[r].cost /\ HasSuccess(r) /\ ActiveHold(r) = 0
  <2> DEFINE input == [reserved |-> reserved[r], cost |-> usage[r].cost]
  <2>1. input \in [reserved : Nat, cost : Nat] /\ input.reserved = reserved[r] /\ input.cost = usage[r].cost
    BY <1>1
  <2> HIDE DEF input
  <2>2. /\ RefundEntry(input) \in Nat /\ SettlementEntry(input) \in Int
        /\ RefundEntry(input) + SettlementEntry(input) = reserved[r] - usage[r].cost
    BY <2>1, EntriesOfDifference
  <2> SUFFICES ASSUME Charged(r) PROVE Debited(r) = usage[r].cost /\ HasSuccess(r) /\ ActiveHold(r) = 0
    OBVIOUS
  <2>3. reservation[r] + reserved[r] = 0 /\ refund[r] = RefundEntry(input) /\ settlement[r] = SettlementEntry(input)
    BY DEF Charged, input
  <2>4. Debited(r) = usage[r].cost
    BY <1>1, <2>2, <2>3 DEF Debited
  <2> QED BY <2>4 DEF Charged, ActiveHold
<1>4. Released(r) => Debited(r) = 0 /\ ~HasSuccess(r) /\ ActiveHold(r) = 0
  BY <1>1 DEF Released, Debited, ActiveHold
<1>5. Debited(r) \in Int /\ (~HasSuccess(r) => usage[r].cost = 0)
  BY <1>1 DEF TypeOK, Debited, RequestInv
<1>6. CASE Held(r)
  BY <1>1, <1>2, <1>3, <1>4, <1>5, <1>6 DEF RequestInv
<1>7. CASE Charged(r)
  BY <1>1, <1>2, <1>3, <1>4, <1>5, <1>7 DEF RequestInv
<1>8. CASE Released(r)
  BY <1>1, <1>2, <1>3, <1>4, <1>5, <1>8 DEF RequestInv
<1>9. Held(r) \/ Charged(r) \/ Released(r)
  BY <1>1 DEF RequestInv
<1> QED BY <1>6, <1>7, <1>8, <1>9

(* The money an operation has moved is what its status says, always.        *)
THEOREM StatusTheorem == Spec => []StatusAgreesWithLedger
BY LedgerInvariant, LedgerInvImplies, PTL

(* What the wallet summary shows as held and what the usage rows show as    *)
(* spent account for every debit, always.                                   *)
THEOREM DebitTheorem == Spec => []DebitIsHoldOrCost
BY LedgerInvariant, LedgerInvImplies, PTL

-----------------------------------------------------------------------------
(* One idempotency key never stands for two operations, whoever races.      *)
LEMMA KeyStep == TypeOK /\ OneOperationPerKey /\ [Next]_vars => OneOperationPerKey'
<1> SUFFICES ASSUME TypeOK, OneOperationPerKey, [Next]_vars, NEW r \in Requests, NEW s \in Requests, r # s,
                    status'[r] # "absent", status'[s] # "absent"
             PROVE  IdemKey[r] # IdemKey[s]
  BY DEF OneOperationPerKey
<1>1. ASSUME NEW x \in Requests, NEW amount \in Amounts, StartOperation(x, amount) PROVE IdemKey[r] # IdemKey[s]
  <2>1. \A y \in Requests : status[y] # "absent" => IdemKey[y] # IdemKey[x]
    BY <1>1 DEF StartOperation, StartCreated, Existing
  <2>2. \A y \in Requests : y # x => status'[y] = status[y]
    BY <1>1 DEF StartOperation
  <2> QED BY <2>1, <2>2 DEF OneOperationPerKey
<1>2. CASE \A y \in Requests : status[y] = "absent" => status'[y] = "absent"
  BY <1>2 DEF OneOperationPerKey
<1>3. CASE UNCHANGED vars
  BY <1>2, <1>3 DEF vars
<1>4. CASE WalletStep
  BY <1>2, <1>4 DEF WalletStep, Adjust, CompensateLegacyUsage
<1>5. ASSUME NEW x \in Requests, OperationStep(x), ~\E amount \in Amounts : StartOperation(x, amount)
      PROVE  \A y \in Requests : status[y] = "absent" => status'[y] = "absent"
  <2>1. CASE status' = status
    BY <2>1
  <2>2. ASSUME NEW new \in Statuses, status[x] # "absent", status' = [status EXCEPT ![x] = new]
        PROVE  \A y \in Requests : status[y] = "absent" => status'[y] = "absent"
    BY <2>2 DEF TypeOK
  <2> QED
    BY <1>5, <2>1, <2>2 DEF OperationStep, MarkOperationPendingSettlement, MarkSettlementAccepted, MarkOperationPendingUnknown,
       MarkUnknownAccepted, Finalize, CompleteOperation, CompleteAccepted, FailOperation, FailAccepted, RecordFailure
<1> QED BY <1>1, <1>2, <1>3, <1>4, <1>5 DEF Next

(* Hence no two stored operations share a key, whatever is called in which  *)
(* order: a retried or raced request never takes a second hold.             *)
THEOREM KeyTheorem == Spec => []OneOperationPerKey
<1>1. Init => OneOperationPerKey
  BY DEF Init, OneOperationPerKey
<1> QED BY <1>1, KeyStep, TypeCorrect, PTL DEF Spec

-----------------------------------------------------------------------------
(* The audit trail only grows, and a call with an unknown result is frozen. *)
TrailKept(r) ==
  /\ reservation[r] # 0 => reservation'[r] = reservation[r]
  /\ refund[r] # 0 => refund'[r] = refund[r]
  /\ settlement[r] # 0 => settlement'[r] = settlement[r]
  /\ usage[r].kind # "none" => usage'[r] = usage[r]
  /\ status[r] \in {"completed", "failed"} => status'[r] = status[r]
  /\ status[r] = "pending_unknown" =>
       /\ status'[r] = "pending_unknown" /\ failureCode'[r] = failureCode[r]
       /\ reservation'[r] = reservation[r] /\ refund'[r] = refund[r] /\ settlement'[r] = settlement[r]

(* One step keeps every entry, usage row and final status there is.          *)
LEMMA TrailStep == TypeOK /\ LedgerInv /\ [Next]_vars => \A r \in Requests : TrailKept(r)
<1> SUFFICES ASSUME TypeOK, LedgerInv, [Next]_vars, NEW q \in Requests PROVE TrailKept(q)
  OBVIOUS
<1> USE DEF TypeOK
<1>0. RequestInv(q)
  BY DEF LedgerInv
<1>1. ASSUME NEW r \in Requests, NEW amount \in Amounts, StartOperation(r, amount) PROVE TrailKept(q)
  BY <1>0, <1>1 DEF TrailKept, RequestInv, Held, StartOperation, StartCreated
<1>2. ASSUME NEW r \in Requests, NEW input \in UsageInputs, MarkOperationPendingSettlement(r, input) PROVE TrailKept(q)
  BY <1>2 DEF TrailKept, MarkOperationPendingSettlement, MarkSettlementAccepted
<1>3. ASSUME NEW r \in Requests, NEW reason \in FailureCodes, MarkOperationPendingUnknown(r, reason) PROVE TrailKept(q)
  BY <1>3 DEF TrailKept, MarkOperationPendingUnknown, MarkUnknownAccepted
<1>4. ASSUME NEW r \in Requests, NEW input \in UsageInputs, Finalize(r, input) PROVE TrailKept(q)
  <2>1. q # r \/ (refund[q] = 0 /\ settlement[q] = 0 /\ usage[q].kind = "none" /\ status[q] = "pending_settlement")
    BY <1>0, <1>4 DEF RequestInv, Held, Charged, HasSuccess, Finalize, FinalizeAccepted
  <2> QED BY <1>4, <2>1 DEF TrailKept, Finalize
<1>5. ASSUME NEW r \in Requests, CompleteOperation(r) PROVE TrailKept(q)
  BY <1>5 DEF TrailKept, CompleteOperation, CompleteAccepted
<1>6. ASSUME NEW r \in Requests, NEW code \in FailureCodes, FailOperation(r, code) PROVE TrailKept(q)
  BY <1>0, <1>6 DEF TrailKept, RequestInv, Held, FailOperation, FailAccepted
<1>7. ASSUME NEW r \in Requests, NEW code \in FailureCodes, RecordFailure(r, code) PROVE TrailKept(q)
  BY <1>7 DEF TrailKept, RecordFailure
<1>8. ASSUME NEW u \in Users, NEW ref \in AdjustRefs, NEW amount \in AdjustAmounts, Adjust(u, ref, amount) PROVE TrailKept(q)
  BY <1>8 DEF TrailKept, Adjust
<1>9. ASSUME NEW l \in DOMAIN LegacyUsage, CompensateLegacyUsage(l) PROVE TrailKept(q)
  BY <1>9 DEF TrailKept, CompensateLegacyUsage
<1>10. CASE UNCHANGED vars
  BY <1>10 DEF TrailKept, vars
<1> QED
  BY <1>1, <1>2, <1>3, <1>4, <1>5, <1>6, <1>7, <1>8, <1>9, <1>10 DEF Next, WalletStep, OperationStep

(* No entry, usage row or final status is ever rewritten.                   *)
THEOREM AuditTheorem == Spec => AuditTrailGrowsOnly
<1>1. TypeOK /\ LedgerInv /\ [Next]_vars =>
        [\A r \in Requests :
           /\ reservation[r] # 0 => reservation'[r] = reservation[r]
           /\ refund[r] # 0 => refund'[r] = refund[r]
           /\ settlement[r] # 0 => settlement'[r] = settlement[r]
           /\ usage[r].kind # "none" => usage'[r] = usage[r]
           /\ status[r] \in {"completed", "failed"} => status'[r] = status[r]]_vars
  BY TrailStep DEF TrailKept
<1> QED BY <1>1, LedgerInvariant, PTL DEF Spec, AuditTrailGrowsOnly

(* No method settles, refunds or reopens a call whose result is unknown.    *)
THEOREM UnknownTheorem == Spec => UnknownIsFrozen
<1>1. TypeOK /\ LedgerInv /\ [Next]_vars =>
        [\A r \in Requests : status[r] = "pending_unknown" =>
           /\ status'[r] = "pending_unknown" /\ failureCode'[r] = failureCode[r]
           /\ Debited(r)' = Debited(r)]_vars
  BY TrailStep DEF TrailKept, Debited
<1> QED BY <1>1, LedgerInvariant, PTL DEF Spec, UnknownIsFrozen
-----------------------------------------------------------------------------
(***************************************************************************)
(* Sums over finite sets.  What a fold computes cannot be proved by an      *)
(* induction rule here; a set of which a claim fails, and of which it holds *)
(* once any element is taken out, takes the place of the induction.         *)
(***************************************************************************)
Numbers(f, S) == \A x \in S : f[x] \in Int

\* g is a table of the sums over all subsets of S.
IsSum(g, f, S) ==
  /\ g \in [SUBSET S -> Int] /\ g[{}] = 0
  /\ \A U \in SUBSET S : \A x \in U : g[U] = f[x] + g[U \ {x}]

\* The recursion of the fold behind SumOver.
Chosen(s) == CHOOSE x \in s : TRUE
IsFold(g, f, S) == g = [s \in SUBSET S |-> IF s = {} THEN 0 ELSE f[Chosen(s)] + g[s \ {Chosen(s)}]]

(* A nonempty set of numbers has a least one.                               *)
LEMMA LeastNumber ==
  ASSUME NEW N \in SUBSET Nat, N # {}
  PROVE  \E n \in N : \A m \in N : n <= m
<1> DEFINE R == {p \in Nat \X Nat : p[1] < p[2]}
<1>1. IsWellFoundedOn(R, Nat)
  BY NatLessThanWellFounded DEF OpToRel
<1>2. \A m, n \in Nat : m < n => <<m, n>> \in R
  OBVIOUS
<1> HIDE DEF R
<1>3. PICK n \in N : \A m \in N : <<m, n>> \notin R
  BY <1>1, WFMin
<1>4. ASSUME NEW m \in N PROVE n <= m
  <2>1. ~(m < n)
    BY <1>2, <1>3
  <2> QED BY <2>1
<1> QED BY <1>4

(* Of the subsets with which something is wrong, one is minimal.            *)
LEMMA MinimalSubset ==
  ASSUME NEW S, IsFiniteSet(S), NEW Bad \in SUBSET (SUBSET S), Bad # {}
  PROVE  \E T \in Bad : \A x \in T : T \ {x} \notin Bad
<1>1. \A T \in SUBSET S : IsFiniteSet(T) /\ Cardinality(T) \in Nat
  BY FS_Subset, FS_CardinalityType
<1> DEFINE sizes == {Cardinality(T) : T \in Bad}
<1>2. sizes \in SUBSET Nat /\ sizes # {}
  BY <1>1
<1>3. PICK n \in sizes : \A m \in sizes : n <= m
  <2> HIDE DEF sizes
  <2> QED BY <1>2, LeastNumber
<1>4. PICK T \in Bad : Cardinality(T) = n
  BY <1>3
<1>5. ASSUME NEW x \in T, T \ {x} \in Bad PROVE FALSE
  <2>1. Cardinality(T \ {x}) = Cardinality(T) - 1
    BY <1>1, <1>4, FS_RemoveElement
  <2>2. Cardinality(T) <= Cardinality(T \ {x})
    BY <1>3, <1>4, <1>5
  <2> QED BY <1>1, <2>1, <2>2
<1> QED BY <1>4, <1>5

(* A table of sums over T without x gives one over T.                       *)
LEMMA SumGrows ==
  ASSUME NEW f, NEW T, NEW x \in T, Numbers(f, T), NEW g, IsSum(g, f, T \ {x})
  PROVE  \E h : IsSum(h, f, T)
<1> DEFINE h == [U \in SUBSET T |-> IF x \in U THEN f[x] + g[U \ {x}] ELSE g[U]]
<1>1. \A U \in SUBSET T : U \ {x} \in SUBSET (T \ {x}) /\ (x \notin U => U \in SUBSET (T \ {x}))
  OBVIOUS
<1>2. \A U \in SUBSET (T \ {x}) : g[U] \in Int
  BY DEF IsSum
<1>3. h \in [SUBSET T -> Int]
  BY <1>1, <1>2 DEF Numbers
<1>4. h[{}] = 0
  BY DEF IsSum
<1>5. ASSUME NEW U \in SUBSET T, NEW y \in U PROVE h[U] = f[y] + h[U \ {y}]
  <2>0. U \ {y} \in SUBSET T /\ f[x] \in Int /\ f[y] \in Int
    BY DEF Numbers
  <2>1. CASE x \notin U
    <3>1. U \in SUBSET (T \ {x}) /\ h[U] = g[U] /\ h[U \ {y}] = g[U \ {y}]
      BY <2>0, <2>1
    <3> QED BY <3>1 DEF IsSum
  <2>2. CASE x \in U /\ y = x
    BY <2>0, <2>2
  <2>3. CASE x \in U /\ y # x
    <3>1. h[U] = f[x] + g[U \ {x}] /\ h[U \ {y}] = f[x] + g[(U \ {y}) \ {x}]
      BY <2>0, <2>3
    <3>2. g[U \ {x}] = f[y] + g[(U \ {x}) \ {y}]
      BY <1>1, <2>3 DEF IsSum
    <3>3. (U \ {y}) \ {x} = (U \ {x}) \ {y} /\ (U \ {x}) \ {y} \in SUBSET (T \ {x})
      OBVIOUS
    <3>4. g[(U \ {x}) \ {y}] \in Int
      BY <1>2, <3>3
    <3> HIDE DEF h
    <3>5. PICK rest \in Int : rest = g[(U \ {x}) \ {y}]
      BY <3>4
    <3>6. h[U] = f[x] + (f[y] + rest) /\ h[U \ {y}] = f[x] + rest
      BY <3>1, <3>2, <3>3, <3>5
    <3> QED BY <2>0, <3>6
  <2> QED BY <2>1, <2>2, <2>3
<1> HIDE DEF h
<1> QED BY <1>3, <1>4, <1>5 DEF IsSum

LEMMA SumExists ==
  ASSUME NEW f, NEW S, IsFiniteSet(S), Numbers(f, S)
  PROVE  \E g : IsSum(g, f, S)
<1> DEFINE Bad == {T \in SUBSET S : ~\E g : IsSum(g, f, T)}
<1>1. ASSUME NEW T \in Bad, \A x \in T : T \ {x} \notin Bad PROVE FALSE
  <2>1. CASE T = {}
    <3> DEFINE g == [U \in SUBSET T |-> 0]
    <3>1. IsSum(g, f, T)
      BY <2>1 DEF IsSum
    <3> QED BY <3>1
  <2>2. ASSUME NEW x \in T PROVE FALSE
    <3>1. PICK g : IsSum(g, f, T \ {x})
      BY <1>1
    <3>2. Numbers(f, T)
      BY DEF Numbers
    <3>3. \E h : IsSum(h, f, T)
      BY <3>1, <3>2, SumGrows
    <3> QED BY <3>3
  <2> QED BY <2>1, <2>2
<1>2. Bad = {}
  <2> HIDE DEF Bad
  <2>1. Bad \in SUBSET (SUBSET S)
    BY DEF Bad
  <2> QED BY <1>1, <2>1, MinimalSubset
<1> QED BY <1>2

(* The fold computes that table.                                            *)
LEMMA FoldIsSum ==
  ASSUME NEW f, NEW S, IsFiniteSet(S), NEW g, IsSum(g, f, S)
  PROVE  SumOver(f, S) = g[S]
<1> DEFINE h == CHOOSE fold : IsFold(fold, f, S)
<1>1. SumOver(f, S) = h[S]
  BY DEF SumOver, MapThenSumSet, MapThenFoldSet, IsFold, Chosen
<1>2. IsFold(g, f, S)
  <2>1. g = [s \in SUBSET S |-> g[s]]
    BY DEF IsSum
  <2>2. ASSUME NEW s \in SUBSET S PROVE g[s] = IF s = {} THEN 0 ELSE f[Chosen(s)] + g[s \ {Chosen(s)}]
    BY DEF IsSum, Chosen
  <2> QED BY <2>1, <2>2 DEF IsFold
<1>3. IsFold(h, f, S)
  BY <1>2
<1> HIDE DEF h
<1> DEFINE Bad == {T \in SUBSET S : h[T] # g[T]}
<1>4. \A s \in SUBSET S : h[s] = IF s = {} THEN 0 ELSE f[Chosen(s)] + h[s \ {Chosen(s)}]
  BY <1>3 DEF IsFold
<1>5. ASSUME NEW T \in Bad, \A x \in T : T \ {x} \notin Bad PROVE FALSE
  <2>1. CASE T = {}
    BY <1>4, <2>1 DEF IsSum
  <2>2. CASE T # {}
    <3>1. Chosen(T) \in T
      BY <2>2 DEF Chosen
    <3>2. T \ {Chosen(T)} \in SUBSET S /\ h[T \ {Chosen(T)}] = g[T \ {Chosen(T)}]
      BY <1>5, <3>1
    <3>3. h[T] = f[Chosen(T)] + h[T \ {Chosen(T)}]
      BY <1>4, <2>2
    <3>4. g[T] = f[Chosen(T)] + g[T \ {Chosen(T)}]
      BY <3>1 DEF IsSum
    <3> QED BY <3>2, <3>3, <3>4
  <2> QED BY <2>1, <2>2
<1>6. Bad = {}
  <2> HIDE DEF Bad
  <2>1. Bad \in SUBSET (SUBSET S)
    BY DEF Bad
  <2> QED BY <1>5, <2>1, MinimalSubset
<1> QED BY <1>1, <1>6

(* What is known of SumOver from here on.                                   *)
LEMMA SumFacts ==
  ASSUME NEW f, NEW S, IsFiniteSet(S), Numbers(f, S)
  PROVE  /\ SumOver(f, S) \in Int
         /\ \A x \in S : SumOver(f, S) = f[x] + SumOver(f, S \ {x})
<1>1. PICK g : IsSum(g, f, S)
  BY SumExists
<1>2. SumOver(f, S) = g[S] /\ g[S] \in Int
  <2>1. SumOver(f, S) = g[S]
    BY <1>1, FoldIsSum
  <2>2. g[S] \in Int
    BY <1>1 DEF IsSum
  <2> QED BY <2>1, <2>2
<1>3. ASSUME NEW x \in S PROVE SumOver(f, S \ {x}) = g[S \ {x}]
  <2> DEFINE h == [U \in SUBSET (S \ {x}) |-> g[U]]
  <2>1. h \in [SUBSET (S \ {x}) -> Int] /\ \A U \in SUBSET (S \ {x}) : h[U] = g[U]
    BY <1>1 DEF IsSum
  <2>2. ASSUME NEW U \in SUBSET (S \ {x}), NEW y \in U PROVE h[U] = f[y] + h[U \ {y}]
    <3>1. U \in SUBSET S /\ U \ {y} \in SUBSET (S \ {x})
      OBVIOUS
    <3> QED BY <1>1, <2>1, <3>1 DEF IsSum
  <2>3. h[{}] = 0
    BY <1>1, <2>1 DEF IsSum
  <2> HIDE DEF h
  <2>4. IsSum(h, f, S \ {x})
    BY <2>1, <2>2, <2>3 DEF IsSum
  <2>5. IsFiniteSet(S \ {x})
    BY FS_RemoveElement
  <2>6. SumOver(f, S \ {x}) = h[S \ {x}]
    BY <2>4, <2>5, FoldIsSum
  <2> QED BY <2>1, <2>6
<1>4. \A x \in S : g[S] = f[x] + g[S \ {x}]
  BY <1>1 DEF IsSum
<1> QED BY <1>2, <1>3, <1>4

LEMMA SumSame ==
  ASSUME NEW f, NEW h, NEW S, IsFiniteSet(S), Numbers(f, S), \A x \in S : f[x] = h[x]
  PROVE  SumOver(f, S) = SumOver(h, S)
<1>1. PICK g : IsSum(g, f, S)
  BY SumExists
<1>2. IsSum(g, h, S)
  BY <1>1 DEF IsSum
<1> QED BY <1>1, <1>2, FoldIsSum

LEMMA SumZero ==
  ASSUME NEW f, NEW S, IsFiniteSet(S), \A x \in S : f[x] = 0
  PROVE  SumOver(f, S) = 0
<1> DEFINE g == [U \in SUBSET S |-> 0]
<1>1. IsSum(g, f, S)
  BY DEF IsSum
<1>2. g[S] = 0
  OBVIOUS
<1> HIDE DEF g
<1> QED BY <1>1, <1>2, FoldIsSum

(* One entry that changes moves the sum by as much.                         *)
LEMMA SumMoves ==
  ASSUME NEW f, NEW h, NEW S, IsFiniteSet(S), Numbers(f, S), Numbers(h, S),
         NEW x \in S, \A y \in S \ {x} : f[y] = h[y]
  PROVE  SumOver(h, S) = SumOver(f, S) + h[x] - f[x]
<1>1. IsFiniteSet(S \ {x}) /\ Numbers(f, S \ {x})
  BY FS_RemoveElement DEF Numbers
<1>2. SumOver(f, S \ {x}) = SumOver(h, S \ {x}) /\ SumOver(f, S \ {x}) \in Int
  BY <1>1, SumSame, SumFacts
<1>3. SumOver(f, S) = f[x] + SumOver(f, S \ {x}) /\ SumOver(h, S) = h[x] + SumOver(h, S \ {x})
  BY SumFacts
<1>4. f[x] \in Int /\ h[x] \in Int
  BY DEF Numbers
<1> QED BY <1>2, <1>3, <1>4

-----------------------------------------------------------------------------
(* The wallet and its entries.  Each method adds to the balance what it     *)
(* adds to the entries of that wallet; entries it does not write stay.      *)
RequestsOf(u) == {r \in Requests : Owner[r] = u}
LegacyOf(u) == {l \in DOMAIN LegacyUsage : LegacyUsage[l].user = u}
DebitsByRequest == [r \in Requests |-> Debited(r)]

LEMMA Entries ==
  ASSUME TypeOK, NEW u \in Users
  PROVE  /\ IsFiniteSet(RequestsOf(u)) /\ IsFiniteSet(LegacyOf(u)) /\ IsFiniteSet(AdjustRefs)
         /\ Numbers(DebitsByRequest, RequestsOf(u)) /\ Numbers(compensation, LegacyOf(u)) /\ Numbers(adjustment[u], AdjustRefs)
         /\ AdjustedBy(u) \in Int /\ CompensatedTo(u) \in Int /\ DebitedFrom(u) \in Int
<1>1. IsFiniteSet(RequestsOf(u)) /\ IsFiniteSet(LegacyOf(u)) /\ IsFiniteSet(AdjustRefs)
  BY BillingAssumption, FS_Subset DEF RequestsOf, LegacyOf
<1>2. \A r \in Requests : Debited(r) \in Int
  BY DEF TypeOK, Debited
<1>3. Numbers(DebitsByRequest, RequestsOf(u)) /\ Numbers(compensation, LegacyOf(u)) /\ Numbers(adjustment[u], AdjustRefs)
  BY <1>2 DEF TypeOK, Numbers, DebitsByRequest, RequestsOf, LegacyOf
<1>4. AdjustedBy(u) \in Int /\ CompensatedTo(u) \in Int /\ DebitedFrom(u) \in Int
  BY <1>1, <1>3, SumFacts DEF AdjustedBy, CompensatedTo, DebitedFrom, DebitsByRequest, RequestsOf, LegacyOf
<1> QED BY <1>1, <1>3, <1>4

(* Entries that no method writes leave the sums alone.                      *)
LEMMA EntriesStay ==
  ASSUME TypeOK, NEW u \in Users
  PROVE  /\ adjustment'[u] = adjustment[u] => AdjustedBy(u)' = AdjustedBy(u)
         /\ compensation' = compensation => CompensatedTo(u)' = CompensatedTo(u)
         /\ (\A r \in RequestsOf(u) : Debited(r)' = Debited(r)) => DebitedFrom(u)' = DebitedFrom(u)
<1>1. adjustment'[u] = adjustment[u] => AdjustedBy(u)' = AdjustedBy(u)
  BY DEF AdjustedBy
<1>2. compensation' = compensation => CompensatedTo(u)' = CompensatedTo(u)
  BY DEF CompensatedTo
<1>3. ASSUME \A r \in RequestsOf(u) : Debited(r)' = Debited(r) PROVE DebitedFrom(u)' = DebitedFrom(u)
  <2>1. \A r \in RequestsOf(u) : DebitsByRequest[r] = DebitsByRequest'[r]
    BY <1>3 DEF DebitsByRequest, RequestsOf
  <2>2. SumOver(DebitsByRequest, RequestsOf(u)) = SumOver(DebitsByRequest', RequestsOf(u))
    BY <2>1, Entries, SumSame
  <2> QED BY <2>2 DEF DebitedFrom, DebitsByRequest, RequestsOf
<1> QED BY <1>1, <1>2, <1>3

(* A request whose entries change moves the sum of its owner.               *)
LEMMA DebitMoves ==
  ASSUME TypeOK, TypeOK', NEW r \in Requests, \A q \in Requests \ {r} : Debited(q)' = Debited(q), NEW u \in Users
  PROVE  DebitedFrom(u)' = DebitedFrom(u) + (IF u = Owner[r] THEN Debited(r)' - Debited(r) ELSE 0)
<1>1. CASE u # Owner[r]
  <2>1. DebitedFrom(u)' = DebitedFrom(u)
    BY <1>1, EntriesStay DEF RequestsOf
  <2> QED BY <1>1, <2>1, Entries
<1>2. CASE u = Owner[r]
  <2>1. Numbers(DebitsByRequest', RequestsOf(u))
    <3>1. \A q \in Requests : Debited(q)' \in Int
      BY DEF TypeOK, Debited
    <3> QED BY <3>1 DEF Numbers, DebitsByRequest, RequestsOf
  <2>2. r \in RequestsOf(u) /\ \A q \in RequestsOf(u) \ {r} : DebitsByRequest[q] = DebitsByRequest'[q]
    BY <1>2 DEF DebitsByRequest, RequestsOf
  <2>3. SumOver(DebitsByRequest', RequestsOf(u)) = SumOver(DebitsByRequest, RequestsOf(u)) + DebitsByRequest'[r] - DebitsByRequest[r]
    BY <2>1, <2>2, Entries, SumMoves
  <2>4. DebitsByRequest'[r] = Debited(r)' /\ DebitsByRequest[r] = Debited(r)
    BY DEF DebitsByRequest
  <2>5. Debited(r)' \in Int /\ Debited(r) \in Int
    BY DEF TypeOK, Debited
  <2>6. DebitedFrom(u)' = SumOver(DebitsByRequest', RequestsOf(u)) /\ DebitedFrom(u) = SumOver(DebitsByRequest, RequestsOf(u))
    BY DEF DebitedFrom, DebitsByRequest, RequestsOf
  <2> QED BY <1>2, <2>3, <2>4, <2>5, <2>6, Entries
<1> QED BY <1>1, <1>2

\* What has to be shown of a step: the balance moves with the entries.
Moves(u) ==
  balance'[u] - balance[u] =
    (AdjustedBy(u)' - AdjustedBy(u)) + (CompensatedTo(u)' - CompensatedTo(u)) - (DebitedFrom(u)' - DebitedFrom(u))

(* A method that writes entries of one request.                             *)
LEMMA RequestMoves ==
  ASSUME TypeOK, TypeOK', NEW r \in Requests, NEW u \in Users,
         adjustment' = adjustment, compensation' = compensation,
         \A q \in Requests \ {r} :
           reservation'[q] = reservation[q] /\ refund'[q] = refund[q] /\ settlement'[q] = settlement[q],
         NEW amount \in Int, Debited(r)' = Debited(r) - amount,
         balance' = [balance EXCEPT ![Owner[r]] = @ + amount]
  PROVE  Moves(u)
<1>1. \A q \in Requests \ {r} : Debited(q)' = Debited(q)
  BY DEF Debited
<1>2. Debited(r) \in Int /\ balance \in [Users -> Int]
  BY DEF TypeOK, Debited
<1>3. DebitedFrom(u)' = DebitedFrom(u) - (IF u = Owner[r] THEN amount ELSE 0)
  <2>1. DebitedFrom(u)' = DebitedFrom(u) + (IF u = Owner[r] THEN Debited(r)' - Debited(r) ELSE 0)
    BY <1>1, DebitMoves
  <2> QED BY <1>2, <2>1, Entries
<1>4. AdjustedBy(u)' = AdjustedBy(u) /\ CompensatedTo(u)' = CompensatedTo(u)
  BY EntriesStay
<1>5. balance'[u] = balance[u] + (IF u = Owner[r] THEN amount ELSE 0)
  BY <1>2
<1> QED BY <1>2, <1>3, <1>4, <1>5, Entries DEF Moves

(* A method that writes no entry and no balance.                            *)
LEMMA NothingMoves ==
  ASSUME TypeOK, NEW u \in Users, UNCHANGED <<balance, entryVars, adjustment, compensation>>
  PROVE  Moves(u)
<1>1. \A r : Debited(r)' = Debited(r)
  BY DEF Debited
<1>2. AdjustedBy(u)' = AdjustedBy(u) /\ CompensatedTo(u)' = CompensatedTo(u) /\ DebitedFrom(u)' = DebitedFrom(u)
  BY <1>1, EntriesStay
<1>3. balance[u] \in Int
  BY DEF TypeOK
<1> QED BY <1>2, <1>3, Entries DEF Moves

LEMMA BalanceMoves ==
  ASSUME TypeOK, TypeOK', LedgerInv, [Next]_vars, NEW u \in Users
  PROVE  Moves(u)
<1>1. ASSUME NEW r \in Requests, NEW amount \in Amounts, StartOperation(r, amount) PROVE Moves(u)
  <2>1. amount \in Nat /\ reservation[r] = 0
    BY <1>1, BillingAssumption DEF LedgerInv, RequestInv, Held, TypeOK, StartOperation, StartCreated
  <2>2. Debited(r)' = Debited(r) - (-amount) /\ -amount \in Int
    BY <1>1, <2>1 DEF StartOperation, Debited, TypeOK
  <2>3. balance' = [balance EXCEPT ![Owner[r]] = @ + (-amount)]
    BY <1>1, <2>1, BillingAssumption DEF StartOperation, TypeOK
  <2>4. /\ adjustment' = adjustment /\ compensation' = compensation
        /\ \A q \in Requests \ {r} : reservation'[q] = reservation[q] /\ refund'[q] = refund[q] /\ settlement'[q] = settlement[q]
    BY <1>1 DEF StartOperation, TypeOK
  <2> QED BY <2>2, <2>3, <2>4, RequestMoves
<1>2. ASSUME NEW r \in Requests, NEW input \in UsageInputs, Finalize(r, input) PROVE Moves(u)
  <2> DEFINE extra == IF settlement[r] = 0 THEN SettlementEntry(input) ELSE 0
             amount == RefundEntry(input) + extra
  <2>1. input \in [reserved : Nat, cost : Nat]
    BY BillingAssumption DEF UsageInputs
  <2>2. RefundEntry(input) \in Nat /\ extra \in Int /\ amount \in Int
    BY <2>1, EntriesOfDifference
  <2>3. /\ adjustment' = adjustment /\ compensation' = compensation /\ reservation' = reservation /\ refund[r] = 0
        /\ refund' = [refund EXCEPT ![r] = RefundEntry(input)] /\ settlement' = [settlement EXCEPT ![r] = @ + extra]
        /\ balance' = [balance EXCEPT ![Owner[r]] = @ + RefundEntry(input) + extra]
    BY <1>2 DEF Finalize, FinalizeAccepted
  <2> HIDE DEF extra
  <2>4. Debited(r)' = Debited(r) - amount
    BY <2>2, <2>3 DEF Debited, TypeOK
  <2>5. balance' = [balance EXCEPT ![Owner[r]] = @ + amount]
    <3>1. balance[Owner[r]] + RefundEntry(input) + extra = balance[Owner[r]] + amount
      <4>1. balance[Owner[r]] \in Int
        BY BillingAssumption DEF TypeOK
      <4> QED BY <2>2, <4>1
    <3> QED BY <2>3, <3>1
  <2>6. \A q \in Requests \ {r} : reservation'[q] = reservation[q] /\ refund'[q] = refund[q] /\ settlement'[q] = settlement[q]
    BY <2>3 DEF TypeOK
  <2> HIDE DEF amount
  <2> QED BY <2>2, <2>3, <2>4, <2>5, <2>6, RequestMoves
<1>3. ASSUME NEW r \in Requests, NEW code \in FailureCodes, FailOperation(r, code) PROVE Moves(u)
  <2> DEFINE amount == IF refund[r] = 0 THEN reserved[r] ELSE 0
  <2>1. amount \in Int
    BY DEF TypeOK
  <2>2. /\ adjustment' = adjustment /\ compensation' = compensation /\ reservation' = reservation /\ settlement' = settlement
        /\ refund' = [refund EXCEPT ![r] = @ + amount] /\ balance' = [balance EXCEPT ![Owner[r]] = @ + amount]
    BY <1>3 DEF FailOperation
  <2> HIDE DEF amount
  <2>3. Debited(r)' = Debited(r) - amount
    BY <2>1, <2>2 DEF Debited, TypeOK
  <2>4. \A q \in Requests \ {r} : reservation'[q] = reservation[q] /\ refund'[q] = refund[q] /\ settlement'[q] = settlement[q]
    BY <2>2 DEF TypeOK
  <2> QED BY <2>1, <2>2, <2>3, <2>4, RequestMoves
<1>4. ASSUME NEW v \in Users, NEW ref \in AdjustRefs, NEW amount \in AdjustAmounts, Adjust(v, ref, amount) PROVE Moves(u)
  <2>1. amount \in Int /\ adjustment[v][ref] = 0
    BY <1>4, BillingAssumption DEF Adjust, AdjustAccepted
  <2>2. /\ balance' = [balance EXCEPT ![v] = @ + amount] /\ adjustment' = [adjustment EXCEPT ![v][ref] = amount]
        /\ UNCHANGED <<entryVars, compensation>>
    BY <1>4 DEF Adjust
  <2>3. balance[u] \in Int /\ balance'[u] = balance[u] + (IF u = v THEN amount ELSE 0)
    BY <2>1, <2>2 DEF TypeOK
  <2>4. \A r : Debited(r)' = Debited(r)
    BY <2>2 DEF Debited
  <2>5. CompensatedTo(u)' = CompensatedTo(u) /\ DebitedFrom(u)' = DebitedFrom(u)
    BY <2>2, <2>4, EntriesStay
  <2>6. AdjustedBy(u)' = AdjustedBy(u) + (IF u = v THEN amount ELSE 0)
    <3>1. CASE u # v
      <4>1. adjustment'[u] = adjustment[u]
        BY <2>2, <3>1 DEF TypeOK
      <4> QED BY <3>1, <4>1, EntriesStay, Entries
    <3>2. CASE u = v
      <4>1. Numbers(adjustment'[u], AdjustRefs)
        BY DEF TypeOK, Numbers
      <4>2. adjustment'[u][ref] = amount /\ \A x \in AdjustRefs \ {ref} : adjustment[u][x] = adjustment'[u][x]
        BY <2>2, <3>2 DEF TypeOK
      <4>3. SumOver(adjustment'[u], AdjustRefs) = SumOver(adjustment[u], AdjustRefs) + adjustment'[u][ref] - adjustment[u][ref]
        BY <4>1, <4>2, Entries, SumMoves
      <4> QED BY <2>1, <3>2, <4>2, <4>3, Entries DEF AdjustedBy
    <3> QED BY <3>1, <3>2
  <2> QED BY <2>1, <2>3, <2>5, <2>6, Entries DEF Moves
<1>5. ASSUME NEW l \in DOMAIN LegacyUsage, CompensateLegacyUsage(l) PROVE Moves(u)
  <2> DEFINE v == LegacyUsage[l].user
             amount == LegacyUsage[l].cost
  <2>1. amount \in Int /\ v \in Users /\ compensation[l] = 0
    BY <1>5, BillingAssumption DEF CompensateLegacyUsage
  <2>2. /\ balance' = [balance EXCEPT ![v] = @ + amount] /\ compensation' = [compensation EXCEPT ![l] = amount]
        /\ UNCHANGED <<entryVars, adjustment>>
    BY <1>5 DEF CompensateLegacyUsage
  <2>3. balance[u] \in Int /\ balance'[u] = balance[u] + (IF u = v THEN amount ELSE 0)
    BY <2>1, <2>2 DEF TypeOK
  <2>4. \A r : Debited(r)' = Debited(r)
    BY <2>2 DEF Debited
  <2>5. AdjustedBy(u)' = AdjustedBy(u) /\ DebitedFrom(u)' = DebitedFrom(u)
    BY <2>2, <2>4, EntriesStay
  <2>6. CompensatedTo(u)' = CompensatedTo(u) + (IF u = v THEN amount ELSE 0)
    <3>1. Numbers(compensation', LegacyOf(u))
      BY DEF TypeOK, Numbers, LegacyOf
    <3>2. compensation'[l] = amount /\ \A x \in DOMAIN LegacyUsage \ {l} : compensation[x] = compensation'[x]
      BY <2>2 DEF TypeOK
    <3>3. CASE u # v
      <4>1. \A x \in LegacyOf(u) : compensation[x] = compensation'[x]
        BY <3>2, <3>3 DEF LegacyOf
      <4>2. SumOver(compensation, LegacyOf(u)) = SumOver(compensation', LegacyOf(u))
        BY <4>1, Entries, SumSame
      <4> QED BY <3>3, <4>2, Entries DEF CompensatedTo, LegacyOf
    <3>4. CASE u = v
      <4>1. l \in LegacyOf(u) /\ \A x \in LegacyOf(u) \ {l} : compensation[x] = compensation'[x]
        BY <3>2, <3>4 DEF LegacyOf
      <4>2. SumOver(compensation', LegacyOf(u)) = SumOver(compensation, LegacyOf(u)) + compensation'[l] - compensation[l]
        BY <3>1, <4>1, Entries, SumMoves
      <4>3. CompensatedTo(u)' = SumOver(compensation', LegacyOf(u)) /\ CompensatedTo(u) = SumOver(compensation, LegacyOf(u))
        BY DEF CompensatedTo, LegacyOf
      <4> QED BY <2>1, <3>2, <3>4, <4>2, <4>3, Entries
    <3> QED BY <3>3, <3>4
  <2> HIDE DEF amount, v
  <2> QED BY <2>1, <2>3, <2>5, <2>6, Entries DEF Moves
<1>6. CASE UNCHANGED <<balance, entryVars, adjustment, compensation>>
  BY <1>6, NothingMoves
<1> QED BY <1>1, <1>2, <1>3, <1>4, <1>5, <1>6 DEF Next, WalletStep, OperationStep, vars, MarkOperationPendingSettlement,
           MarkOperationPendingUnknown, CompleteOperation, RecordFailure

(* An empty wallet has no entries.                                          *)
LEMMA BalanceStarts ==
  ASSUME Init, TypeOK
  PROVE  BalanceIsSumOfEntries
<1> SUFFICES ASSUME NEW u \in Users PROVE balance[u] = AdjustedBy(u) + CompensatedTo(u) - DebitedFrom(u)
  BY DEF BalanceIsSumOfEntries
<1>1. balance[u] = 0 /\ (\A a \in AdjustRefs : adjustment[u][a] = 0) /\ (\A l \in LegacyOf(u) : compensation[l] = 0)
  BY DEF Init, LegacyOf
<1>2. \A r \in RequestsOf(u) : DebitsByRequest[r] = 0
  <2>1. \A r \in Requests : reservation[r] = 0 /\ refund[r] = 0 /\ settlement[r] = 0
    BY DEF Init
  <2>2. \A r \in Requests : Debited(r) = 0
    BY <2>1 DEF Debited
  <2> QED BY <2>2 DEF DebitsByRequest, RequestsOf
<1>3. AdjustedBy(u) = 0
  BY <1>1, Entries, SumZero DEF AdjustedBy
<1>4. CompensatedTo(u) = 0
  <2>1. SumOver(compensation, LegacyOf(u)) = 0
    BY <1>1, Entries, SumZero
  <2> QED BY <2>1 DEF CompensatedTo, LegacyOf
<1>5. DebitedFrom(u) = 0
  <2>1. SumOver(DebitsByRequest, RequestsOf(u)) = 0
    BY <1>2, Entries, SumZero
  <2> QED BY <2>1 DEF DebitedFrom, DebitsByRequest, RequestsOf
<1> QED BY <1>1, <1>3, <1>4, <1>5

SumsAreNumbers == \A u \in Users : AdjustedBy(u) \in Int /\ CompensatedTo(u) \in Int /\ DebitedFrom(u) \in Int

(* The balance of every wallet is the sum of its entries, whatever methods  *)
(* are called in which order by whom: no balance is written without its     *)
(* entry, twice, or for an entry that is there already.                     *)
THEOREM BalanceTheorem == Spec => []BalanceIsSumOfEntries
<1>1. Init => BalanceIsSumOfEntries
  BY InitInv, BalanceStarts
<1>2. TypeOK => SumsAreNumbers
  BY Entries DEF SumsAreNumbers
<1>3. TypeOK /\ LedgerInv /\ TypeOK' /\ SumsAreNumbers' /\ BalanceIsSumOfEntries /\ [Next]_vars => BalanceIsSumOfEntries'
  <2> SUFFICES ASSUME TypeOK, LedgerInv, TypeOK', SumsAreNumbers', BalanceIsSumOfEntries, [Next]_vars, NEW u \in Users
      PROVE balance'[u] = AdjustedBy(u)' + CompensatedTo(u)' - DebitedFrom(u)'
    BY DEF BalanceIsSumOfEntries
  <2>1. Moves(u) /\ balance[u] = AdjustedBy(u) + CompensatedTo(u) - DebitedFrom(u)
    BY BalanceMoves DEF BalanceIsSumOfEntries
  <2>2. AdjustedBy(u) \in Int /\ CompensatedTo(u) \in Int /\ DebitedFrom(u) \in Int
    BY Entries
  <2>3. AdjustedBy(u)' \in Int /\ CompensatedTo(u)' \in Int /\ DebitedFrom(u)' \in Int
    BY DEF SumsAreNumbers
  <2>4. balance[u] \in Int /\ balance'[u] \in Int
    BY DEF TypeOK
  <2> QED BY <2>1, <2>2, <2>3, <2>4 DEF Moves
<1> QED BY <1>1, <1>2, <1>3, LedgerInvariant, PTL DEF Spec

-----------------------------------------------------------------------------
(* The ledger is an escrow account with a limit: it implements Escrow, an  *)
(* account is overdrawn by settlements only, and a balance stays in its     *)
(* column.                                                                  *)

\* The three things Escrow sees of a request, read off its row.
PhaseMap == [r \in Requests |-> Phase(r)]
HoldMap == [r \in Requests |-> ActiveHold(r)]
ChargeMap == [r \in Requests |-> Debited(r) - ActiveHold(r)]
View(r, phase, hold, charge) == PhaseMap[r] = phase /\ HoldMap[r] = hold /\ ChargeMap[r] = charge

\* How status, hold and usage row of a request determine them.
RowView(r) ==
  /\ HasSuccess(r) => View(r, "charged", 0, usage[r].cost)
  /\ ~HasSuccess(r) /\ status[r] = "absent" => View(r, "none", 0, 0)
  /\ ~HasSuccess(r) /\ status[r] = "failed" => View(r, "released", 0, 0)
  /\ ~HasSuccess(r) /\ status[r] \notin {"absent", "failed"} => View(r, "held", reserved[r], 0)
Views == \A r \in Requests : RowView(r)

(* Each of the shapes of a row is one phase of the call.                    *)
LEMMA ViewsHold == TypeOK /\ LedgerInv => Views
<1> SUFFICES ASSUME TypeOK, LedgerInv, NEW r \in Requests PROVE RowView(r)
  BY DEF Views
<1> USE DEF RowView
<1>1. /\ RequestInv(r) /\ status[r] \in Statuses /\ usage[r].cost \in Nat
      /\ reserved[r] \in Nat /\ reservation[r] \in Int /\ refund[r] \in Nat /\ settlement[r] \in Int
  BY DEF LedgerInv, TypeOK, UsageRows
<1>2. /\ PhaseMap[r] = Phase(r) /\ HoldMap[r] = ActiveHold(r)
      /\ ChargeMap[r] = Debited(r) - ActiveHold(r)
  BY DEF PhaseMap, HoldMap, ChargeMap
<1>3. Debited(r) = ActiveHold(r) + usage[r].cost /\ ActiveHold(r) \in Int
  BY <1>1, LedgerInvImplies DEF DebitIsHoldOrCost, ActiveHold
<1>4. ChargeMap[r] = usage[r].cost
  BY <1>1, <1>2, <1>3
<1>5. CASE HasSuccess(r)
  BY <1>2, <1>4, <1>5 DEF View, Phase, ActiveHold
<1>6. CASE ~HasSuccess(r)
  <2>1. usage[r].cost = 0
    BY <1>1, <1>6 DEF RequestInv
  <2>2. CASE status[r] = "absent"
    <3>1. ActiveHold(r) = 0 /\ Phase(r) = "none"
      BY <1>1, <1>6, <2>2 DEF RequestInv, Held, ActiveHold, Phase
    <3> QED BY <1>2, <1>4, <1>6, <2>1, <2>2, <3>1 DEF View
  <2>3. CASE status[r] = "failed"
    <3>1. ActiveHold(r) = 0 /\ Phase(r) = "released"
      BY <1>1, <1>6, <2>3 DEF RequestInv, Released, ActiveHold, Phase
    <3> QED BY <1>2, <1>4, <1>6, <2>1, <2>3, <3>1 DEF View
  <2>4. CASE status[r] \notin {"absent", "failed"}
    <3>0. ~Charged(r)
      BY <1>6 DEF Charged
    <3>1. Held(r)
      BY <1>1, <1>6, <2>4, <3>0 DEF RequestInv, Statuses
    <3>2. ActiveHold(r) = reserved[r]
      BY <1>1, <1>6, <3>1 DEF Held, ActiveHold
    <3>3. Phase(r) = "held"
      BY <1>6, <2>4 DEF Phase
    <3> QED BY <1>2, <1>4, <1>6, <2>1, <2>4, <3>2, <3>3 DEF View
  <2> QED BY <1>6, <2>2, <2>3, <2>4
<1> QED BY <1>5, <1>6

(* So it is after a step.                                                   *)
LEMMA ViewsHoldNext == TypeOK' /\ LedgerInv' => Views'
BY ViewsHold, PTL

(* What Escrow sees of a request changes with that request's row only.      *)
LEMMA SameView ==
  ASSUME Views, Views', NEW r \in Requests,
         reserved'[r] = reserved[r], HasSuccess(r)' = HasSuccess(r), usage'[r].cost = usage[r].cost,
         \/ status'[r] = status[r]
         \/ {status[r], status'[r]} \cap {"absent", "failed"} = {}
  PROVE  PhaseMap'[r] = PhaseMap[r] /\ HoldMap'[r] = HoldMap[r] /\ ChargeMap'[r] = ChargeMap[r]
<1>1. RowView(r) /\ RowView(r)'
  BY DEF Views
<1> QED BY <1>1 DEF RowView, View

Unseen == PhaseMap' = PhaseMap /\ HoldMap' = HoldMap /\ ChargeMap' = ChargeMap
UnseenBut(r) ==
  \A q \in Requests : q # r => PhaseMap'[q] = PhaseMap[q] /\ HoldMap'[q] = HoldMap[q] /\ ChargeMap'[q] = ChargeMap[q]

(* A change of the maps at one request is an update of them there.          *)
LEMMA SeenAt ==
  ASSUME NEW r \in Requests, UnseenBut(r)
  PROVE  /\ PhaseMap' = [PhaseMap EXCEPT ![r] = PhaseMap'[r]]
         /\ HoldMap' = [HoldMap EXCEPT ![r] = HoldMap'[r]]
         /\ ChargeMap' = [ChargeMap EXCEPT ![r] = ChargeMap'[r]]
         /\ ChargeMap'[r] = ChargeMap[r] => ChargeMap' = ChargeMap
BY DEF UnseenBut, PhaseMap, HoldMap, ChargeMap

(* A row that looks the same for every request leaves the maps alone.       *)
LEMMA NothingSeen ==
  ASSUME Views, Views', reserved' = reserved,
         \A r \in Requests : HasSuccess(r)' = HasSuccess(r) /\ usage'[r].cost = usage[r].cost,
         \A r \in Requests : status'[r] = status[r] \/ {status[r], status'[r]} \cap {"absent", "failed"} = {}
  PROVE  Unseen
<1>1. \A r \in Requests : PhaseMap'[r] = PhaseMap[r] /\ HoldMap'[r] = HoldMap[r] /\ ChargeMap'[r] = ChargeMap[r]
  BY SameView
<1> QED BY <1>1 DEF Unseen, PhaseMap, HoldMap, ChargeMap

-----------------------------------------------------------------------------
(* StartOperation puts aside what the account covers.                       *)
LEMMA StartPutsAside ==
  ASSUME TypeOK, Views, Views', NEW r \in Requests, NEW amount \in Amounts, StartOperation(r, amount), LedgerInv
  PROVE  AccountEscrow!PutAside(r)
<1> USE DEF TypeOK, UsageRows
<1>0. amount \in Nat /\ amount <= balance[Owner[r]] /\ status[r] = "absent"
  BY BillingAssumption DEF StartOperation, StartCreated
<1>1. ~HasSuccess(r) /\ RowView(r) /\ RowView(r)' /\ status'[r] = "processing" /\ reserved'[r] = amount /\ usage' = usage
  BY <1>0 DEF StartOperation, LedgerInv, RequestInv, Held, Views
<1>2. View(r, "none", 0, 0) /\ View(r, "held", amount, 0)'
  BY <1>0, <1>1 DEF RowView, HasSuccess
<1>3. UnseenBut(r)
  BY SameView DEF UnseenBut, StartOperation, HasSuccess
<1>4. balance' = [balance EXCEPT ![Owner[r]] = @ - amount]
  BY DEF StartOperation
<1>5. /\ PhaseMap[r] = "none" /\ 0 <= HoldMap'[r] /\ HoldMap'[r] <= balance[Owner[r]]
      /\ balance' = [balance EXCEPT ![Owner[r]] = @ - HoldMap'[r]]
      /\ PhaseMap' = [PhaseMap EXCEPT ![r] = "held"]
      /\ HoldMap' = [HoldMap EXCEPT ![r] = HoldMap'[r]]
      /\ ChargeMap' = ChargeMap
  <2>1. /\ PhaseMap[r] = "none" /\ ChargeMap[r] = 0
        /\ PhaseMap'[r] = "held" /\ HoldMap'[r] = amount /\ ChargeMap'[r] = 0
    BY <1>2 DEF View
  <2> QED BY <1>0, <1>3, <1>4, <2>1, SeenAt
<1> QED BY <1>5 DEF AccountEscrow!PutAside, PhaseMap, HoldMap, ChargeMap

(* Finalize pays the cost out of the hold, and once.                        *)
LEMMA FinalizePays ==
  ASSUME TypeOK, LedgerInv, Views, Views', NEW r \in Requests, NEW input \in UsageInputs, Finalize(r, input)
  PROVE  AccountEscrow!Pay(r)
<1> USE DEF TypeOK, UsageRows
<1>1. input \in [reserved : Nat, cost : Nat] /\ Owner[r] \in Users
  BY BillingAssumption DEF UsageInputs
<1>2. status[r] = "pending_settlement" /\ reserved[r] = input.reserved /\ ~HasSuccess(r) /\ settlement[r] = 0
  <2>1. status[r] = "pending_settlement" /\ reserved[r] = input.reserved /\ ~HasSuccess(r)
    BY DEF Finalize, FinalizeAccepted, HasSuccess
  <2>2. ~Charged(r) /\ RequestInv(r)
    BY <2>1 DEF Charged, LedgerInv
  <2> QED BY <2>1, <2>2 DEF RequestInv, Held
<1>3. balance' = [balance EXCEPT ![Owner[r]] = @ + reserved[r] - input.cost]
  <2>1. balance' = [balance EXCEPT ![Owner[r]] = @ + RefundEntry(input) + SettlementEntry(input)]
    BY <1>2 DEF Finalize
  <2>2. /\ RefundEntry(input) \in Int /\ SettlementEntry(input) \in Int
        /\ RefundEntry(input) + SettlementEntry(input) = reserved[r] - input.cost
    BY <1>1, <1>2, EntriesOfDifference
  <2>3. balance[Owner[r]] \in Int /\ reserved[r] \in Int /\ input.cost \in Int
    BY <1>1
  <2>4. balance[Owner[r]] + RefundEntry(input) + SettlementEntry(input) = balance[Owner[r]] + reserved[r] - input.cost
    BY <2>2, <2>3
  <2> QED BY <2>1, <2>4
<1>4. RowView(r) /\ RowView(r)'
  BY DEF Views
<1>5. usage'[r].kind = "success" /\ usage'[r].cost = input.cost
  BY DEF Finalize
<1>6. View(r, "held", reserved[r], 0) /\ View(r, "charged", 0, input.cost)'
  BY <1>2, <1>4, <1>5 DEF RowView, HasSuccess
<1>7. UnseenBut(r)
  BY SameView DEF UnseenBut, Finalize, HasSuccess
<1>8. /\ PhaseMap[r] = "held" /\ 0 <= ChargeMap'[r]
      /\ balance' = [balance EXCEPT ![Owner[r]] = @ + HoldMap[r] - ChargeMap'[r]]
      /\ PhaseMap' = [PhaseMap EXCEPT ![r] = "charged"]
      /\ HoldMap' = [HoldMap EXCEPT ![r] = 0]
      /\ ChargeMap' = [ChargeMap EXCEPT ![r] = ChargeMap'[r]]
  <2>1. /\ PhaseMap[r] = "held" /\ HoldMap[r] = reserved[r]
        /\ PhaseMap'[r] = "charged" /\ HoldMap'[r] = 0 /\ ChargeMap'[r] = input.cost
    BY <1>6 DEF View
  <2> QED BY <1>1, <1>3, <1>7, <2>1, SeenAt
<1> QED BY <1>8 DEF AccountEscrow!Pay, PhaseMap, HoldMap, ChargeMap

(* FailOperation gives all of the hold back, and once.                      *)
LEMMA FailGivesBack ==
  ASSUME TypeOK, LedgerInv, Views, Views', NEW r \in Requests, NEW code \in FailureCodes, FailOperation(r, code)
  PROVE  AccountEscrow!GiveBack(r)
<1> USE DEF TypeOK, UsageRows
<1>1. status[r] = "processing" /\ ~HasSuccess(r) /\ refund[r] = 0
  BY DEF FailOperation, FailAccepted, LedgerInv, RequestInv, Held
<1>2. balance' = [balance EXCEPT ![Owner[r]] = @ + reserved[r]]
  BY <1>1 DEF FailOperation
<1>3. RowView(r) /\ RowView(r)' /\ status'[r] = "failed" /\ ~HasSuccess(r)'
  BY <1>1 DEF Views, FailOperation, HasSuccess
<1>4. View(r, "held", reserved[r], 0) /\ View(r, "released", 0, 0)'
  BY <1>1, <1>3 DEF RowView
<1>5. UnseenBut(r)
  BY SameView DEF UnseenBut, FailOperation, HasSuccess
<1>6. /\ PhaseMap[r] = "held"
      /\ balance' = [balance EXCEPT ![Owner[r]] = @ + HoldMap[r]]
      /\ PhaseMap' = [PhaseMap EXCEPT ![r] = "released"]
      /\ HoldMap' = [HoldMap EXCEPT ![r] = 0]
      /\ ChargeMap' = ChargeMap
  <2>1. /\ PhaseMap[r] = "held" /\ HoldMap[r] = reserved[r] /\ ChargeMap[r] = 0
        /\ PhaseMap'[r] = "released" /\ HoldMap'[r] = 0 /\ ChargeMap'[r] = 0
    BY <1>4 DEF View
  <2> QED BY <1>2, <1>5, <2>1, SeenAt
<1> QED BY <1>6 DEF AccountEscrow!GiveBack, PhaseMap, HoldMap, ChargeMap

(* An adjustment or a compensation is a movement the account can cover.     *)
LEMMA AccountMoves ==
  ASSUME TypeOK, Views, Views', WalletStep
  PROVE  \E u \in Users : AccountEscrow!Move(u)
<1> USE DEF TypeOK
<1>1. Unseen
  BY NothingSeen DEF WalletStep, Adjust, CompensateLegacyUsage, HasSuccess
<1>2. ASSUME NEW u \in Users, NEW amount \in Int, amount > 0 \/ balance[u] + amount >= 0,
             balance' = [balance EXCEPT ![u] = @ + amount]
      PROVE  AccountEscrow!Move(u)
  <2>1. /\ balance'[u] > balance[u] \/ balance'[u] >= 0
        /\ balance' = [balance EXCEPT ![u] = balance'[u]]
    BY <1>2
  <2> QED BY <1>1, <2>1 DEF AccountEscrow!Move, Unseen, PhaseMap, HoldMap, ChargeMap
<1>3. ASSUME NEW u \in Users, NEW ref \in AdjustRefs, NEW amount \in AdjustAmounts, Adjust(u, ref, amount)
      PROVE  \E x \in Users : AccountEscrow!Move(x)
  <2>1. amount \in Int /\ amount # 0
    BY BillingAssumption
  <2>2. amount > 0 \/ balance[u] + amount >= 0
    BY <1>3, <2>1 DEF Adjust, AdjustAccepted, InRange
  <2> QED BY <1>2, <1>3, <2>1, <2>2 DEF Adjust
<1>4. ASSUME NEW l \in DOMAIN LegacyUsage, CompensateLegacyUsage(l)
      PROVE  \E x \in Users : AccountEscrow!Move(x)
  <2>1. LegacyUsage[l].user \in Users /\ LegacyUsage[l].cost \in Int /\ LegacyUsage[l].cost > 0
    BY <1>4, BillingAssumption DEF CompensateLegacyUsage, Eligible
  <2> QED BY <1>2, <1>4, <2>1 DEF CompensateLegacyUsage
<1> QED BY <1>3, <1>4 DEF WalletStep

(* Every method is one of Escrow's actions or does nothing Escrow can see.  *)
LEMMA EscrowStep == TypeOK /\ LedgerInv /\ [Next]_vars => [AccountEscrow!EscrowNext]_(AccountEscrow!escrowVars)
<1> SUFFICES ASSUME TypeOK, LedgerInv, [Next]_vars PROVE [AccountEscrow!EscrowNext]_(AccountEscrow!escrowVars)
  OBVIOUS
<1>1. Views /\ Views'
  BY ViewsHold, ViewsHoldNext, TypeStep, LedgerStep
<1>2. ASSUME Unseen, balance' = balance PROVE UNCHANGED AccountEscrow!escrowVars
  BY <1>2 DEF Unseen, AccountEscrow!escrowVars, PhaseMap, HoldMap, ChargeMap
<1>3. ASSUME NEW r \in Requests, NEW amount \in Amounts, StartOperation(r, amount) PROVE AccountEscrow!EscrowNext
  BY <1>1, <1>3, StartPutsAside DEF AccountEscrow!EscrowNext
<1>4. ASSUME NEW r \in Requests, NEW input \in UsageInputs, Finalize(r, input) PROVE AccountEscrow!EscrowNext
  BY <1>1, <1>4, FinalizePays DEF AccountEscrow!EscrowNext
<1>5. ASSUME NEW r \in Requests, NEW code \in FailureCodes, FailOperation(r, code) PROVE AccountEscrow!EscrowNext
  BY <1>1, <1>5, FailGivesBack DEF AccountEscrow!EscrowNext
<1>6. CASE WalletStep
  BY <1>1, <1>6, AccountMoves DEF AccountEscrow!EscrowNext
<1>7. ASSUME NEW r \in Requests, NEW input \in UsageInputs, MarkOperationPendingSettlement(r, input) PROVE Unseen /\ balance' = balance
  BY <1>1, <1>7, NothingSeen DEF TypeOK, MarkOperationPendingSettlement, MarkSettlementAccepted, HasSuccess
<1>8. ASSUME NEW r \in Requests, NEW why \in FailureCodes, MarkOperationPendingUnknown(r, why) PROVE Unseen /\ balance' = balance
  BY <1>1, <1>8, NothingSeen DEF TypeOK, MarkOperationPendingUnknown, MarkUnknownAccepted, HasSuccess
<1>9. ASSUME NEW r \in Requests, CompleteOperation(r) PROVE Unseen /\ balance' = balance
  BY <1>1, <1>9, NothingSeen DEF TypeOK, CompleteOperation, CompleteAccepted, HasSuccess
<1>10. ASSUME NEW r \in Requests, NEW code \in FailureCodes, RecordFailure(r, code) PROVE Unseen /\ balance' = balance
  <2>1. \A q \in Requests : HasSuccess(q)' = HasSuccess(q) /\ usage'[q].cost = usage[q].cost
    BY <1>10 DEF TypeOK, UsageRows, RecordFailure, HasSuccess, LedgerInv, RequestInv
  <2> QED BY <1>1, <1>10, <2>1, NothingSeen DEF RecordFailure
<1>11. CASE UNCHANGED vars
  BY <1>11 DEF vars, AccountEscrow!escrowVars, Phase, ActiveHold, Debited, HasSuccess
<1> QED
  BY <1>2, <1>3, <1>4, <1>5, <1>6, <1>7, <1>8, <1>9, <1>10, <1>11 DEF Next, OperationStep

(* The ledger with its operations, entries and usage rows implements an     *)
(* escrow account, for any calls of its methods in any order.               *)
THEOREM EscrowTheorem == Spec => ImplementsEscrow
<1>1. Init => AccountEscrow!EscrowInit
  <2> SUFFICES ASSUME Init PROVE AccountEscrow!EscrowInit
    OBVIOUS
  <2>1. ASSUME NEW r \in Requests PROVE View(r, "none", 0, 0)
    <3>1. Views /\ status[r] = "absent" /\ ~HasSuccess(r)
      BY InitInv, ViewsHold DEF Init, NoUsage, HasSuccess
    <3> QED BY <3>1 DEF Views, RowView
  <2>2. ASSUME NEW r \in Requests PROVE Phase(r) = "none" /\ ActiveHold(r) = 0 /\ Debited(r) - ActiveHold(r) = 0
    BY <2>1 DEF View, PhaseMap, HoldMap, ChargeMap
  <2> QED BY <2>2 DEF Init, AccountEscrow!EscrowInit
<1> QED BY <1>1, EscrowStep, LedgerInvariant, PTL DEF Spec, ImplementsEscrow, AccountEscrow!EscrowSpec

-----------------------------------------------------------------------------
(* How a step moves the balance of an account.                              *)
Credited(u) == balance'[u] > balance[u] /\ balance'[u] <= MaxInt64
Debits(u) == balance'[u] <= balance[u] /\ balance'[u] >= 0
Overdrawn(u) == /\ MinInt64 <= balance'[u] /\ balance'[u] <= balance[u]
                /\ \E r \in Requests : Owner[r] = u /\ settlement'[r] < 0

Moved(u) == balance'[u] = balance[u] \/ Credited(u) \/ Debits(u) \/ Overdrawn(u)
DebtsStay == \A r \in Requests : settlement[r] < 0 => settlement'[r] < 0

(* A change of one account, within its limits, moves that account only.     *)
LEMMA OneAccountMoves ==
  ASSUME TypeOK, NEW x \in Users, NEW d \in Int, balance' = [balance EXCEPT ![x] = @ + d],
         \/ d >= 0 /\ balance[x] + d <= MaxInt64
         \/ d <= 0 /\ balance[x] + d >= 0
         \/ /\ d <= 0 /\ balance[x] + d >= MinInt64
            /\ \E r \in Requests : Owner[r] = x /\ settlement'[r] < 0,
         NEW u \in Users
  PROVE  Moved(u)
<1>1. MaxInt64 \in Int /\ MinInt64 \in Int /\ balance[x] \in Int /\ balance[u] \in Int
  BY BillingAssumption DEF TypeOK
<1>2. CASE u # x
  BY <1>2 DEF TypeOK, Moved
<1>3. CASE u = x
  <2>1. balance'[u] = balance[u] + d
    BY <1>3 DEF TypeOK
  <2> QED BY <1>1, <1>3, <2>1 DEF Moved, Credited, Debits, Overdrawn
<1> QED BY <1>2, <1>3

(* Finalize credits what was held beyond the cost, or settles the rest.     *)
LEMMA FinalizeMoves ==
  ASSUME TypeOK, NEW r \in Requests, NEW input \in UsageInputs, Finalize(r, input), NEW u \in Users
  PROVE  Moved(u) /\ DebtsStay
<1> DEFINE extra == IF settlement[r] = 0 THEN SettlementEntry(input) ELSE 0
           d == RefundEntry(input) + extra
<1>1. input \in [reserved : Nat, cost : Nat] /\ Owner[r] \in Users
  BY BillingAssumption DEF UsageInputs
<1>2. /\ RefundEntry(input) \in Nat /\ SettlementEntry(input) \in Int /\ SettlementEntry(input) <= 0
      /\ RefundEntry(input) = 0 \/ SettlementEntry(input) = 0
  BY <1>1 DEF RefundEntry, SettlementEntry
<1>3. balance[Owner[r]] \in Int /\ settlement[r] \in Int /\ MaxInt64 \in Int /\ MinInt64 \in Int
  BY <1>1, BillingAssumption DEF TypeOK
<1>4. /\ balance' = [balance EXCEPT ![Owner[r]] = @ + RefundEntry(input) + extra]
      /\ settlement' = [settlement EXCEPT ![r] = @ + extra]
      /\ RefundEntry(input) > 0 => balance[Owner[r]] <= MaxInt64 - RefundEntry(input)
      /\ SettlementEntry(input) < 0 /\ settlement[r] = 0 => balance[Owner[r]] >= MinInt64 - SettlementEntry(input)
  BY DEF Finalize, FinalizeAccepted
<1>5. extra \in Int /\ extra <= 0 /\ (extra = 0 \/ (settlement[r] = 0 /\ extra = SettlementEntry(input)))
  BY <1>2
<1> HIDE DEF extra
<1>6. balance' = [balance EXCEPT ![Owner[r]] = @ + d]
  <2>1. \A a, b, c \in Int : a + b + c = a + (b + c)
    OBVIOUS
  <2>2. balance[Owner[r]] + RefundEntry(input) + extra = balance[Owner[r]] + d
    BY <1>2, <1>3, <1>5, <2>1
  <2> QED BY <1>4, <2>2
<1>7. settlement'[r] = settlement[r] + extra /\ \A q \in Requests : q # r => settlement'[q] = settlement[q]
  BY <1>4 DEF TypeOK
<1>8. DebtsStay
  BY <1>3, <1>5, <1>7 DEF DebtsStay
<1>9. CASE extra < 0
  <2>1. d \in Int /\ d <= 0 /\ balance[Owner[r]] + d >= MinInt64 /\ settlement'[r] < 0
    BY <1>2, <1>3, <1>4, <1>5, <1>7, <1>9
  <2> QED BY <1>1, <1>6, <1>8, <2>1, OneAccountMoves
<1>10. CASE extra = 0
  <2>1. d \in Int /\ d >= 0 /\ (d > 0 => balance[Owner[r]] + d <= MaxInt64)
    BY <1>2, <1>3, <1>4, <1>10
  <2>2. CASE d > 0
    BY <1>1, <1>6, <1>8, <2>1, <2>2, OneAccountMoves
  <2>3. CASE d = 0
    <3>1. balance'[u] = balance[u]
      BY <1>1, <1>6, <2>3 DEF TypeOK
    <3> QED BY <1>8, <3>1 DEF Moved
  <2> QED BY <2>1, <2>2, <2>3
<1> QED BY <1>5, <1>9, <1>10

(* A step leaves an account alone, credits it within the column, debits     *)
(* what it covers, or settles a call that cost more than was held.          *)
LEMMA BalanceStep ==
  ASSUME TypeOK, [Next]_vars, NEW u \in Users
  PROVE  Moved(u) /\ DebtsStay
<1>1. ASSUME NEW r \in Requests, NEW amount \in Amounts, StartOperation(r, amount) PROVE Moved(u) /\ DebtsStay
  <2>1. amount \in Nat /\ amount <= balance[Owner[r]] /\ Owner[r] \in Users /\ balance[Owner[r]] \in Int
    BY <1>1, BillingAssumption DEF TypeOK, StartOperation, StartCreated
  <2>2. balance' = [balance EXCEPT ![Owner[r]] = @ + (-amount)] /\ settlement' = settlement
    BY <1>1, <2>1 DEF StartOperation
  <2>3. -amount \in Int /\ -amount <= 0 /\ balance[Owner[r]] + (-amount) >= 0
    BY <2>1
  <2> QED BY <2>1, <2>2, <2>3, OneAccountMoves DEF DebtsStay
<1>2. ASSUME NEW r \in Requests, NEW input \in UsageInputs, Finalize(r, input) PROVE Moved(u) /\ DebtsStay
  BY <1>2, FinalizeMoves
<1>3. ASSUME NEW r \in Requests, NEW code \in FailureCodes, FailOperation(r, code) PROVE Moved(u) /\ DebtsStay
  <2> DEFINE d == IF refund[r] = 0 THEN reserved[r] ELSE 0
  <2>1. reserved[r] \in Nat /\ Owner[r] \in Users /\ balance[Owner[r]] \in Int /\ MaxInt64 \in Int
    BY BillingAssumption DEF TypeOK
  <2>2. /\ balance' = [balance EXCEPT ![Owner[r]] = @ + d] /\ settlement' = settlement
        /\ refund[r] = 0 /\ reserved[r] > 0 => balance[Owner[r]] <= MaxInt64 - reserved[r]
    BY <1>3 DEF FailOperation, FailAccepted
  <2>3. CASE d = 0
    <3>1. balance'[u] = balance[u]
      BY <2>1, <2>2, <2>3 DEF TypeOK
    <3> QED BY <2>2, <3>1 DEF Moved, DebtsStay
  <2>4. CASE d > 0
    <3>1. d \in Int /\ d >= 0 /\ balance[Owner[r]] + d <= MaxInt64
      BY <2>1, <2>2, <2>4
    <3> QED BY <2>1, <2>2, <3>1, OneAccountMoves DEF DebtsStay
  <2> QED BY <2>1, <2>3, <2>4
<1>4. ASSUME NEW x \in Users, NEW ref \in AdjustRefs, NEW amount \in AdjustAmounts, Adjust(x, ref, amount)
      PROVE  Moved(u) /\ DebtsStay
  <2>1. amount \in Int /\ balance[x] \in Int /\ MaxInt64 \in Int
    BY BillingAssumption DEF TypeOK
  <2>2. balance' = [balance EXCEPT ![x] = @ + amount] /\ settlement' = settlement
    BY <1>4 DEF Adjust, entryVars
  <2>3. IF amount < 0 THEN balance[x] >= -amount ELSE balance[x] <= MaxInt64 - amount
    BY <1>4 DEF Adjust, AdjustAccepted, InRange
  <2>4. (amount >= 0 /\ balance[x] + amount <= MaxInt64) \/ (amount <= 0 /\ balance[x] + amount >= 0)
    BY <2>1, <2>3
  <2> QED BY <2>1, <2>2, <2>4, OneAccountMoves DEF DebtsStay
<1>5. ASSUME NEW l \in DOMAIN LegacyUsage, CompensateLegacyUsage(l) PROVE Moved(u) /\ DebtsStay
  <2>1. LegacyUsage[l].cost \in Nat /\ LegacyUsage[l].user \in Users /\ MaxInt64 \in Int
    BY BillingAssumption
  <2>2. /\ balance' = [balance EXCEPT ![LegacyUsage[l].user] = @ + LegacyUsage[l].cost] /\ settlement' = settlement
        /\ balance[LegacyUsage[l].user] <= MaxInt64 - LegacyUsage[l].cost
    BY <1>5 DEF CompensateLegacyUsage, entryVars
  <2> DEFINE owner == LegacyUsage[l].user
             d == LegacyUsage[l].cost
  <2>3. balance[owner] \in Int /\ d \in Int /\ d >= 0 /\ owner \in Users
    BY <2>1 DEF TypeOK
  <2>4. balance' = [balance EXCEPT ![owner] = @ + d] /\ balance[owner] <= MaxInt64 - d
    BY <2>2
  <2> HIDE DEF owner, d
  <2>5. balance[owner] + d <= MaxInt64
    BY <2>1, <2>3, <2>4
  <2> QED BY <2>2, <2>3, <2>4, <2>5, OneAccountMoves DEF DebtsStay
<1>6. ASSUME balance' = balance, settlement' = settlement PROVE Moved(u) /\ DebtsStay
  BY <1>6 DEF Moved, DebtsStay
<1> QED
  BY <1>1, <1>2, <1>3, <1>4, <1>5, <1>6 DEF Next, WalletStep, OperationStep, MarkOperationPendingSettlement,
     MarkOperationPendingUnknown, CompleteOperation, RecordFailure, vars, entryVars

(* The range checks of the methods keep every balance in its column.        *)
THEOREM FitsTheorem == Spec => []BalanceFits
<1>1. Init => BalanceFits
  BY BillingAssumption DEF Init, BalanceFits
<1>2. TypeOK /\ BalanceFits /\ [Next]_vars => BalanceFits'
  <2> SUFFICES ASSUME TypeOK, BalanceFits, [Next]_vars, NEW u \in Users
               PROVE  MinInt64 <= balance'[u] /\ balance'[u] <= MaxInt64
    BY DEF BalanceFits
  <2>1. balance[u] \in Int /\ balance'[u] \in Int /\ MaxInt64 \in Nat /\ MinInt64 \in Int /\ MinInt64 <= 0
    BY TypeStep, BillingAssumption DEF TypeOK
  <2> QED BY <2>1, BalanceStep DEF BalanceFits, Moved, Credited, Debits, Overdrawn
<1> QED BY <1>1, <1>2, TypeCorrect, PTL DEF Spec

(* No account is below zero without a call that cost more than its hold.    *)
THEOREM OverdraftTheorem == Spec => []OverdraftOnlyBySettlement
<1>1. Init => OverdraftOnlyBySettlement
  BY DEF Init, OverdraftOnlyBySettlement
<1>2. TypeOK /\ OverdraftOnlyBySettlement /\ [Next]_vars => OverdraftOnlyBySettlement'
  <2> SUFFICES ASSUME TypeOK, OverdraftOnlyBySettlement, [Next]_vars, NEW u \in Users, balance'[u] < 0
               PROVE  \E r \in Requests : Owner[r] = u /\ settlement'[r] < 0
    BY DEF OverdraftOnlyBySettlement
  <2>1. balance[u] \in Int /\ balance'[u] \in Int
    BY TypeStep DEF TypeOK
  <2>2. CASE balance[u] < 0
    BY <2>2, BalanceStep DEF OverdraftOnlyBySettlement, DebtsStay
  <2>3. CASE balance[u] >= 0
    BY <2>1, <2>3, BalanceStep DEF Moved, Credited, Debits, Overdrawn
  <2> QED BY <2>1, <2>2, <2>3
<1> QED BY <1>1, <1>2, TypeCorrect, PTL DEF Spec
=============================================================================
