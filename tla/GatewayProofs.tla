---------------------------- MODULE GatewayProofs ----------------------------
(* Proofs about module Gateway: the handlers and the recovery loop use the  *)
(* store only as module Billing allows, so that the theorems of             *)
(* BillingProofs are theorems about them; a call is carried out at most     *)
(* once; and what clients are told is true.  And about module               *)
(* ResponseHistory: what the loops over its order leave of the store, and   *)
(* what the turns in it are worth to the requests that follow them.         *)
EXTENDS Gateway, ResponseHistory, BillingProofs, SequenceTheorems

\* What the handler of r has to know of its operation at each of its steps,
\* whatever failed, and what it has promised the client.
HandlerInv(r) ==
  /\ status[r] # "absent" => reserved[r] = Estimate[r]
  /\ status[r] = "pending_settlement" => snapshot[r] = cost[r] /\ cost[r] \in Amounts
  /\ status[r] = "completed" => usage[r].cost = cost[r]
  /\ step[r] \in {"calling", "relaying"} => status[r] = "processing"
  /\ step[r] = "persisting" => status[r] \in {"processing", "pending_settlement", "completed"} /\ cost[r] \in Amounts
  /\ step[r] \in {"finalizing", "completing"} => status[r] \in {"pending_settlement", "completed"}
  /\ step[r] = "failing" => status[r] \in {"processing", "failed"} /\ reason[r] = CallFailed
  /\ step[r] = "recording" => /\ reason[r] \in {CallFailed, StreamIncomplete}
                              /\ reason[r] = CallFailed => status[r] \in {"processing", "failed"}
  /\ step[r] = "marking" => /\ reason[r] \in {ResultUnknown, StreamIncomplete, IntentUnavailable}
                            /\ reason[r] # IntentUnavailable => status[r] \in {"processing", "pending_unknown"}
  /\ step[r] # "done" => reply[r] \in {"none", "streamed"}
  /\ reply[r] = "delivered" => status[r] \in {"pending_settlement", "completed"}
  /\ reply[r] = "failed" => status[r] \in {"processing", "failed"}
  /\ reply[r] = "held" => status[r] \in {"processing", "pending_unknown"}

\* A call leaves for the upstream once, under an operation of its own.
CallInv(r) ==
  /\ executed[r] \in {0, 1}
  /\ step[r] \in {"arriving", "calling"} => executed[r] = 0
  /\ executed[r] > 0 => status[r] # "absent"

HandlerTypes ==
  /\ step \in [Requests -> Steps]
  /\ cost \in [Requests -> Nat]
  /\ reason \in [Requests -> FailureCodes \cup {NoCode}]
  /\ reply \in [Requests -> Replies]
  /\ executed \in [Requests -> Nat]

StoreInv == TypeOK /\ LedgerInv /\ OneOperationPerKey
GatewayInv == StoreInv /\ HandlerTypes /\ \A r \in Requests : HandlerInv(r) /\ CallInv(r)

-----------------------------------------------------------------------------
(* The recovery loop, with any callers beside it.                           *)

\* What is stored with an operation comes from the inputs of the methods.
KnownAmounts ==
  \A r \in Requests :
    /\ status[r] # "absent" => reserved[r] \in Amounts
    /\ status[r] = "pending_settlement" => snapshot[r] \in Amounts

Pending == {r \in Requests : status[r] = "pending_settlement"}
QueueInv == queue \in Seq(Requests) /\ ToSet(queue) = Pending /\ IsInjective(queue)

Items == [request : Requests, reserved : Nat, cost : Nat]
ItemValid(item) ==
  /\ status[item.request] \in {"pending_settlement", "completed"}
  /\ item.reserved = reserved[item.request]
  /\ item.cost = IF status[item.request] = "completed" THEN usage[item.request].cost ELSE snapshot[item.request]
ListInv == batch \in Seq(Items) /\ \A i \in DOMAIN batch : ItemValid(batch[i])

\* What a step may do to the queue and to the statuses it stands for.
QueueMoves ==
  \/ UNCHANGED queue /\ \A r \in Requests : status'[r] = "pending_settlement" <=> status[r] = "pending_settlement"
  \/ \E r \in Requests :
       /\ queue' = Append(RemoveFirst(queue, r), r)
       /\ status' = [status EXCEPT ![r] = "pending_settlement"]
  \/ \E r \in Requests :
       /\ queue' = RemoveFirst(queue, r)
       /\ status' = [status EXCEPT ![r] = "completed"]

(* Removing an element of a sequence that has it once removes the element.  *)
LEMMA RemovedAt ==
  ASSUME NEW S, NEW q \in Seq(S), NEW j \in 1..Len(q)
  PROVE  /\ RemoveAt(q, j) \in Seq(S) /\ Len(RemoveAt(q, j)) = Len(q) - 1
         /\ \A k \in 1..(Len(q) - 1) : RemoveAt(q, j)[k] = IF k < j THEN q[k] ELSE q[k + 1]
<1>0. PICK n \in Nat : n = Len(q) /\ j \in Int /\ 1 <= j /\ j <= n
  BY LenProperties
<1>1. PICK left \in Seq(S) : /\ left = SubSeq(q, 1, j - 1) /\ Len(left) = j - 1
                             /\ \A k \in 1..(j - 1) : left[k] = q[k]
  <2>1. \A k \in 1..(j - 1) : q[k] \in S
    BY ElementOfSeq
  <2>2. /\ SubSeq(q, 1, j - 1) \in Seq(S)
        /\ Len(SubSeq(q, 1, j - 1)) = IF 1 <= j - 1 THEN (j - 1) - 1 + 1 ELSE 0
        /\ \A k \in 1..((j - 1) - 1 + 1) : SubSeq(q, 1, j - 1)[k] = q[1 + k - 1]
    BY <1>0, <2>1, SubSeqProperties
  <2>3. /\ (j - 1) - 1 + 1 = j - 1 /\ ~(1 <= j - 1) => j - 1 = 0
        /\ \A k \in 1..(j - 1) : 1 + k - 1 = k
    BY <1>0
  <2>4. Len(SubSeq(q, 1, j - 1)) = j - 1
    BY <2>2, <2>3
  <2>5. \A k \in 1..(j - 1) : SubSeq(q, 1, j - 1)[k] = q[k]
    BY <2>2, <2>3
  <2> QED BY <2>2, <2>4, <2>5
<1>2. PICK right \in Seq(S) : /\ right = SubSeq(q, j + 1, Len(q)) /\ Len(right) = Len(q) - j
                              /\ \A k \in 1..(Len(q) - j) : right[k] = q[j + k]
  <2>1. \A k \in (j + 1)..Len(q) : q[k] \in S
    BY ElementOfSeq
  <2>2. Len(q) \in Int
    BY LenProperties
  <2>3. /\ SubSeq(q, j + 1, Len(q)) \in Seq(S)
        /\ Len(SubSeq(q, j + 1, Len(q))) = IF j + 1 <= Len(q) THEN Len(q) - (j + 1) + 1 ELSE 0
        /\ \A k \in 1..(Len(q) - (j + 1) + 1) : SubSeq(q, j + 1, Len(q))[k] = q[(j + 1) + k - 1]
    BY <2>1, <2>2, SubSeqProperties
  <2>4. /\ Len(q) - (j + 1) + 1 = Len(q) - j /\ ~(j + 1 <= Len(q)) => Len(q) - j = 0
        /\ \A k \in 1..(Len(q) - j) : (j + 1) + k - 1 = j + k
    BY <1>0
  <2>5. Len(SubSeq(q, j + 1, Len(q))) = Len(q) - j
    BY <2>3, <2>4
  <2>6. \A k \in 1..(Len(q) - j) : SubSeq(q, j + 1, Len(q))[k] = q[j + k]
    BY <2>3, <2>4
  <2> QED BY <2>3, <2>5, <2>6
<1>3. /\ left \o right \in Seq(S) /\ Len(left \o right) = Len(q) - 1
      /\ \A k \in 1..(Len(q) - 1) : (left \o right)[k] = IF k <= j - 1 THEN left[k] ELSE right[k - (j - 1)]
  <2>1. Len(left) + Len(right) = Len(q) - 1
    <3>1. (j - 1) + (n - j) = n - 1
      BY <1>0
    <3>2. Len(left) = j - 1 /\ Len(right) = n - j /\ Len(q) = n
      BY <1>0, <1>1, <1>2
    <3> QED BY <3>1, <3>2, Zenon
  <2> QED BY <1>1, <2>1, ConcatProperties
<1>4. ASSUME NEW k \in 1..(Len(q) - 1) PROVE (left \o right)[k] = IF k < j THEN q[k] ELSE q[k + 1]
  <2>1. CASE k < j
    BY <1>1, <1>3, <2>1
  <2>2. CASE ~(k < j)
    <3>1. k - (j - 1) \in 1..(Len(q) - j) /\ j + (k - (j - 1)) = k + 1 /\ ~(k <= j - 1)
      BY <2>2
    <3> QED BY <1>2, <1>3, <2>2, <3>1
  <2> QED BY <2>1, <2>2
<1> QED BY <1>1, <1>2, <1>3, <1>4 DEF RemoveAt

LEMMA RemovedOnce ==
  ASSUME NEW S, NEW q \in Seq(S), IsInjective(q), NEW e
  PROVE  /\ RemoveFirst(q, e) \in Seq(S)
         /\ IsInjective(RemoveFirst(q, e))
         /\ ToSet(RemoveFirst(q, e)) = ToSet(q) \ {e}
<1>1. CASE \A i \in 1..Len(q) : q[i] # e
  <2>1. RemoveFirst(q, e) = q
    BY <1>1 DEF RemoveFirst
  <2>2. e \notin ToSet(q)
    BY <1>1 DEF ToSet
  <2> QED BY <2>1, <2>2
<1>2. CASE \E i \in 1..Len(q) : q[i] = e
  <2> DEFINE I == {i \in 1..Len(q) : q[i] = e}
             j == SelectInSeq(q, LAMBDA v : v = e)
  <2>1. PICK i \in 1..Len(q) : q[i] = e
    BY <1>2
  <2>2. I = {i}
    BY <2>1 DEF IsInjective
  <2>3. j = i
    <3>1. Min({i}) = i
      BY DEF Min
    <3>2. I # {} /\ Min(I) = i
      BY <2>2, <3>1
    <3> QED BY <3>2 DEF SelectInSeq
  <2> HIDE DEF j
  <2>4. PICK short \in Seq(S) :
          /\ short = RemoveAt(q, j) /\ Len(short) = Len(q) - 1
          /\ \A k \in 1..(Len(q) - 1) : short[k] = IF k < j THEN q[k] ELSE q[k + 1]
    BY <2>1, <2>3, RemovedAt
  <2>5. \A k, l \in 1..Len(q) : q[k] = q[l] => k = l
    BY DEF IsInjective
  <2>6. ASSUME NEW k \in 1..Len(short)
        PROVE  \E l \in 1..Len(q) : short[k] = q[l] /\ l # j /\ l = IF k < j THEN k ELSE k + 1
    <3>1. CASE k < j
      <4>1. k \in 1..Len(q) /\ short[k] = q[k] /\ k # j
        BY <2>1, <2>3, <2>4, <3>1
      <4> QED BY <3>1, <4>1
    <3>2. CASE ~(k < j)
      <4>1. k + 1 \in 1..Len(q) /\ short[k] = q[k + 1] /\ k + 1 # j
        BY <2>1, <2>3, <2>4, <3>2
      <4> QED BY <3>2, <4>1
    <3> QED BY <3>1, <3>2
  <2>7. IsInjective(short)
    <3>1. \A k, l \in 1..Len(short) : short[k] = short[l] => k = l
      BY <2>1, <2>3, <2>5, <2>6
    <3> QED BY <3>1 DEF IsInjective
  <2>8. ASSUME NEW k \in 1..Len(q), k # j PROVE q[k] \in ToSet(short)
    <3>1. CASE k < j
      <4>1. k \in 1..Len(short) /\ short[k] = q[k]
        BY <2>1, <2>3, <2>4, <3>1
      <4> QED BY <4>1 DEF ToSet
    <3>2. CASE k > j
      <4>1. k - 1 \in 1..Len(short) /\ short[k - 1] = q[k]
        <5>1. k - 1 \in 1..(Len(q) - 1) /\ ~(k - 1 < j) /\ (k - 1) + 1 = k
          BY <2>1, <2>3, <3>2
        <5> QED BY <2>4, <5>1
      <4> QED BY <4>1 DEF ToSet
    <3> QED BY <2>1, <2>3, <2>8, <3>1, <3>2
  <2>9. ToSet(short) = ToSet(q) \ {e}
    <3>1. ToSet(q) = {q[k] : k \in 1..Len(q)} /\ ToSet(short) = {short[k] : k \in 1..Len(short)}
      BY DEF ToSet
    <3>2. \A k \in 1..Len(q) : q[k] = e <=> k = j
      BY <2>1, <2>3, <2>5
    <3> QED BY <2>6, <2>8, <3>1, <3>2, SMTT(30)
  <2>10. RemoveFirst(q, e) = short
    BY <1>2, <2>4 DEF RemoveFirst, j
  <2> QED BY <2>4, <2>7, <2>9, <2>10
<1> QED BY <1>1, <1>2

(* The queue stays the list of what is pending.                             *)
LEMMA QueueStep ==
  ASSUME TypeOK, QueueInv, QueueMoves
  PROVE  QueueInv'
<1>1. CASE UNCHANGED queue /\ \A r \in Requests : status'[r] = "pending_settlement" <=> status[r] = "pending_settlement"
  BY <1>1 DEF QueueInv, Pending
<1>2. ASSUME NEW r \in Requests, queue' = Append(RemoveFirst(queue, r), r),
             status' = [status EXCEPT ![r] = "pending_settlement"]
      PROVE  QueueInv'
  <2>1. PICK rest \in Seq(Requests) : rest = RemoveFirst(queue, r) /\ IsInjective(rest) /\ ToSet(rest) = Pending \ {r}
    BY RemovedOnce DEF QueueInv
  <2>2. r \notin ToSet(rest)
    BY <2>1
  <2>3. /\ Append(rest, r) \in Seq(Requests) /\ Len(Append(rest, r)) = Len(rest) + 1
        /\ Append(rest, r)[Len(rest) + 1] = r
        /\ \A k \in 1..Len(rest) : Append(rest, r)[k] = rest[k]
    OBVIOUS
  <2>4. IsInjective(Append(rest, r))
    BY <2>1, <2>2, <2>3 DEF IsInjective, ToSet
  <2>5. ToSet(Append(rest, r)) = ToSet(rest) \cup {r}
    BY <2>3 DEF ToSet
  <2>6. Pending' = Pending \cup {r}
    BY <1>2 DEF Pending, TypeOK
  <2> QED BY <1>2, <2>1, <2>3, <2>4, <2>5, <2>6 DEF QueueInv
<1>3. ASSUME NEW r \in Requests, queue' = RemoveFirst(queue, r), status' = [status EXCEPT ![r] = "completed"]
      PROVE  QueueInv'
  <2>1. queue' \in Seq(Requests) /\ IsInjective(queue') /\ ToSet(queue') = Pending \ {r}
    BY <1>3, RemovedOnce DEF QueueInv
  <2>2. Pending' = Pending \ {r}
    BY <1>3 DEF Pending, TypeOK
  <2> QED BY <2>1, <2>2 DEF QueueInv
<1> QED BY <1>1, <1>2, <1>3 DEF QueueMoves

(* Which methods move the queue.                                            *)
LEMMA InPlaceMoves ==
  ASSUME TypeOK, NEW r \in Requests, UNCHANGED queue,
         \/ \E amount : StartOperation(r, amount)
         \/ \E h, c : Finalize(r, [reserved |-> h, cost |-> c])
         \/ \E code : MarkOperationPendingUnknown(r, code) \/ FailOperation(r, code) \/ RecordFailure(r, code)
         \/ WalletStep \/ UNCHANGED vars
  PROVE  QueueMoves
<1>1. ASSUME NEW amount, StartOperation(r, amount) PROVE QueueMoves
  BY <1>1 DEF TypeOK, StartOperation, StartCreated, QueueMoves
<1>2. ASSUME NEW h, NEW c, Finalize(r, [reserved |-> h, cost |-> c]) PROVE QueueMoves
  BY <1>2 DEF Finalize, QueueMoves
<1>3. ASSUME NEW code, MarkOperationPendingUnknown(r, code) PROVE QueueMoves
  BY <1>3 DEF TypeOK, MarkOperationPendingUnknown, MarkUnknownAccepted, QueueMoves
<1>4. ASSUME NEW code, FailOperation(r, code) PROVE QueueMoves
  BY <1>4 DEF TypeOK, FailOperation, FailAccepted, QueueMoves
<1>5. ASSUME NEW code, RecordFailure(r, code) PROVE QueueMoves
  BY <1>5 DEF RecordFailure, QueueMoves
<1>6. CASE WalletStep \/ UNCHANGED vars
  BY <1>6 DEF WalletStep, Adjust, CompensateLegacyUsage, vars, QueueMoves
<1> QED BY <1>1, <1>2, <1>3, <1>4, <1>5, <1>6

LEMMA MarkMoves ==
  ASSUME NEW r \in Requests, NEW input, MarkPendingSettlement(r, input)
  PROVE  QueueMoves
BY DEF MarkPendingSettlement, MarkOperationPendingSettlement, QueueMoves

LEMMA CompleteMoves ==
  ASSUME NEW r \in Requests, Complete(r)
  PROVE  QueueMoves
BY DEF Complete, CompleteOperation, QueueMoves

-----------------------------------------------------------------------------
(* The store only settles what is in pending_settlement, at the stored cost *)
(* and hold, so the inputs of a successful Finalize are never foreign.      *)
LEMMA FinalizeIsStoreStep ==
  ASSUME KnownAmounts, NEW r \in Requests, NEW h, NEW c, Finalize(r, [reserved |-> h, cost |-> c])
  PROVE  OperationStep(r)
<1> DEFINE input == [reserved |-> h, cost |-> c]
<1>1. /\ status[r] = "pending_settlement" /\ reserved[r] = h /\ snapshot[r] = c
  BY DEF Finalize, FinalizeAccepted
<1>2. input \in UsageInputs
  BY <1>1 DEF KnownAmounts, UsageInputs
<1> QED BY <1>2 DEF OperationStep

(* A step of the recovery loop is a step of the store or none.              *)
LEMMA RecoveryIsStoreStep ==
  ASSUME KnownAmounts, RecoveryStep
  PROVE  \/ UNCHANGED vars
         \/ \E r \in Requests : OperationStep(r) /\ (CompleteOperation(r) \/ \E h, c : Finalize(r, [reserved |-> h, cost |-> c]))
<1>1. CASE ListPendingSettlements \/ PassEnds
  BY <1>1 DEF ListPendingSettlements, PassEnds, Nothing
<1>2. ASSUME NEW r \in Requests, RecoverItem(r)
      PROVE  UNCHANGED vars \/ CompleteOperation(r) \/ \E h, c : Finalize(r, [reserved |-> h, cost |-> c])
  BY <1>2 DEF RecoverItem, RecoverFinalize, RecoverComplete, RecoverRefused, RecoverFails, Lost, InPlace, Nothing, Complete, UsageOf
<1>3. ASSUME NEW r \in Requests, CompleteOperation(r) PROVE OperationStep(r)
  BY <1>3 DEF OperationStep
<1> QED BY <1>1, <1>2, <1>3, FinalizeIsStoreStep DEF RecoveryStep

(* The steps of the loop move the queue only with the store.                *)
LEMMA RecoveryMovesQueue ==
  ASSUME TypeOK, RecoveryStep
  PROVE  QueueMoves
<1>1. CASE ListPendingSettlements \/ PassEnds
  BY <1>1 DEF ListPendingSettlements, PassEnds, Nothing, vars, QueueMoves
<1>2. ASSUME NEW r \in Requests, RecoverItem(r) PROVE QueueMoves
  <2>1. \/ UNCHANGED queue /\ ((\E h, c : Finalize(r, [reserved |-> h, cost |-> c])) \/ UNCHANGED vars)
        \/ Complete(r)
    BY <1>2 DEF RecoverItem, RecoverFinalize, RecoverComplete, RecoverRefused, RecoverFails, Lost, InPlace, Nothing, UsageOf
  <2> QED BY <2>1, InPlaceMoves, CompleteMoves
<1> QED BY <1>1, <1>2 DEF RecoveryStep

-----------------------------------------------------------------------------
(* Whatever the store does after the list was read, an item on it keeps its *)
(* hold and its cost: only the usage row takes over from the snapshot.      *)
LEMMA ItemStays ==
  ASSUME TypeOK, LedgerInv, [Next]_vars, NEW item \in Items, ItemValid(item)
  PROVE  ItemValid(item)'
<1> DEFINE q == item.request
<1> USE DEF TypeOK, ItemValid, Items, UsageRows
<1>0. /\ q \in Requests /\ RequestInv(q)
      /\ status[q] \in {"pending_settlement", "completed"}
  BY DEF LedgerInv
<1>1. ASSUME NEW r \in Requests, OperationStep(r) PROVE ItemValid(item)'
  <2>1. ASSUME NEW amount \in Amounts, StartOperation(r, amount) PROVE ItemValid(item)'
    BY <1>0, <2>1 DEF StartOperation, StartCreated
  <2>2. ASSUME NEW input \in UsageInputs, MarkOperationPendingSettlement(r, input) PROVE ItemValid(item)'
    BY <1>0, <2>2 DEF MarkOperationPendingSettlement, MarkSettlementAccepted
  <2>3. ASSUME NEW why \in FailureCodes, MarkOperationPendingUnknown(r, why) PROVE ItemValid(item)'
    BY <1>0, <2>3 DEF MarkOperationPendingUnknown, MarkUnknownAccepted
  <2>4. ASSUME NEW input \in UsageInputs, Finalize(r, input) PROVE ItemValid(item)'
    BY <1>0, <2>4 DEF Finalize, FinalizeAccepted
  <2>5. CASE CompleteOperation(r)
    BY <1>0, <2>5 DEF CompleteOperation, CompleteAccepted, RequestInv, Held
  <2>6. ASSUME NEW code \in FailureCodes, FailOperation(r, code) PROVE ItemValid(item)'
    BY <1>0, <2>6 DEF FailOperation, FailAccepted
  <2>7. ASSUME NEW code \in FailureCodes, RecordFailure(r, code) PROVE ItemValid(item)'
    BY <1>0, <2>7 DEF RecordFailure, RequestInv, Charged, HasSuccess
  <2> QED BY <1>1, <2>1, <2>2, <2>3, <2>4, <2>5, <2>6, <2>7 DEF OperationStep
<1>2. CASE WalletStep \/ UNCHANGED vars
  BY <1>2 DEF WalletStep, Adjust, CompensateLegacyUsage, vars
<1> QED BY <1>1, <1>2 DEF Next

(* What a pass lists is valid when it lists it, and stays so.               *)
LEMMA ListStep ==
  ASSUME TypeOK, LedgerInv, KnownAmounts, QueueInv, ListInv, [Next]_vars, RecoveryStep \/ UNCHANGED recoveryVars
  PROVE  ListInv'
<1>1. CASE UNCHANGED batch
  BY <1>1, ItemStays DEF ListInv
<1>2. CASE batch' = <<>>
  BY <1>2 DEF ListInv
<1>3. CASE batch # <<>> /\ batch' = Tail(batch)
  <2>1. /\ batch' \in Seq(Items) /\ Len(batch') = Len(batch) - 1
        /\ \A i \in 1..Len(batch') : i + 1 \in 1..Len(batch) /\ batch'[i] = batch[i + 1]
    BY <1>3, HeadTailProperties DEF ListInv
  <2> QED BY <2>1, ItemStays DEF ListInv
<1>4. CASE ListPendingSettlements
  <2> DEFINE n == IF Len(queue) < RecoveryLimit THEN Len(queue) ELSE RecoveryLimit
  <2>1. n \in Nat /\ n <= Len(queue) /\ Oldest \in Seq(Requests) /\ Len(Oldest) = n
        /\ \A i \in 1..n : Oldest[i] = queue[i]
    BY RecoveryAssumption DEF QueueInv, Oldest
  <2>2. ASSUME NEW i \in DOMAIN Oldest PROVE Item(Oldest[i]) \in Items /\ ItemValid(Item(Oldest[i]))
    <3>1. Oldest[i] \in Pending
      BY <2>1 DEF QueueInv, ToSet
    <3>2. reserved[Oldest[i]] \in Nat /\ snapshot[Oldest[i]] \in Nat
      BY <3>1, BillingAssumption DEF KnownAmounts, Pending, TypeOK
    <3> QED BY <3>1, <3>2 DEF Item, Items, ItemValid, Pending
  <2>3. batch' = [i \in DOMAIN Oldest |-> Item(Oldest[i])] /\ UNCHANGED vars
    BY <1>4 DEF ListPendingSettlements, Nothing
  <2>4. batch' \in Seq(Items)
    BY <2>1, <2>2, <2>3
  <2>5. ASSUME NEW i \in DOMAIN batch' PROVE ItemValid(batch[i])'
    BY <2>2, <2>3, <2>5 DEF ItemValid, vars
  <2> QED BY <2>4, <2>5 DEF ListInv
<1>5. RecoveryStep => \/ ListPendingSettlements \/ batch' = <<>> \/ UNCHANGED batch
                      \/ batch # <<>> /\ batch' = Tail(batch)
  BY DEF RecoveryStep, PassEnds, RecoverItem, RecoverFinalize, RecoverComplete, RecoverRefused, RecoverFails, At, NextItem
<1> QED BY <1>1, <1>2, <1>3, <1>4, <1>5 DEF recoveryVars

(* The handlers reserve estimates and settle quotes.                        *)
LEMMA HandlersKnowAmounts == GatewayInv => KnownAmounts
BY GatewayAssumption DEF GatewayInv, HandlerInv, KnownAmounts

(* A handler takes one step of the store, or none.                          *)
LEMMA HandlerIsStoreStep ==
  ASSUME GatewayInv, NEW r \in Requests, HandlerStep(r)
  PROVE  UNCHANGED vars \/ OperationStep(r)
<1> USE DEF Lost, InPlace, Nothing
<1>0. HandlerInv(r) /\ Estimate[r] \in Amounts /\ {ResultUnknown, StreamIncomplete, IntentUnavailable, CallFailed} \subseteq FailureCodes
  BY GatewayAssumption DEF GatewayInv
<1>1. CASE Starts(r) \/ StartRefused(r)
  BY <1>0, <1>1 DEF Starts, StartRefused, OperationStep
<1>2. CASE Calls(r)
  BY <1>2 DEF Calls, NotSent, OutOfTime, Rejected, AnswerLost, Answered, StreamBegins, StreamEnds
<1>3. CASE FailsOperation(r)
  BY <1>0, <1>3 DEF HandlerInv, FailsOperation, OperationStep
<1>4. CASE RecordsFailure(r)
  BY <1>0, <1>4 DEF HandlerInv, RecordsFailure, OperationStep
<1>5. CASE MarksUnknown(r)
  BY <1>0, <1>5 DEF HandlerInv, MarksUnknown, OperationStep
<1>6. CASE PersistsIntent(r)
  <2>1. Settled(r) \in UsageInputs
    BY <1>0, <1>6 DEF HandlerInv, PersistsIntent, Settled, UsageInputs
  <2> QED BY <1>6, <2>1 DEF PersistsIntent, MarkPendingSettlement, OperationStep
<1>7. CASE FinalizesUsage(r)
  BY <1>7, FinalizeIsStoreStep, HandlersKnowAmounts DEF FinalizesUsage, Settled
<1>8. CASE Completes(r)
  BY <1>8 DEF Completes, Complete, OperationStep
<1>9. CASE HandlerDies(r)
  BY <1>9 DEF HandlerDies
<1> QED BY <1>1, <1>2, <1>3, <1>4, <1>5, <1>6, <1>7, <1>8, <1>9 DEF HandlerStep

(* Hence every step of the composition is a step of module Billing.         *)
LEMMA GatewayIsStoreStep == GatewayInv /\ [GatewayNext]_gatewayVars => [Next]_vars
<1> SUFFICES ASSUME GatewayInv, [GatewayNext]_gatewayVars PROVE [Next]_vars
  OBVIOUS
<1>1. CASE \E r \in Requests : HandlerStep(r)
  BY <1>1, HandlerIsStoreStep DEF Next
<1>2. CASE RecoveryStep
  BY <1>2, RecoveryIsStoreStep, HandlersKnowAmounts DEF Next
<1>3. CASE InPlace(WalletStep)
  BY <1>3 DEF InPlace, Next
<1>4. CASE UNCHANGED gatewayVars
  BY <1>4 DEF gatewayVars, allVars
<1> QED BY <1>1, <1>2, <1>3, <1>4 DEF GatewayNext

-----------------------------------------------------------------------------
\* What a step leaves alone: the row and the handler of another request.
SameRow(q) ==
  /\ status'[q] = status[q] /\ reserved'[q] = reserved[q]
  /\ snapshot'[q] = snapshot[q] /\ usage'[q] = usage[q]
SameHandler(q) ==
  /\ step'[q] = step[q] /\ cost'[q] = cost[q] /\ reason'[q] = reason[q]
  /\ reply'[q] = reply[q] /\ executed'[q] = executed[q]

(* A method touches the rows of its own request and no other.               *)
LEMMA StoreFrame ==
  ASSUME TypeOK, NEW r \in Requests, UNCHANGED vars \/ OperationStep(r), NEW q \in Requests, q # r
  PROVE  SameRow(q)
<1> USE DEF SameRow, TypeOK, UsageRows
<1>1. CASE UNCHANGED vars
  BY <1>1 DEF vars
<1>2. ASSUME NEW amount \in Amounts, StartOperation(r, amount) PROVE SameRow(q)
  BY <1>2 DEF StartOperation
<1>3. ASSUME NEW input \in UsageInputs, MarkOperationPendingSettlement(r, input) PROVE SameRow(q)
  BY <1>3 DEF MarkOperationPendingSettlement
<1>4. ASSUME NEW why \in FailureCodes, MarkOperationPendingUnknown(r, why) PROVE SameRow(q)
  BY <1>4 DEF MarkOperationPendingUnknown
<1>5. ASSUME NEW input \in UsageInputs, Finalize(r, input) PROVE SameRow(q)
  BY <1>5 DEF Finalize
<1>6. CASE CompleteOperation(r)
  BY <1>6 DEF CompleteOperation
<1>7. ASSUME NEW code \in FailureCodes, FailOperation(r, code) PROVE SameRow(q)
  BY <1>7 DEF FailOperation
<1>8. ASSUME NEW code \in FailureCodes, RecordFailure(r, code) PROVE SameRow(q)
  BY <1>8 DEF RecordFailure
<1> QED BY <1>1, <1>2, <1>3, <1>4, <1>5, <1>6, <1>7, <1>8 DEF OperationStep

(* So does a handler; it also keeps the types of what it knows.             *)
LEMMA HandlerFrame ==
  ASSUME GatewayInv, NEW r \in Requests, HandlerStep(r)
  PROVE  HandlerTypes' /\ \A q \in Requests : q # r => SameHandler(q)
<1> USE DEF SameHandler, HandlerTypes, Steps, Replies
<1>0. /\ HandlerTypes /\ Amounts \subseteq Nat
      /\ {ResultUnknown, StreamIncomplete, IntentUnavailable, CallFailed} \subseteq FailureCodes
  BY GatewayAssumption, BillingAssumption DEF GatewayInv
<1>1. CASE Starts(r) \/ StartRefused(r)
  BY <1>0, <1>1 DEF Starts, StartRefused, Finish, Goto, Answer
<1>2. CASE NotSent(r) \/ OutOfTime(r) \/ Rejected(r)
  BY <1>0, <1>2 DEF NotSent, OutOfTime, Rejected, NextCandidate, Goto
<1>3. CASE AnswerLost(r) \/ StreamBegins(r)
  BY <1>0, <1>3 DEF AnswerLost, StreamBegins, Executes, Unknown, Goto
<1>4. CASE Answered(r)
  <2>1. Quotes(r) \subseteq Nat
    BY <1>0 DEF Quotes
  <2> QED BY <1>0, <1>4, <2>1 DEF Answered, Executes, Billable, Fails, Unknown, Goto
<1>5. CASE StreamEnds(r)
  <2>1. Quotes(r) \subseteq Nat
    BY <1>0 DEF Quotes
  <2> QED BY <1>0, <1>5, <2>1 DEF StreamEnds, Answer, Goto
<1>6. CASE FailsOperation(r) \/ RecordsFailure(r)
  BY <1>0, <1>6 DEF FailsOperation, RecordsFailure, Again, Finish, Goto, Answer
<1>7. CASE MarksUnknown(r)
  BY <1>0, <1>7 DEF MarksUnknown, Marked, Again, Finish, Goto, Answer
<1>8. CASE PersistsIntent(r)
  BY <1>0, <1>8 DEF PersistsIntent, Again, Goto
<1>9. CASE FinalizesUsage(r) \/ Completes(r)
  BY <1>0, <1>9 DEF FinalizesUsage, Completes, Again, Finish, Goto, Answer
<1>10. CASE HandlerDies(r)
  BY <1>0, <1>10 DEF HandlerDies, Goto
<1> QED
  BY <1>1, <1>2, <1>3, <1>4, <1>5, <1>6, <1>7, <1>8, <1>9, <1>10 DEF HandlerStep, Calls

-----------------------------------------------------------------------------
(* The same row and the same handler promise the same.                      *)
LEMMA FramePreserves ==
  ASSUME GatewayInv, NEW q \in Requests, SameRow(q), SameHandler(q)
  PROVE  HandlerInv(q)' /\ CallInv(q)'
<1>1. HandlerInv(q) /\ CallInv(q)
  BY DEF GatewayInv
<1> QED BY <1>1 DEF SameRow, SameHandler, HandlerInv, CallInv

(* Each step of a handler keeps what it has to know of its own operation.   *)
LEMMA HandlerKeepsOwn ==
  ASSUME GatewayInv, NEW r \in Requests, HandlerStep(r)
  PROVE  HandlerInv(r)' /\ CallInv(r)'
<1> USE DEF Lost, InPlace, Nothing, TypeOK, HandlerTypes, UsageRows
<1>0. /\ TypeOK /\ HandlerTypes /\ HandlerInv(r) /\ CallInv(r) /\ Estimate[r] \in Amounts
      /\ Estimate[r] \in Nat /\ Amounts \subseteq Nat
  BY GatewayAssumption, BillingAssumption DEF GatewayInv, StoreInv
<1>a. /\ status[r] = "completed" => usage[r].kind = "success"
      /\ status[r] = "pending_settlement" /\ usage[r].kind = "success" => usage[r].cost = snapshot[r]
  BY DEF GatewayInv, StoreInv, LedgerInv, RequestInv, Charged, Held, HasSuccess
<1>1. CASE Starts(r) \/ StartRefused(r)
  <2>1. \/ UNCHANGED vars
        \/ /\ status'[r] = "processing" /\ reserved'[r] = Estimate[r]
           /\ snapshot'[r] = snapshot[r] /\ usage'[r] = usage[r]
    BY <1>0, <1>1 DEF Starts, StartRefused, StartOperation
  <2>2. CASE Starts(r)
    BY <1>0, <2>2 DEF Starts, StartOperation, Goto, HandlerInv, CallInv
  <2>3. CASE StartRefused(r)
    <3>1. /\ step'[r] = "done" /\ reply'[r] \in {"replay", "refused", "error", "streamed"}
          /\ cost' = cost /\ executed' = executed /\ step[r] = "arriving"
      BY <1>0, <2>3 DEF StartRefused, Finish, Goto, Answer
    <3> QED BY <1>0, <2>1, <3>1 DEF HandlerInv, CallInv, vars
  <2> QED BY <1>1, <2>2, <2>3
<1>2. CASE NotSent(r) \/ OutOfTime(r) \/ Rejected(r)
  BY <1>0, <1>2 DEF NotSent, OutOfTime, Rejected, NextCandidate, Goto, vars, HandlerInv, CallInv
<1>3. CASE AnswerLost(r) \/ StreamBegins(r)
  BY <1>0, <1>3 DEF AnswerLost, StreamBegins, Executes, Unknown, Goto, vars, HandlerInv, CallInv
<1>4. CASE Answered(r)
  <2>1. Quotes(r) \subseteq Amounts
    BY <1>0 DEF Quotes
  <2>2. CASE Billable(r)
    BY <1>0, <1>4, <2>1, <2>2 DEF Answered, Executes, Billable, Goto, vars, HandlerInv, CallInv
  <2>3. CASE Fails(r) \/ Unknown(r, ResultUnknown)
    BY <1>0, <1>4, <2>3 DEF Answered, Executes, Fails, Unknown, Goto, vars, HandlerInv, CallInv
  <2> QED BY <1>4, <2>2, <2>3 DEF Answered
<1>5. CASE StreamEnds(r)
  <2>1. Quotes(r) \subseteq Amounts
    BY <1>0 DEF Quotes
  <2> QED BY <1>0, <1>5, <2>1 DEF StreamEnds, Answer, Goto, vars, HandlerInv, CallInv
<1>6. CASE FailsOperation(r)
  BY <1>0, <1>6 DEF FailsOperation, FailOperation, FailAccepted, Again, Goto, vars, HandlerInv, CallInv
<1>7. CASE RecordsFailure(r)
  <2>1. /\ status' = status /\ reserved' = reserved /\ snapshot' = snapshot
        /\ status[r] = "completed" => usage'[r] = usage[r]
    BY <1>0, <1>a, <1>7 DEF RecordsFailure, RecordFailure, vars
  <2>2. /\ cost' = cost /\ executed' = executed /\ step[r] = "recording" /\ step'[r] = "done"
        /\ reply'[r] \in {"streamed", IF reason[r] = StreamIncomplete THEN "incomplete" ELSE "failed"}
    BY <1>0, <1>7 DEF RecordsFailure, Finish, Goto, Answer
  <2> QED BY <1>0, <2>1, <2>2 DEF HandlerInv, CallInv
<1>8. CASE MarksUnknown(r)
  <2>1. /\ reserved' = reserved /\ snapshot' = snapshot /\ usage' = usage
        /\ status'[r] = status[r] \/ (status[r] = "processing" /\ status'[r] = "pending_unknown")
    BY <1>0, <1>8 DEF MarksUnknown, MarkOperationPendingUnknown, MarkUnknownAccepted, vars
  <2>2. cost' = cost /\ executed' = executed /\ reason' = reason /\ step[r] = "marking"
    BY <1>8 DEF MarksUnknown, Again
  <2>3. \/ step'[r] = "marking" /\ reply'[r] = reply[r]
        \/ step'[r] = "recording" /\ reason[r] = StreamIncomplete /\ reply'[r] = reply[r]
        \/ step'[r] = "done" /\ reply'[r] \in {"unsettled", "streamed"}
        \/ step'[r] = "done" /\ reason[r] # IntentUnavailable /\ reply'[r] \in {"held", "streamed"}
    BY <1>0, <1>8 DEF MarksUnknown, Marked, Again, Finish, Goto, Answer
  <2> QED
    BY <1>0, <2>1, <2>2, <2>3 DEF HandlerInv, CallInv, ResultUnknown, StreamIncomplete, IntentUnavailable, CallFailed
<1>9. CASE PersistsIntent(r)
  BY <1>0, <1>9 DEF PersistsIntent, MarkPendingSettlement, MarkOperationPendingSettlement, MarkSettlementAccepted,
     MarkSettlementReplayed, Settled, Again, Goto, vars, HandlerInv, CallInv
<1>10. CASE FinalizesUsage(r)
  BY <1>0, <1>10 DEF FinalizesUsage, Finalize, Settled, Again, Finish, Goto, Answer, vars, HandlerInv, CallInv
<1>11. CASE Completes(r)
  <2>1. /\ reserved' = reserved /\ usage' = usage
        /\ \/ status'[r] = status[r] /\ snapshot'[r] = snapshot[r]
           \/ status[r] = "pending_settlement" /\ usage[r].kind = "success" /\ status'[r] = "completed"
    BY <1>0, <1>11 DEF Completes, Complete, CompleteOperation, CompleteAccepted, HasSuccess, vars
  <2>2. /\ cost' = cost /\ executed' = executed /\ reason' = reason /\ step[r] = "completing"
        /\ \/ step'[r] = "completing" /\ reply'[r] = reply[r]
           \/ step'[r] = "done" /\ reply'[r] \in {"delivered", "streamed"}
    BY <1>0, <1>11 DEF Completes, Again, Finish, Goto, Answer
  <2> QED BY <1>0, <1>a, <2>1, <2>2 DEF HandlerInv, CallInv
<1>12. CASE HandlerDies(r)
  BY <1>0, <1>12 DEF HandlerDies, Goto, vars, HandlerInv, CallInv
<1> QED
  BY <1>1, <1>2, <1>3, <1>4, <1>5, <1>6, <1>7, <1>8, <1>9, <1>10, <1>11, <1>12 DEF HandlerStep, Calls

(* What the loop does to an operation breaks no promise of its handler: the *)
(* status goes on only from pending_settlement, and the cost stays.         *)
LEMMA RecoveryKeepsOwn ==
  ASSUME GatewayInv, UNCHANGED handlerVars, NEW r \in Requests,
         CompleteOperation(r) \/ \E h, c : Finalize(r, [reserved |-> h, cost |-> c])
  PROVE  HandlerInv(r)' /\ CallInv(r)'
<1> USE DEF TypeOK, HandlerTypes, UsageRows
<1>0. TypeOK /\ HandlerInv(r) /\ CallInv(r)
  BY DEF GatewayInv, StoreInv
<1>1. CASE CompleteOperation(r)
  <2>1. /\ status[r] = "pending_settlement" /\ HasSuccess(r) /\ status'[r] = "completed"
        /\ reserved' = reserved /\ usage' = usage
    BY <1>0, <1>1 DEF CompleteOperation, CompleteAccepted
  <2>2. usage[r].cost = snapshot[r]
    BY <2>1 DEF GatewayInv, StoreInv, LedgerInv, RequestInv, Held
  <2> QED BY <1>0, <2>1, <2>2 DEF HandlerInv, CallInv, handlerVars
<1>2. ASSUME NEW h, NEW c, Finalize(r, [reserved |-> h, cost |-> c]) PROVE HandlerInv(r)' /\ CallInv(r)'
  <2>1. status[r] = "pending_settlement" /\ status' = status /\ reserved' = reserved /\ snapshot' = snapshot
    BY <1>2 DEF Finalize, FinalizeAccepted
  <2> QED BY <1>0, <2>1 DEF HandlerInv, CallInv, handlerVars
<1> QED BY <1>1, <1>2

(* Whatever fails or dies between two steps, every handler and every        *)
(* operation keep what the invariant says of them.                          *)
LEMMA GatewayStep == GatewayInv /\ [GatewayNext]_gatewayVars => GatewayInv'
<1> SUFFICES ASSUME GatewayInv, [GatewayNext]_gatewayVars PROVE GatewayInv'
  OBVIOUS
<1> USE DEF StoreInv
<1>1. StoreInv'
  BY GatewayIsStoreStep, TypeStep, LedgerStep, KeyStep DEF GatewayInv
<1>2. ASSUME NEW r \in Requests, HandlerStep(r), NEW q \in Requests
      PROVE  HandlerTypes' /\ HandlerInv(q)' /\ CallInv(q)'
  <2>1. CASE q = r
    BY <1>2, <2>1, HandlerFrame, HandlerKeepsOwn
  <2>2. CASE q # r
    <3>1. SameRow(q)
      BY <1>2, <2>2, HandlerIsStoreStep, StoreFrame DEF GatewayInv
    <3> QED BY <1>2, <2>2, <3>1, HandlerFrame, FramePreserves
  <2> QED BY <2>1, <2>2
<1>3. ASSUME UNCHANGED handlerVars PROVE HandlerTypes' /\ \A q \in Requests : SameHandler(q)
  BY <1>3 DEF GatewayInv, HandlerTypes, SameHandler, handlerVars
<1>4. ASSUME RecoveryStep, UNCHANGED handlerVars, NEW q \in Requests
      PROVE  HandlerInv(q)' /\ CallInv(q)'
  <2>1. CASE UNCHANGED vars
    BY <1>3, <1>4, <2>1, FramePreserves DEF SameRow, vars
  <2>2. ASSUME NEW r \in Requests, OperationStep(r),
               CompleteOperation(r) \/ \E h, c : Finalize(r, [reserved |-> h, cost |-> c])
        PROVE  HandlerInv(q)' /\ CallInv(q)'
    <3>1. CASE q = r
      BY <1>4, <2>2, <3>1, RecoveryKeepsOwn
    <3>2. CASE q # r
      BY <1>3, <1>4, <2>2, <3>2, StoreFrame, FramePreserves DEF GatewayInv
    <3> QED BY <3>1, <3>2
  <2> QED BY <1>4, <2>1, <2>2, RecoveryIsStoreStep, HandlersKnowAmounts
<1>5. ASSUME WalletStep \/ UNCHANGED vars, UNCHANGED handlerVars, NEW q \in Requests
      PROVE  HandlerInv(q)' /\ CallInv(q)'
  <2>1. SameRow(q)
    BY <1>5 DEF SameRow, WalletStep, Adjust, CompensateLegacyUsage, vars
  <2> QED BY <1>3, <1>5, <2>1, FramePreserves
<1>6. CASE \E r \in Requests : HandlerStep(r)
  <2>1. HandlerTypes'
    BY <1>6, HandlerFrame
  <2> QED BY <1>1, <1>2, <1>6, <2>1 DEF GatewayInv
<1>7. CASE RecoveryStep /\ UNCHANGED handlerVars
  BY <1>1, <1>3, <1>4, <1>7 DEF GatewayInv
<1>8. CASE (WalletStep \/ UNCHANGED vars) /\ UNCHANGED handlerVars
  BY <1>1, <1>3, <1>5, <1>8 DEF GatewayInv
<1> QED BY <1>6, <1>7, <1>8 DEF GatewayNext, InPlace, gatewayVars, allVars

(* The invariant holds in every reachable state, for any number of requests *)
(* and candidate routes, any limits of the retries and any estimates.       *)
THEOREM GatewayInvariant == GatewaySpec => []GatewayInv
<1>1. GatewayInit => GatewayInv
  <2> SUFFICES ASSUME GatewayInit PROVE GatewayInv
    OBVIOUS
  <2>1. TypeOK /\ LedgerInv /\ OneOperationPerKey
    BY InitInv DEF GatewayInit, Init, OneOperationPerKey
  <2>2. HandlerTypes
    BY DEF GatewayInit, HandlerInit, HandlerTypes, Steps, Replies
  <2>3. ASSUME NEW r \in Requests PROVE HandlerInv(r) /\ CallInv(r)
    BY DEF GatewayInit, Init, HandlerInit, HandlerInv, CallInv
  <2> QED BY <2>1, <2>2, <2>3 DEF GatewayInv, StoreInv
<1> QED BY <1>1, GatewayStep, PTL DEF GatewaySpec

(* Handlers and the recovery loop implement the store's specification, so   *)
(* that whatever is proved of the store holds under them.                   *)
THEOREM GatewayImplementsBilling == GatewaySpec => Spec
<1>1. GatewayInit => Init
  BY DEF GatewayInit
<1> QED BY <1>1, GatewayInvariant, GatewayIsStoreStep, PTL DEF GatewaySpec, Spec

-----------------------------------------------------------------------------
(* The callers of the store beside the loop, and what the loop relies on.   *)
RecoveringInv ==
  TypeOK /\ LedgerInv /\ KnownAmounts /\ QueueInv /\ ListInv /\ stage \in {"finalizing", "completing"}

LEMMA CallersUseStore ==
  ASSUME TypeOK, Callers
  PROVE  Next /\ QueueMoves
<1>1. CASE InPlace(WalletStep)
  <2>1. WalletStep /\ UNCHANGED queue
    BY <1>1 DEF InPlace
  <2> QED BY <2>1 DEF Next, WalletStep, Adjust, CompensateLegacyUsage, QueueMoves
<1>2. ASSUME NEW r \in Requests, CallerStep(r) PROVE Next /\ QueueMoves
  <2>1. OperationStep(r)
    BY <1>2 DEF CallerStep, InPlace, MarkPendingSettlement, Complete, OperationStep
  <2>2. \/ \E input \in UsageInputs : MarkPendingSettlement(r, input)
        \/ Complete(r)
        \/ UNCHANGED queue /\ \/ \E amount : StartOperation(r, amount)
                              \/ \E input \in UsageInputs : Finalize(r, input)
                              \/ \E code : MarkOperationPendingUnknown(r, code) \/ FailOperation(r, code) \/ RecordFailure(r, code)
    BY <1>2 DEF CallerStep, InPlace
  <2>3. ASSUME NEW input \in UsageInputs, Finalize(r, input), UNCHANGED queue PROVE QueueMoves
    <3>1. input = [reserved |-> input.reserved, cost |-> input.cost]
      BY DEF UsageInputs
    <3>2. \E h, c : Finalize(r, [reserved |-> h, cost |-> c])
      BY <2>3, <3>1, Zenon
    <3> QED BY <2>3, <3>2, InPlaceMoves
  <2>4. QueueMoves
    <3>1. CASE \E input \in UsageInputs : MarkPendingSettlement(r, input)
      BY <3>1, MarkMoves
    <3>2. CASE Complete(r)
      BY <3>2, CompleteMoves
    <3>3. CASE UNCHANGED queue /\ \/ \E amount : StartOperation(r, amount)
                                  \/ \E code : MarkOperationPendingUnknown(r, code) \/ FailOperation(r, code) \/ RecordFailure(r, code)
      BY <3>3, InPlaceMoves
    <3> QED BY <2>2, <2>3, <3>1, <3>2, <3>3
  <2> QED BY <2>1, <2>4 DEF Next
<1> QED BY <1>1, <1>2 DEF Callers

LEMMA AmountsStep == TypeOK /\ KnownAmounts /\ [Next]_vars => KnownAmounts'
<1> SUFFICES ASSUME TypeOK, KnownAmounts, [Next]_vars, NEW q \in Requests
    PROVE  /\ status'[q] # "absent" => reserved'[q] \in Amounts
           /\ status'[q] = "pending_settlement" => snapshot'[q] \in Amounts
  BY DEF KnownAmounts
<1>0. /\ status[q] # "absent" => reserved[q] \in Amounts
      /\ status[q] = "pending_settlement" => snapshot[q] \in Amounts
  BY DEF KnownAmounts
<1>1. ASSUME NEW r \in Requests, OperationStep(r) PROVE
           /\ status'[q] # "absent" => reserved'[q] \in Amounts
           /\ status'[q] = "pending_settlement" => snapshot'[q] \in Amounts
  BY <1>0, <1>1 DEF TypeOK, OperationStep, StartOperation, StartCreated, MarkOperationPendingSettlement, MarkSettlementAccepted,
     MarkOperationPendingUnknown, MarkUnknownAccepted, Finalize, CompleteOperation, CompleteAccepted,
     FailOperation, FailAccepted, RecordFailure, UsageInputs
<1>2. CASE WalletStep \/ UNCHANGED vars
  BY <1>0, <1>2 DEF WalletStep, Adjust, CompensateLegacyUsage, vars
<1> QED BY <1>1, <1>2 DEF Next

LEMMA RecoveringStep == RecoveringInv /\ [RecoveringNext]_allVars => RecoveringInv' /\ [Next]_vars
<1> SUFFICES ASSUME RecoveringInv, [RecoveringNext]_allVars PROVE RecoveringInv' /\ [Next]_vars
  OBVIOUS
<1> USE DEF RecoveringInv
<1>1. [Next]_vars
  BY RecoveryIsStoreStep, CallersUseStore DEF RecoveringNext, allVars, Next
<1>2. TypeOK' /\ LedgerInv' /\ KnownAmounts'
  BY <1>1, TypeStep, LedgerStep, AmountsStep
<1>3. QueueInv'
  <2>1. UNCHANGED allVars => QueueMoves
    BY DEF allVars, vars, QueueMoves
  <2> QED BY <2>1, QueueStep, RecoveryMovesQueue, CallersUseStore DEF RecoveringNext
<1>4. ListInv'
  BY <1>1, ListStep DEF RecoveringNext, allVars
<1>5. stage' \in {"finalizing", "completing"}
  BY DEF RecoveringNext, allVars, recoveryVars, RecoveryStep, ListPendingSettlements, PassEnds, RecoverItem,
     RecoverFinalize, RecoverComplete, RecoverRefused, RecoverFails, NextItem
<1> QED BY <1>1, <1>2, <1>3, <1>4, <1>5

LEMMA RecoveryStarts == Init /\ RecoveryInit => RecoveringInv
<1> SUFFICES ASSUME Init, RecoveryInit PROVE RecoveringInv
  OBVIOUS
<1>1. TypeOK /\ LedgerInv
  BY InitInv
<1>2. KnownAmounts /\ Pending = {}
  BY DEF Init, KnownAmounts, Pending
<1>3. QueueInv /\ ListInv /\ stage \in {"finalizing", "completing"}
  BY <1>2 DEF RecoveryInit, QueueInv, ListInv, ToSet, IsInjective
<1> QED BY <1>1, <1>2, <1>3 DEF RecoveringInv

(* The loop and its callers keep the queue of what waits for a settlement,  *)
(* whatever calls fail and wherever a pass ends.                            *)
THEOREM RecoveryTypeCorrect == RecoveringSpec => []RecoveryTypeOK
<1>1. RecoveringInv => RecoveryTypeOK
  BY DEF RecoveringInv, QueueInv, ListInv, Items, Pending, RecoveryTypeOK
<1> QED BY <1>1, RecoveryStarts, RecoveringStep, PTL DEF RecoveringSpec

(* A row that was listed before others went on can still be settled from    *)
(* the list: its hold and its cost are those of the operation.              *)
THEOREM ListedTheorem == RecoveringSpec => []ListedItemStaysValid
<1>1. RecoveringInv => ListedItemStaysValid
  BY DEF RecoveringInv, ListInv, ItemValid, ListedItemStaysValid
<1> QED BY <1>1, RecoveryStarts, RecoveringStep, PTL DEF RecoveringSpec

-----------------------------------------------------------------------------
(* An intent of a handler can be settled.                                   *)

\* A failed usage row is written last, and where nothing is to be settled; an
\* intent was accepted, so that Finalize will accept its numbers.
SettleInv(r) ==
  /\ usage[r].kind = "failed" => step[r] = "done" /\ status[r] # "pending_settlement"
  /\ step[r] = "recording" => status[r] \in {"processing", "failed", "pending_unknown"}
  /\ status[r] = "pending_settlement" => ValidUsage([reserved |-> reserved[r], cost |-> snapshot[r]])

LEMMA SettleKeepsOwn ==
  ASSUME GatewayInv, NEW r \in Requests, SettleInv(r), HandlerStep(r)
  PROVE  SettleInv(r)'
<1> USE DEF Lost, InPlace, Nothing, TypeOK, HandlerTypes, UsageRows, SettleInv, ValidUsage
<1>0. TypeOK /\ HandlerTypes /\ HandlerInv(r) /\ CallInv(r)
  BY DEF GatewayInv, StoreInv
<1>1. CASE Starts(r) \/ StartRefused(r)
  BY <1>0, <1>1 DEF Starts, StartRefused, StartOperation, StartCreated, Finish, Goto, vars
<1>2. CASE NotSent(r) \/ OutOfTime(r) \/ Rejected(r)
  BY <1>0, <1>2 DEF NotSent, OutOfTime, Rejected, NextCandidate, Goto, vars, HandlerInv
<1>3. CASE AnswerLost(r) \/ StreamBegins(r)
  BY <1>0, <1>3 DEF AnswerLost, StreamBegins, Executes, Unknown, Goto, vars, HandlerInv
<1>4. CASE Answered(r)
  BY <1>0, <1>4 DEF Answered, Executes, Billable, Fails, Unknown, Goto, vars, HandlerInv
<1>5. CASE StreamEnds(r)
  BY <1>0, <1>5 DEF StreamEnds, Goto, vars, HandlerInv
<1>6. CASE FailsOperation(r)
  BY <1>0, <1>6 DEF FailsOperation, FailOperation, FailAccepted, Again, Goto, vars, HandlerInv
<1>7. CASE RecordsFailure(r)
  BY <1>0, <1>7 DEF RecordsFailure, RecordFailure, Finish, Goto, vars, HandlerInv
<1>8. CASE MarksUnknown(r)
  BY <1>0, <1>8 DEF MarksUnknown, MarkOperationPendingUnknown, MarkUnknownAccepted, Marked, Again, Finish, Goto, vars,
     HandlerInv, IntentUnavailable, StreamIncomplete
<1>9. CASE PersistsIntent(r)
  BY <1>0, <1>9 DEF PersistsIntent, MarkPendingSettlement, MarkOperationPendingSettlement, MarkSettlementAccepted,
     Settled, Again, Goto, vars, HandlerInv
<1>10. CASE FinalizesUsage(r)
  BY <1>0, <1>10 DEF FinalizesUsage, Finalize, Again, Finish, Goto, vars, HandlerInv
<1>11. CASE Completes(r)
  BY <1>0, <1>11 DEF Completes, Complete, CompleteOperation, Again, Finish, Goto, vars, HandlerInv
<1>12. CASE HandlerDies(r)
  BY <1>0, <1>12 DEF HandlerDies, Goto, vars, HandlerInv
<1> QED
  BY <1>1, <1>2, <1>3, <1>4, <1>5, <1>6, <1>7, <1>8, <1>9, <1>10, <1>11, <1>12 DEF HandlerStep, Calls

LEMMA SettleRests ==
  ASSUME GatewayInv, NEW q \in Requests, SettleInv(q), SameRow(q), SameHandler(q)
  PROVE  SettleInv(q)'
BY DEF SameRow, SameHandler, SettleInv, ValidUsage

LEMMA SettleRecovers ==
  ASSUME GatewayInv, UNCHANGED handlerVars, NEW r \in Requests, SettleInv(r),
         CompleteOperation(r) \/ \E h, c : Finalize(r, [reserved |-> h, cost |-> c])
  PROVE  SettleInv(r)'
<1>0. TypeOK
  BY DEF GatewayInv, StoreInv
<1>1. CASE CompleteOperation(r)
  BY <1>0, <1>1 DEF SettleInv, TypeOK, CompleteOperation, CompleteAccepted, handlerVars
<1>2. ASSUME NEW h, NEW c, Finalize(r, [reserved |-> h, cost |-> c]) PROVE SettleInv(r)'
  BY <1>0, <1>2 DEF SettleInv, ValidUsage, TypeOK, Finalize, handlerVars
<1> QED BY <1>1, <1>2

LEMMA SettleStep ==
  ASSUME GatewayInv, \A q \in Requests : SettleInv(q), [GatewayNext]_gatewayVars, NEW q \in Requests
  PROVE  SettleInv(q)'
<1>0. TypeOK
  BY DEF GatewayInv, StoreInv
<1>1. ASSUME NEW r \in Requests, HandlerStep(r) PROVE SettleInv(q)'
  <2>1. CASE q = r
    BY <1>1, <2>1, SettleKeepsOwn
  <2>2. CASE q # r
    BY <1>0, <1>1, <2>2, HandlerIsStoreStep, StoreFrame, HandlerFrame, SettleRests
  <2> QED BY <2>1, <2>2
<1>2. CASE RecoveryStep /\ UNCHANGED handlerVars
  <2>1. SameHandler(q)
    BY <1>2 DEF SameHandler, handlerVars
  <2>2. CASE UNCHANGED vars
    BY <2>1, <2>2, SettleRests DEF SameRow, vars
  <2>3. ASSUME NEW r \in Requests, OperationStep(r),
               CompleteOperation(r) \/ \E h, c : Finalize(r, [reserved |-> h, cost |-> c])
        PROVE  SettleInv(q)'
    <3>1. CASE q = r
      BY <1>2, <2>3, <3>1, SettleRecovers
    <3>2. CASE q # r
      BY <1>0, <2>1, <2>3, <3>2, StoreFrame, SettleRests
    <3> QED BY <3>1, <3>2
  <2> QED BY <1>2, <2>2, <2>3, RecoveryIsStoreStep, HandlersKnowAmounts
<1>3. CASE (WalletStep \/ UNCHANGED vars) /\ UNCHANGED handlerVars
  <2>1. SameRow(q) /\ SameHandler(q)
    BY <1>3 DEF SameRow, SameHandler, handlerVars, WalletStep, Adjust, CompensateLegacyUsage, vars
  <2> QED BY <2>1, SettleRests
<1> QED BY <1>1, <1>2, <1>3 DEF GatewayNext, InPlace, gatewayVars, allVars

(* Handlers leave nothing under an operation that waits for its settlement  *)
(* that Finalize would refuse, wherever they fail or die: neither a failed  *)
(* usage row nor another hold or cost.                                      *)
THEOREM SettleTheorem == GatewaySpec => []PendingCanSettle
<1> DEFINE Settling == \A r \in Requests : SettleInv(r)
<1>1. GatewayInit => Settling
  BY DEF GatewayInit, Init, HandlerInit, NoUsage, SettleInv
<1>2. GatewayInv /\ Settling /\ [GatewayNext]_gatewayVars => Settling'
  BY SettleStep
<1>3. GatewayInv /\ Settling => PendingCanSettle
  <2> SUFFICES ASSUME GatewayInv, Settling, NEW r \in Requests, status[r] = "pending_settlement",
                      HasRoom(Owner[r], reserved[r] - snapshot[r]), NEW input,
                      input = [reserved |-> reserved[r], cost |-> snapshot[r]]
               PROVE  FinalizeAccepted(r, input) \/ FinalizeReplayed(r, input)
    BY DEF PendingCanSettle
  <2>1. TypeOK /\ RequestInv(r) /\ SettleInv(r) /\ HandlerInv(r)
    BY DEF GatewayInv, StoreInv, LedgerInv
  <2>2. ValidUsage(input) /\ usage[r].kind # "failed" /\ input.reserved = reserved[r] /\ input.cost = snapshot[r]
    BY <2>1 DEF SettleInv
  <2>3. CASE usage[r].kind = "success"
    BY <2>1, <2>2, <2>3 DEF RequestInv, Held, HasSuccess, FinalizeReplayed
  <2>4. CASE usage[r].kind = "none"
    <3>1. reservation[r] + reserved[r] = 0 /\ refund[r] = 0 /\ settlement[r] = 0
      BY <2>1, <2>4 DEF RequestInv, Held, Charged, HasSuccess
    <3>2. /\ balance[Owner[r]] \in Int /\ reserved[r] \in Nat /\ snapshot[r] \in Nat /\ reservation[r] \in Int
          /\ MinInt64 \in Int /\ MaxInt64 \in Int
      <4>1. snapshot[r] \in Amounts /\ Amounts \subseteq Nat
        BY HandlersKnowAmounts, BillingAssumption DEF KnownAmounts
      <4>2. Owner[r] \in Users /\ MinInt64 \in Int /\ MaxInt64 \in Int
        BY BillingAssumption
      <4> QED BY <2>1, <4>1, <4>2 DEF TypeOK
    <3>3. ReservationMatches(r)
      BY <3>1, <3>2 DEF ReservationMatches
    <3>4. RefundEntry(input) > 0 => balance[Owner[r]] <= MaxInt64 - RefundEntry(input)
      BY <2>2, <3>2 DEF HasRoom, RefundEntry
    <3>5. SettlementEntry(input) < 0 => balance[Owner[r]] >= MinInt64 - SettlementEntry(input)
      BY <2>2, <3>2 DEF HasRoom, SettlementEntry
    <3> QED BY <2>2, <2>4, <3>1, <3>3, <3>4, <3>5 DEF FinalizeAccepted
  <2> QED BY <2>1, <2>2, <2>3, <2>4 DEF TypeOK, UsageRows
<1> HIDE DEF Settling
<1> QED BY <1>1, <1>2, <1>3, GatewayInvariant, PTL DEF GatewaySpec

-----------------------------------------------------------------------------
(* The types of everything the composition keeps.                           *)
LEMMA HandlerMovesQueue ==
  ASSUME TypeOK, NEW r \in Requests, HandlerStep(r)
  PROVE  QueueMoves
<1> USE DEF Lost, InPlace, Nothing
<1>1. CASE Starts(r) \/ StartRefused(r)
  BY <1>1, InPlaceMoves DEF Starts, StartRefused
<1>2. CASE Calls(r) \/ HandlerDies(r)
  BY <1>2, InPlaceMoves DEF Calls, NotSent, OutOfTime, Rejected, AnswerLost, Answered, StreamBegins, StreamEnds, HandlerDies
<1>3. CASE FailsOperation(r) \/ RecordsFailure(r) \/ MarksUnknown(r)
  BY <1>3, InPlaceMoves DEF FailsOperation, RecordsFailure, MarksUnknown
<1>4. CASE PersistsIntent(r)
  BY <1>4, InPlaceMoves, MarkMoves DEF PersistsIntent
<1>5. CASE FinalizesUsage(r)
  BY <1>5, InPlaceMoves DEF FinalizesUsage, Settled
<1>6. CASE Completes(r)
  BY <1>6, InPlaceMoves, CompleteMoves DEF Completes
<1> QED BY <1>1, <1>2, <1>3, <1>4, <1>5, <1>6 DEF HandlerStep

LEMMA CountersStep ==
  ASSUME GatewayInv, NEW r \in Requests, HandlerStep(r),
         candidate \in [Requests -> 1..Candidates], attempts \in [Requests -> 0..(MaxUpstreamHTTPAttempts - 1)],
         tries \in [Requests -> 0..SettlementRetries]
  PROVE  /\ candidate' \in [Requests -> 1..Candidates] /\ attempts' \in [Requests -> 0..(MaxUpstreamHTTPAttempts - 1)]
         /\ tries' \in [Requests -> 0..SettlementRetries]
<1>0. Candidates \in Nat \ {0} /\ MaxUpstreamHTTPAttempts \in Nat \ {0} /\ SettlementRetries \in Nat
  BY GatewayAssumption
<1>1. \A s : Goto(r, s) => tries' \in [Requests -> 0..SettlementRetries]
  BY <1>0 DEF Goto
<1>2. Again(r) => tries' \in [Requests -> 0..SettlementRetries]
  BY <1>0 DEF Again
<1>3. NextCandidate(r) =>
        /\ candidate' \in [Requests -> 1..Candidates] /\ attempts' \in [Requests -> 0..(MaxUpstreamHTTPAttempts - 1)]
        /\ tries' \in [Requests -> 0..SettlementRetries]
  BY <1>0, <1>1 DEF NextCandidate
<1>4. CASE NotSent(r) \/ Rejected(r)
  BY <1>0, <1>3, <1>4 DEF NotSent, Rejected
<1>5. CASE Starts(r) \/ StartRefused(r) \/ OutOfTime(r) \/ AnswerLost(r) \/ Answered(r) \/ StreamBegins(r) \/ StreamEnds(r)
  BY <1>1, <1>5 DEF Starts, StartRefused, OutOfTime, AnswerLost, Answered, StreamBegins, StreamEnds, Finish, Executes,
     Unknown, Fails, Billable
<1>6. CASE FailsOperation(r) \/ RecordsFailure(r) \/ MarksUnknown(r)
  BY <1>1, <1>2, <1>6 DEF FailsOperation, RecordsFailure, MarksUnknown, Marked, Finish
<1>7. CASE PersistsIntent(r) \/ FinalizesUsage(r) \/ Completes(r) \/ HandlerDies(r)
  BY <1>1, <1>2, <1>7 DEF PersistsIntent, FinalizesUsage, Completes, HandlerDies, Finish
<1> QED BY <1>4, <1>5, <1>6, <1>7 DEF HandlerStep, Calls

(* Every variable of the handlers, the loop and the store keeps its type;   *)
(* the queue is what waits for its settlement, without repetition.          *)
THEOREM GatewayTypeCorrect == GatewaySpec => []GatewayTypeOK
<1> DEFINE Counters == /\ candidate \in [Requests -> 1..Candidates]
                       /\ attempts \in [Requests -> 0..(MaxUpstreamHTTPAttempts - 1)]
                       /\ tries \in [Requests -> 0..SettlementRetries]
           Queues == QueueInv /\ ListInv /\ stage \in {"finalizing", "completing"}
<1>1. GatewayInit => Counters /\ Queues
  <2> SUFFICES ASSUME GatewayInit PROVE Counters /\ Queues
    OBVIOUS
  <2>1. Queues
    BY RecoveryStarts DEF GatewayInit, RecoveringInv
  <2>2. Counters
    BY GatewayAssumption DEF GatewayInit, HandlerInit
  <2> QED BY <2>1, <2>2
<1>2. GatewayInv /\ Counters /\ [GatewayNext]_gatewayVars => Counters'
  <2> SUFFICES ASSUME GatewayInv, Counters, [GatewayNext]_gatewayVars PROVE Counters'
    OBVIOUS
  <2>1. CASE UNCHANGED handlerVars
    BY <2>1 DEF handlerVars
  <2>2. ASSUME NEW r \in Requests, HandlerStep(r) PROVE Counters'
    BY <2>2, CountersStep
  <2> QED BY <2>1, <2>2 DEF GatewayNext, gatewayVars
<1>3. GatewayInv /\ Queues /\ [GatewayNext]_gatewayVars => Queues'
  <2> SUFFICES ASSUME GatewayInv, Queues, [GatewayNext]_gatewayVars PROVE Queues'
    OBVIOUS
  <2>1. TypeOK /\ LedgerInv /\ KnownAmounts /\ [Next]_vars
    BY HandlersKnowAmounts, GatewayIsStoreStep DEF GatewayInv, StoreInv
  <2>2. RecoveryStep \/ UNCHANGED recoveryVars
    BY DEF GatewayNext, gatewayVars, allVars
  <2>3. ListInv'
    BY <2>1, <2>2, ListStep
  <2>4. stage' \in {"finalizing", "completing"}
    BY <2>2 DEF recoveryVars, RecoveryStep, ListPendingSettlements, PassEnds, RecoverItem,
       RecoverFinalize, RecoverComplete, RecoverRefused, RecoverFails, NextItem
  <2>5. QueueMoves
    <3>1. CASE \E r \in Requests : HandlerStep(r)
      BY <2>1, <3>1, HandlerMovesQueue
    <3>2. CASE RecoveryStep
      BY <2>1, <3>2, RecoveryMovesQueue
    <3>3. CASE InPlace(WalletStep) \/ UNCHANGED gatewayVars
      BY <3>3 DEF InPlace, WalletStep, Adjust, CompensateLegacyUsage, gatewayVars, allVars, vars, QueueMoves
    <3> QED BY <3>1, <3>2, <3>3 DEF GatewayNext
  <2> QED BY <2>1, <2>3, <2>4, <2>5, QueueStep
<1>4. GatewayInv /\ Counters /\ Queues => GatewayTypeOK
  BY DEF GatewayInv, StoreInv, HandlerTypes, QueueInv, ListInv, Items, Pending, RecoveryTypeOK, GatewayTypeOK
<1> HIDE DEF Counters, Queues
<1> QED BY <1>1, <1>2, <1>3, <1>4, GatewayInvariant, PTL DEF GatewaySpec

-----------------------------------------------------------------------------
(* The upstream carries out at most one call per idempotency key.           *)
THEOREM ExecutedTheorem == GatewaySpec => []ExecutedOncePerKey
<1>1. GatewayInv => ExecutedOncePerKey
  BY DEF GatewayInv, StoreInv, CallInv, OneOperationPerKey, ExecutedOncePerKey
<1> QED BY <1>1, GatewayInvariant, PTL

(* What a client is told of its call and of its money is true, and stays so *)
(* whatever the loop and other requests do afterwards.                      *)
THEOREM AnswersTheorem == GatewaySpec => []AnswersAreTrue
<1>1. GatewayInv => AnswersAreTrue
  <2> SUFFICES ASSUME GatewayInv, NEW r \in Requests
               PROVE  /\ reply[r] = "delivered" => Delivered(r)
                      /\ reply[r] = "failed" => IsFree(r)
                      /\ reply[r] = "held" => IsHeld(r)
    BY DEF AnswersAreTrue
  <2>1. TypeOK /\ StatusAgreesWithLedger /\ HandlerInv(r) /\ RequestInv(r)
    BY LedgerInvImplies DEF GatewayInv, StoreInv, LedgerInv
  <2>2. reply[r] = "delivered" => Delivered(r)
    BY <2>1 DEF HandlerInv, Delivered
  <2>3. reply[r] = "failed" => IsFree(r)
    BY <2>1 DEF HandlerInv, IsFree, RequestInv, Held, Released
  <2>4. reply[r] = "held" => IsHeld(r)
    <3>1. status[r] \in {"processing", "pending_unknown"} => Debited(r) = Estimate[r]
      BY <2>1 DEF HandlerInv, StatusAgreesWithLedger
    <3> QED BY <2>1, <3>1 DEF HandlerInv, IsHeld
  <2> QED BY <2>2, <2>3, <2>4
<1> QED BY <1>1, GatewayInvariant, PTL

-----------------------------------------------------------------------------
(* Folds over a sequence: the library's FoldLeft is a function that exists, *)
(* by way of the greatest element of the set of places it goes over.        *)

(* A nonempty finite set of numbers has a greatest one, which Max chooses.   *)
LEMMA MaxIsGreatest ==
  ASSUME NEW n \in Nat, NEW U \in SUBSET (1..n), U # {}
  PROVE  Max(U) \in U /\ \A m \in U : m <= Max(U)
<1> DEFINE N == {n - m : m \in U}
<1>1. N \in SUBSET Nat /\ N # {}
  <2>1. \A m \in U : n - m \in Nat
    OBVIOUS
  <2> QED BY <2>1
<1>2. PICK l \in N : \A m \in N : l <= m
  <2> HIDE DEF N
  <2> QED BY <1>1, LeastNumber
<1>3. PICK x \in U : l = n - x
  BY <1>2
<1>4. \A m \in U : x >= m
  <2> SUFFICES ASSUME NEW m \in U PROVE x >= m
    OBVIOUS
  <2>1. n - x <= n - m
    BY <1>2, <1>3
  <2> QED BY <2>1
<1> QED BY <1>3, <1>4 DEF Max

\* The recursion of a fold from the left over n elements, for a step that is a function.
IsFoldTable(g, d, base, W, T) ==
  /\ g \in [SUBSET T -> W]
  /\ \A U \in SUBSET T : g[U] = IF U = {} THEN base ELSE d[<<g[U \ {Max(U)}], Max(U)>>]

(* One more element at the end: the table of the set without it is extended.*)
LEMMA FoldGrows ==
  ASSUME NEW n \in Nat, NEW W, NEW base \in W, NEW d \in [W \X (1..n) -> W],
         NEW T \in SUBSET (1..n), T # {}, NEW g, IsFoldTable(g, d, base, W, T \ {Max(T)})
  PROVE  \E h : IsFoldTable(h, d, base, W, T)
<1> DEFINE x == Max(T)
           h == [U \in SUBSET T |-> IF x \in U THEN d[<<g[U \ {x}], x>>] ELSE g[U]]
<1>1. x \in T /\ \A m \in T : m <= x
  BY MaxIsGreatest
<1>2. \A U \in SUBSET T : U \ {x} \in SUBSET (T \ {x}) /\ (x \notin U => U \in SUBSET (T \ {x}))
  OBVIOUS
<1>3. ASSUME NEW U \in SUBSET T, x \in U PROVE Max(U) = x
  <2>1. Max(U) \in U /\ \A m \in U : m <= Max(U)
    BY <1>3, MaxIsGreatest
  <2>2. x <= Max(U) /\ Max(U) <= x
    BY <1>1, <1>3, <2>1
  <2>3. x \in 1..n /\ Max(U) \in 1..n
    BY <1>1, <2>1, Zenon
  <2> QED BY <2>2, <2>3
<1> HIDE DEF x
<1>4. h \in [SUBSET T -> W]
  BY <1>1, <1>2 DEF IsFoldTable, x
<1>5. ASSUME NEW U \in SUBSET T
      PROVE  h[U] = IF U = {} THEN base ELSE d[<<h[U \ {Max(U)}], Max(U)>>]
  <2>1. CASE x \in U
    <3>1. h[U] = d[<<g[U \ {x}], x>>] /\ U \ {x} \in SUBSET T /\ h[U \ {x}] = g[U \ {x}]
      BY <2>1
    <3> QED BY <1>3, <2>1, <3>1
  <2>2. CASE x \notin U
    <3>1. U \in SUBSET (T \ {x}) /\ h[U] = g[U]
      BY <1>2, <2>2
    <3>2. U \ {Max(U)} \in SUBSET T /\ h[U \ {Max(U)}] = g[U \ {Max(U)}]
      BY <2>2
    <3>3. g[U] = IF U = {} THEN base ELSE d[<<g[U \ {Max(U)}], Max(U)>>]
      BY <3>1 DEF IsFoldTable, x
    <3> HIDE DEF h
    <3> QED BY <3>1, <3>2, <3>3
  <2> QED BY <2>1, <2>2
<1> HIDE DEF h
<1> QED BY <1>4, <1>5 DEF IsFoldTable

(* The table of every n exists.                                             *)
LEMMA FoldExists ==
  ASSUME NEW n \in Nat, NEW W, NEW base \in W, NEW d \in [W \X (1..n) -> W]
  PROVE  \E g : IsFoldTable(g, d, base, W, 1..n)
<1> DEFINE Bad == {T \in SUBSET (1..n) : ~\E g : IsFoldTable(g, d, base, W, T)}
<1>1. ASSUME NEW T \in Bad, \A x \in T : T \ {x} \notin Bad PROVE FALSE
  <2>1. CASE T = {}
    <3> DEFINE g == [U \in SUBSET T |-> base]
    <3>1. IsFoldTable(g, d, base, W, T)
      BY <2>1 DEF IsFoldTable
    <3> QED BY <3>1
  <2>2. CASE T # {}
    <3>1. Max(T) \in T
      BY <2>2, MaxIsGreatest
    <3>2. PICK g : IsFoldTable(g, d, base, W, T \ {Max(T)})
      BY <1>1, <3>1
    <3>3. \E h : IsFoldTable(h, d, base, W, T)
      BY <2>2, <3>2, FoldGrows
    <3> QED BY <3>3
  <2> QED BY <2>1, <2>2
<1>2. Bad = {}
  <2> HIDE DEF Bad
  <2>1. Bad \in SUBSET (SUBSET (1..n)) /\ IsFiniteSet(1..n)
    BY FS_Interval DEF Bad
  <2> QED BY <1>1, <2>1, MinimalSubset
<1> QED BY <1>2

-----------------------------------------------------------------------------
(* The response history.                                                    *)
TurnKeys == ApiKeys \X (1..MaxTurns)
Turns == [previous : (1..MaxTurns) \cup {NoResponse}, bytes : Nat, expires : Nat]
Tables == UNION {[D -> Turns] : D \in SUBSET TurnKeys}

\* A store in order: what HistoryIsBounded says but for its limits.
Stores ==
  {s \in [entries : Tables, order : Seq(TurnKeys), retained : Nat] :
     /\ IsFiniteSet(DOMAIN s.entries)
     /\ IsInjective(s.order) /\ ToSet(s.order) = DOMAIN s.entries
     /\ s.retained = SumOver(Bytes(s.entries), DOMAIN s.entries)}

\* What removals can make of a store.
IsPart(t, s) ==
  /\ DOMAIN t.entries \subseteq DOMAIN s.entries
  /\ \A k \in DOMAIN t.entries : t.entries[k] = s.entries[k]
  /\ t.retained <= s.retained
Parts(s) == {t \in Stores : IsPart(t, s)}

(* A sum of natural numbers is one.                                         *)
LEMMA SumIsNatural ==
  ASSUME NEW f, NEW S, IsFiniteSet(S), \A x \in S : f[x] \in Nat
  PROVE  Numbers(f, S) /\ SumOver(f, S) \in Nat
<1>1. \A T \in SUBSET S : IsFiniteSet(T) /\ Numbers(f, T)
  BY FS_Subset DEF Numbers
<1> DEFINE Bad == {T \in SUBSET S : SumOver(f, T) \notin Nat}
<1>2. ASSUME NEW T \in Bad, \A x \in T : T \ {x} \notin Bad PROVE FALSE
  <2>1. CASE T = {}
    <3>1. SumOver(f, T) = 0
      BY <1>1, <2>1, SumZero
    <3> QED BY <3>1
  <2>2. ASSUME NEW x \in T PROVE FALSE
    <3>1. SumOver(f, T) = f[x] + SumOver(f, T \ {x})
      BY <1>1, SumFacts
    <3>2. SumOver(f, T \ {x}) \in Nat /\ f[x] \in Nat
      BY <1>2
    <3> QED BY <3>1, <3>2
  <2> QED BY <2>1, <2>2
<1>3. Bad = {}
  <2> HIDE DEF Bad
  <2>1. Bad \in SUBSET (SUBSET S)
    BY DEF Bad
  <2> QED BY <1>2, <2>1, MinimalSubset
<1> QED BY <1>1, <1>3

(* What a store in order consists of ...                                    *)
LEMMA StoreFields ==
  ASSUME NEW s \in Stores
  PROVE  /\ s = Store(s.entries, s.order, s.retained)
         /\ s.entries \in [DOMAIN s.entries -> Turns] /\ DOMAIN s.entries \in SUBSET TurnKeys
         /\ IsFiniteSet(DOMAIN s.entries)
         /\ s.order \in Seq(TurnKeys) /\ IsInjective(s.order) /\ ToSet(s.order) = DOMAIN s.entries
         /\ s.retained \in Nat /\ s.retained = SumOver(Bytes(s.entries), DOMAIN s.entries)
<1>1. PICK D \in SUBSET TurnKeys : s.entries \in [D -> Turns]
  BY DEF Stores, Tables
<1>2. D = DOMAIN s.entries
  BY <1>1
<1>3. s = Store(s.entries, s.order, s.retained)
  BY DEF Stores, Store
<1> QED BY <1>1, <1>2, <1>3 DEF Stores

(* ... and that its parts make one.                                         *)
LEMMA StoreIsStore ==
  ASSUME NEW e, NEW o, NEW n, e \in [DOMAIN e -> Turns], DOMAIN e \in SUBSET TurnKeys, IsFiniteSet(DOMAIN e),
         o \in Seq(TurnKeys), IsInjective(o), ToSet(o) = DOMAIN e, n \in Nat, n = SumOver(Bytes(e), DOMAIN e)
  PROVE  Store(e, o, n) \in Stores
<1>1. e \in Tables
  BY DEF Tables
<1>2. Store(e, o, n).entries = e /\ Store(e, o, n).order = o /\ Store(e, o, n).retained = n
  BY DEF Store
<1>3. Store(e, o, n) \in [entries : Tables, order : Seq(TurnKeys), retained : Nat]
  BY <1>1 DEF Store
<1> QED BY <1>2, <1>3 DEF Stores

(* The bytes of stored turns can be summed up.                              *)
LEMMA BytesOf ==
  ASSUME NEW e, e \in [DOMAIN e -> Turns], IsFiniteSet(DOMAIN e)
  PROVE  /\ \A k \in DOMAIN e : Bytes(e)[k] = e[k].bytes /\ Bytes(e)[k] \in Nat
         /\ Numbers(Bytes(e), DOMAIN e) /\ SumOver(Bytes(e), DOMAIN e) \in Nat
<1>1. \A k \in DOMAIN e : Bytes(e)[k] = e[k].bytes /\ Bytes(e)[k] \in Nat
  BY DEF Bytes, Turns
<1> QED BY <1>1, SumIsNatural

(* Removing a turn takes its bytes off the count and its place out of the   *)
(* order.                                                                   *)
LEMMA RemovedIsPart ==
  ASSUME NEW s \in Stores, NEW k
  PROVE  Removed(s, k) \in Parts(s) /\ DOMAIN Removed(s, k).entries = DOMAIN s.entries \ {k}
<1> DEFINE e == s.entries
           o == RemoveFirst(s.order, k)
           rest == Restrict(e, DOMAIN e \ {k})
<1>1. o \in Seq(TurnKeys) /\ IsInjective(o) /\ ToSet(o) = DOMAIN e \ {k}
  BY StoreFields, RemovedOnce
<1>2. CASE k \notin DOMAIN e
  <2>1. Removed(s, k) = Store(e, o, s.retained) /\ DOMAIN e \ {k} = DOMAIN e
    BY <1>2 DEF Removed
  <2>2. Store(e, o, s.retained) \in Stores
    BY <1>1, <2>1, StoreFields, StoreIsStore
  <2> QED BY <2>1, <2>2, StoreFields DEF Parts, IsPart, Store
<1>3. CASE k \in DOMAIN e
  <2> DEFINE left == s.retained - e[k].bytes
  <2>1. /\ DOMAIN rest = DOMAIN e \ {k} /\ \A l \in DOMAIN rest : rest[l] = e[l]
        /\ rest \in [DOMAIN rest -> Turns] /\ DOMAIN rest \in SUBSET TurnKeys
    BY StoreFields DEF Restrict
  <2>2. IsFiniteSet(DOMAIN rest)
    <3>1. IsFiniteSet(DOMAIN e) /\ DOMAIN rest = DOMAIN e \ {k}
      BY <2>1, StoreFields
    <3> HIDE DEF rest, e
    <3> QED BY <3>1, FS_RemoveElement
  <2>3. SumOver(Bytes(e), DOMAIN e) = Bytes(e)[k] + SumOver(Bytes(e), DOMAIN e \ {k})
    <3>1. IsFiniteSet(DOMAIN e) /\ Numbers(Bytes(e), DOMAIN e)
      BY StoreFields, BytesOf
    <3> HIDE DEF e
    <3> QED BY <1>3, <3>1, SumFacts
  <2>4. SumOver(Bytes(e), DOMAIN rest) = SumOver(Bytes(rest), DOMAIN rest)
    <3>1. Numbers(Bytes(e), DOMAIN rest)
      BY <2>1, StoreFields, BytesOf DEF Numbers
    <3>2. \A l \in DOMAIN rest : Bytes(e)[l] = Bytes(rest)[l]
      BY <2>1 DEF Bytes
    <3> HIDE DEF rest
    <3> QED BY <2>2, <3>1, <3>2, SumSame
  <2>5. Bytes(e)[k] = e[k].bytes /\ e[k].bytes \in Nat /\ s.retained = SumOver(Bytes(e), DOMAIN e)
    BY <1>3, StoreFields, BytesOf
  <2>6. SumOver(Bytes(rest), DOMAIN rest) \in Nat
    <3> HIDE DEF rest
    <3> QED BY <2>1, <2>2, BytesOf
  <2> HIDE DEF rest
  <2>7. left = SumOver(Bytes(rest), DOMAIN rest) /\ left \in Nat /\ left <= s.retained /\ ~(s.retained < e[k].bytes)
    <3>1. s.retained = e[k].bytes + SumOver(Bytes(rest), DOMAIN rest)
      BY <2>1, <2>3, <2>4, <2>5
    <3> QED BY <2>5, <2>6, <3>1
  <2>8. Removed(s, k) = Store(rest, o, left)
    BY <1>3, <2>7 DEF Removed, RemoveTurn, rest
  <2>9. Store(rest, o, left) \in Stores
    BY <1>1, <2>1, <2>2, <2>7, StoreIsStore
  <2> QED BY <2>1, <2>7, <2>8, <2>9 DEF Parts, IsPart, Store
<1> QED BY <1>2, <1>3

(* Removals one after another.                                              *)
LEMMA PartOfPart ==
  ASSUME NEW s, NEW t \in Parts(s), NEW u \in Parts(t), s \in Stores
  PROVE  u \in Parts(s)
<1>1. s.retained \in Nat /\ t.retained \in Nat /\ u.retained \in Nat
  BY StoreFields DEF Parts
<1> QED BY <1>1 DEF Parts, IsPart

(* What a loop over the order leaves is a part of the store.                *)
LEMMA PruneIsPart ==
  ASSUME NEW s \in Stores, NEW at
  PROVE  PruneExpired(s, at) \in Parts(s)
<1> DEFINE n == Len(s.order)
           d == [p \in Stores \X (1..n) |-> Pruned(p[1], s.order[p[2]], at)]
           IsLoop(h) == h = [U \in SUBSET (1..n) |->
                               IF U = {} THEN s ELSE Pruned(h[U \ {Max(U)}], s.order[Max(U)], at)]
           h == CHOOSE loop : IsLoop(loop)
<1>1. n \in Nat /\ DOMAIN s.order = 1..n
  BY StoreFields, LenProperties
<1>2. PruneExpired(s, at) = h[1..n]
  BY <1>1 DEF PruneExpired, FoldLeft, MapThenFoldSet
<1>3. ASSUME NEW t \in Stores, NEW k PROVE Pruned(t, k, at) \in Parts(t)
  <2>1. t \in Parts(t)
    BY StoreFields DEF Parts, IsPart
  <2> QED BY <2>1, RemovedIsPart DEF Pruned
<1>4. \E g : IsLoop(g)
  <2>1. d \in [Stores \X (1..n) -> Stores]
    BY <1>3 DEF Parts
  <2>2. PICK g : IsFoldTable(g, d, s, Stores, 1..n)
    <3> HIDE DEF d, n
    <3> QED BY <1>1, <2>1, FoldExists
  <2>3. ASSUME NEW U \in SUBSET (1..n)
        PROVE  g[U] = IF U = {} THEN s ELSE Pruned(g[U \ {Max(U)}], s.order[Max(U)], at)
    <3>1. CASE U = {}
      BY <2>2, <3>1 DEF IsFoldTable
    <3>2. CASE U # {}
      <4>1. Max(U) \in U
        BY <1>1, <3>2, MaxIsGreatest
      <4>2. g[U \ {Max(U)}] \in Stores /\ g[U] = d[<<g[U \ {Max(U)}], Max(U)>>]
        BY <2>2, <3>2 DEF IsFoldTable
      <4> QED BY <3>2, <4>1, <4>2
    <3> QED BY <3>1, <3>2
  <2>4. g = [U \in SUBSET (1..n) |-> g[U]]
    BY <2>2 DEF IsFoldTable
  <2>5. IsLoop(g)
    BY <2>3, <2>4
  <2> QED BY <2>5
<1>5. IsLoop(h)
  BY <1>4
<1> HIDE DEF h
<1> DEFINE Bad == {U \in SUBSET (1..n) : h[U] \notin Parts(s)}
<1>6. ASSUME NEW U \in Bad, \A x \in U : U \ {x} \notin Bad PROVE FALSE
  <2>1. CASE U = {}
    <3>1. h[U] = s /\ s \in Parts(s)
      BY <1>5, <2>1, StoreFields DEF Parts, IsPart
    <3> QED BY <3>1
  <2>2. CASE U # {}
    <3>1. Max(U) \in U
      BY <1>1, <2>2, MaxIsGreatest
    <3>2. h[U \ {Max(U)}] \in Parts(s)
      BY <1>6, <3>1
    <3>3. h[U] = Pruned(h[U \ {Max(U)}], s.order[Max(U)], at)
      BY <1>5, <2>2
    <3>4. h[U] \in Parts(h[U \ {Max(U)}])
      BY <1>3, <3>2, <3>3 DEF Parts
    <3> QED BY <3>2, <3>4, PartOfPart
  <2> QED BY <2>1, <2>2
<1>7. Bad = {}
  <2> HIDE DEF Bad
  <2>1. Bad \in SUBSET (SUBSET (1..n)) /\ IsFiniteSet(1..n)
    BY <1>1, FS_Interval DEF Bad
  <2> QED BY <1>6, <2>1, MinimalSubset
<1> QED BY <1>2, <1>7

(* ... and the loop that makes room ends with room, since an empty store    *)
(* has some.                                                                *)
LEMMA MakeRoomIsPart ==
  ASSUME NEW s \in Stores, NEW bytes \in Nat, bytes <= MaxBytes
  PROVE  MakeRoom(s, bytes) \in Parts(s) /\ ~Crowded(MakeRoom(s, bytes), bytes)
<1> DEFINE n == Len(s.order)
           d == [p \in Stores \X (1..n) |-> Evicted(p[1], s.order[p[2]], bytes)]
           IsLoop(h) == h = [U \in SUBSET (1..n) |->
                               IF U = {} THEN s ELSE Evicted(h[U \ {Max(U)}], s.order[Max(U)], bytes)]
           h == CHOOSE loop : IsLoop(loop)
           gone(U) == \A i \in U : s.order[i] \notin DOMAIN h[U].entries
<1>1. n \in Nat /\ DOMAIN s.order = 1..n
  BY StoreFields, LenProperties
<1>2. MakeRoom(s, bytes) = h[1..n]
  BY <1>1 DEF MakeRoom, FoldLeft, MapThenFoldSet
<1>3. ASSUME NEW t \in Stores, NEW k PROVE Evicted(t, k, bytes) \in Parts(t)
  <2>1. t \in Parts(t)
    BY StoreFields DEF Parts, IsPart
  <2> QED BY <2>1, RemovedIsPart DEF Evicted
<1>4. \E g : IsLoop(g)
  <2>1. d \in [Stores \X (1..n) -> Stores]
    BY <1>3 DEF Parts
  <2>2. PICK g : IsFoldTable(g, d, s, Stores, 1..n)
    <3> HIDE DEF d, n
    <3> QED BY <1>1, <2>1, FoldExists
  <2>3. ASSUME NEW U \in SUBSET (1..n)
        PROVE  g[U] = IF U = {} THEN s ELSE Evicted(g[U \ {Max(U)}], s.order[Max(U)], bytes)
    <3>1. CASE U = {}
      BY <2>2, <3>1 DEF IsFoldTable
    <3>2. CASE U # {}
      <4>1. Max(U) \in U
        BY <1>1, <3>2, MaxIsGreatest
      <4>2. g[U \ {Max(U)}] \in Stores /\ g[U] = d[<<g[U \ {Max(U)}], Max(U)>>]
        BY <2>2, <3>2 DEF IsFoldTable
      <4> QED BY <3>2, <4>1, <4>2
    <3> QED BY <3>1, <3>2
  <2>4. g = [U \in SUBSET (1..n) |-> g[U]]
    BY <2>2 DEF IsFoldTable
  <2>5. IsLoop(g)
    BY <2>3, <2>4
  <2> QED BY <2>5
<1>5. IsLoop(h)
  BY <1>4
<1> HIDE DEF h
<1> DEFINE Bad == {U \in SUBSET (1..n) : ~(h[U] \in Parts(s) /\ (Crowded(h[U], bytes) => gone(U)))}
<1>6. ASSUME NEW U \in Bad, \A x \in U : U \ {x} \notin Bad PROVE FALSE
  <2>1. CASE U = {}
    <3>1. h[U] = s /\ s \in Parts(s)
      BY <1>5, <2>1, StoreFields DEF Parts, IsPart
    <3> QED BY <2>1, <3>1
  <2>2. CASE U # {}
    <3> DEFINE m == Max(U)
               t == h[U \ {m}]
    <3>1. m \in U
      BY <1>1, <2>2, MaxIsGreatest
    <3>2. t \in Parts(s) /\ (Crowded(t, bytes) => gone(U \ {m}))
      BY <1>6, <3>1
    <3>3. h[U] = Evicted(t, s.order[m], bytes)
      BY <1>5, <2>2
    <3>4. h[U] \in Parts(s)
      BY <1>3, <3>2, <3>3, PartOfPart DEF Parts
    <3>5. ASSUME Crowded(h[U], bytes) PROVE gone(U)
      <4>1. CASE ~Crowded(t, bytes)
        BY <3>3, <3>5, <4>1 DEF Evicted
      <4>2. CASE Crowded(t, bytes)
        <5>1. DOMAIN h[U].entries = DOMAIN t.entries \ {s.order[m]}
          BY <3>2, <3>3, <4>2, RemovedIsPart DEF Evicted, Parts
        <5> QED BY <3>2, <4>2, <5>1
      <4> QED BY <4>1, <4>2
    <3> QED BY <3>4, <3>5
  <2> QED BY <2>1, <2>2
<1>7. Bad = {}
  <2> HIDE DEF Bad
  <2>1. Bad \in SUBSET (SUBSET (1..n)) /\ IsFiniteSet(1..n)
    BY <1>1, FS_Interval DEF Bad
  <2> QED BY <1>6, <2>1, MinimalSubset
<1> DEFINE left == h[1..n]
<1>8. left \in Parts(s) /\ (Crowded(left, bytes) => gone(1..n))
  BY <1>7
<1>9. ASSUME Crowded(left, bytes) PROVE FALSE
  <2>1. DOMAIN left.entries = {}
    <3>1. DOMAIN left.entries \subseteq ToSet(s.order)
      BY <1>8, StoreFields DEF Parts, IsPart
    <3> QED BY <1>1, <1>8, <1>9, <3>1 DEF ToSet
  <2>2. left.retained = 0
    <3>1. left \in Stores
      BY <1>8 DEF Parts
    <3>2. SumOver(Bytes(left.entries), DOMAIN left.entries) = 0
      BY <2>1, FS_EmptySet, SumZero
    <3> QED BY <3>1, <3>2, StoreFields
  <2>3. Cardinality(DOMAIN left.entries) = 0
    BY <2>1, FS_EmptySet
  <2> QED BY <1>9, <2>2, <2>3, ResponseHistoryAssumption DEF Crowded
<1> QED BY <1>2, <1>8, <1>9

(* A turn that is added.                                                    *)
LEMMA TurnIsAdded ==
  ASSUME NEW s \in Stores, NEW k \in TurnKeys, k \notin DOMAIN s.entries, NEW turn \in Turns
  PROVE  Store(With(s.entries, k, turn), Append(s.order, k), s.retained + turn.bytes) \in Stores
<1> DEFINE e == s.entries
           more == With(e, k, turn)
           o == Append(s.order, k)
<1>1. /\ DOMAIN more = DOMAIN e \cup {k}
      /\ \A l \in DOMAIN e \cup {k} : more[l] = IF l = k THEN turn ELSE e[l]
  BY DEF With
<1>2. e \in [DOMAIN e -> Turns] /\ DOMAIN e \in SUBSET TurnKeys /\ IsFiniteSet(DOMAIN e)
  BY StoreFields
<1>3. /\ o \in Seq(TurnKeys) /\ Len(o) = Len(s.order) + 1 /\ o[Len(s.order) + 1] = k
      /\ \A i \in 1..Len(s.order) : o[i] = s.order[i]
  BY StoreFields, AppendProperties
<1>4. k \notin ToSet(s.order) /\ s.order \in Seq(TurnKeys) /\ IsInjective(s.order)
  BY StoreFields
<1>5. IsInjective(o) /\ ToSet(o) = ToSet(s.order) \cup {k}
  <2> HIDE DEF o
  <2>1. IsInjective(o)
    BY <1>3, <1>4, SMTT(30) DEF IsInjective, ToSet
  <2>2. ToSet(o) = ToSet(s.order) \cup {k}
    BY <1>3, <1>4, SMTT(30) DEF ToSet
  <2> QED BY <2>1, <2>2
<1> HIDE DEF more, e
<1>6. more \in [DOMAIN more -> Turns] /\ DOMAIN more \in SUBSET TurnKeys
  <2>1. more = [l \in DOMAIN more |-> more[l]]
    BY DEF more, With
  <2> QED BY <1>1, <1>2, <2>1
<1>7. IsFiniteSet(DOMAIN more)
  BY <1>1, <1>2, FS_AddElement
<1>8. SumOver(Bytes(more), DOMAIN more) = turn.bytes + SumOver(Bytes(e), DOMAIN e)
  <2>1. SumOver(Bytes(more), DOMAIN more) = Bytes(more)[k] + SumOver(Bytes(more), DOMAIN more \ {k})
    BY <1>1, <1>6, <1>7, BytesOf, SumFacts
  <2>2. DOMAIN more \ {k} = DOMAIN e
    BY <1>1 DEF e
  <2>3. \A l \in DOMAIN e : Bytes(e)[l] = Bytes(more)[l]
    BY <1>1, <2>2 DEF Bytes
  <2>4. Bytes(more)[k] = turn.bytes
    BY <1>1 DEF Bytes
  <2>5. SumOver(Bytes(e), DOMAIN e) = SumOver(Bytes(more), DOMAIN e)
    BY <1>2, <2>3, BytesOf, SumSame
  <2> QED BY <2>1, <2>2, <2>4, <2>5
<1>9. s.retained \in Nat /\ s.retained = SumOver(Bytes(e), DOMAIN e) /\ turn.bytes \in Nat
  BY StoreFields DEF Turns, e
<1>10. s.retained + turn.bytes \in Nat /\ s.retained + turn.bytes = SumOver(Bytes(more), DOMAIN more)
  BY <1>8, <1>9
<1>11. ToSet(o) = DOMAIN more
  BY <1>1, <1>5, StoreFields DEF e
<1> HIDE DEF o
<1>12. Store(more, o, s.retained + turn.bytes) \in Stores
  BY <1>3, <1>5, <1>6, <1>7, <1>10, <1>11, StoreIsStore
<1> QED BY <1>12 DEF more, e, o

-----------------------------------------------------------------------------
(* The chain of a turn is what its client knows of it.                      *)
Lists == Seq((1..MaxTurns) \cup {NoResponse}) \ {<<>>}
Follows(key, previous) == IF previous = NoResponse THEN <<>> ELSE told[<<key, previous>>]

\* What the clients know, and that the stored turns are turns they know.
ToldTyped ==
  /\ DOMAIN told \in SUBSET TurnKeys /\ IsFiniteSet(DOMAIN told)
  /\ told \in [DOMAIN told -> Seq(1..MaxTurns)]
TurnKnown(e) ==
  \A k \in DOMAIN e :
    /\ k \in DOMAIN told
    /\ e[k].previous # NoResponse => <<k[1], e[k].previous>> \in DOMAIN told
    /\ told[k] = Append(Follows(k[1], e[k].previous), k[2])

\* known is an end of the conversation of <<key, id>>, and what is before it is told.
IsEnd(known, key, id) ==
  LET first == Head(known)
  IN  /\ known \in Lists
      /\ first = NoResponse => Tail(known) = told[<<key, id>>]
      /\ first # NoResponse => <<key, first>> \in DOMAIN told /\ told[<<key, first>>] \o Tail(known) = told[<<key, id>>]

(* Another turn further back: what is known of the conversation still ends  *)
(* it.                                                                      *)
LEMMA EndGoesBack ==
  ASSUME ToldTyped, NEW s \in Stores, TurnKnown(s.entries), NEW key \in ApiKeys, NEW id \in 1..MaxTurns,
         <<key, id>> \in DOMAIN told, NEW known, IsEnd(known, key, id)
  PROVE  IsEnd(Preceded(s, key, known), key, id)
<1> DEFINE Ids == 1..MaxTurns
           first == Head(known)
           k == <<key, first>>
           previous == s.entries[k].previous
           next == <<previous>> \o known
<1>1. CASE first = NoResponse \/ k \notin DOMAIN s.entries
  BY <1>1 DEF Preceded
<1>2. CASE first # NoResponse /\ k \in DOMAIN s.entries
  <2>1. Preceded(s, key, known) = next
    BY <1>2 DEF Preceded
  <2>2. previous \in Ids \cup {NoResponse}
    BY <1>2, StoreFields DEF Turns
  <2>3. known \in Seq(Ids \cup {NoResponse}) /\ known # <<>> /\ first \in Ids
    <3>1. known \in Seq(Ids \cup {NoResponse}) /\ known # <<>>
      BY DEF IsEnd, Lists
    <3> QED BY <1>2, <3>1, HeadTailProperties
  <2>4. next \in Lists /\ Head(next) = previous /\ Tail(next) = known
    <3>1. <<previous>> \in Seq(Ids \cup {NoResponse})
      BY <2>2
    <3> QED BY <2>2, <2>3, <3>1 DEF Lists
  <2>5. /\ told[<<key, first>>] \o Tail(known) = told[<<key, id>>] /\ k \in DOMAIN told
        /\ told[k] = Append(Follows(key, previous), first)
        /\ previous # NoResponse => <<key, previous>> \in DOMAIN told
    BY <1>2 DEF IsEnd, TurnKnown
  <2>6. Tail(known) \in Seq(Ids \cup {NoResponse}) /\ known = <<first>> \o Tail(known)
    BY <2>3, HeadTailProperties
  <2> DEFINE before == Follows(key, previous)
             All == Seq(Ids \cup {NoResponse})
  <2>7. before \in Seq(Ids) /\ before \in All
    <3>1. k[1] = key
      OBVIOUS
    <3>2. CASE previous = NoResponse
      BY <3>2, EmptySeq DEF Follows
    <3>3. CASE previous # NoResponse
      <4>1. <<key, previous>> \in DOMAIN told /\ before = told[<<key, previous>>]
        BY <2>5, <3>1, <3>3 DEF Follows
      <4> HIDE DEF before
      <4>2. before \in Seq(Ids)
        BY <4>1 DEF ToldTyped
      <4>3. before \in All
        <5> HIDE DEF Ids
        <5> QED BY <4>2, SeqMonotonic
      <4> QED BY <4>2, <4>3
    <3> QED BY <3>2, <3>3
  <2>8. told[k] = before \o <<first>>
    <3> HIDE DEF before
    <3> QED BY <2>3, <2>5, <2>7, AppendIsConcat DEF before
  <2>9. told[<<key, id>>] = before \o known
    <3>1. told[<<key, id>>] = (before \o <<first>>) \o Tail(known)
      BY <2>5, <2>8
    <3>2. <<first>> \in All
      BY <2>3
    <3>3. (before \o <<first>>) \o Tail(known) = before \o (<<first>> \o Tail(known))
      <4> HIDE DEF before, All
      <4>1. \A a, b, c \in All : (a \o b) \o c = a \o (b \o c)
        BY ConcatAssociative DEF All
      <4> QED BY <2>6, <2>7, <3>2, <4>1 DEF All
    <3> QED BY <2>6, <3>1, <3>3
  <2>10. CASE previous = NoResponse
    <3>1. before = <<>>
      BY <2>10 DEF Follows
    <3>2. told[<<key, id>>] = known
      BY <2>3, <2>9, <3>1, ConcatEmptySeq
    <3> QED BY <2>1, <2>4, <2>10, <3>2 DEF IsEnd
  <2>11. CASE previous # NoResponse
    <3>1. before = told[<<key, previous>>] /\ <<key, previous>> \in DOMAIN told
      BY <2>5, <2>11 DEF Follows
    <3>2. told[<<key, previous>>] \o known = told[<<key, id>>]
      BY <2>9, <3>1
    <3> HIDE DEF next, previous, first, k
    <3> QED BY <2>1, <2>4, <2>11, <3>1, <3>2 DEF IsEnd
  <2> QED BY <2>10, <2>11
<1> QED BY <1>1, <1>2

(* What a request gets is all that is told, or nothing.                     *)
LEMMA ChainIsWhole ==
  ASSUME ToldTyped, NEW s \in Stores, TurnKnown(s.entries), NEW key \in ApiKeys, NEW id \in 1..MaxTurns,
         <<key, id>> \in DOMAIN told
  PROVE  Chain(s, key, id) \in {Unavailable, told[<<key, id>>]}
<1> DEFINE Ends == {known \in Lists : IsEnd(known, key, id)}
           IsBack(h) == h = [n \in 0..MaxChain |-> IF n = 0 THEN <<id>> ELSE Preceded(s, key, h[n - 1])]
           back == CHOOSE h : IsBack(h)
<1>1. <<id>> \in Ends
  <2>1. <<id>> \in Lists /\ Head(<<id>>) = id /\ Tail(<<id>>) = <<>>
    BY DEF Lists
  <2>2. id # NoResponse
    BY ResponseHistoryAssumption
  <2>3. told[<<key, id>>] \o <<>> = told[<<key, id>>]
    BY ConcatEmptySeq DEF ToldTyped
  <2> QED BY <2>1, <2>2, <2>3 DEF IsEnd
<1>2. ASSUME NEW known \in Ends PROVE Preceded(s, key, known) \in Ends
  <2>1. IsEnd(Preceded(s, key, known), key, id)
    BY EndGoesBack
  <2> QED BY <2>1 DEF IsEnd
<1>3. MaxChain \in Nat \ {0}
  BY ResponseHistoryAssumption
<1>4. \E h : IsBack(h)
  <2> DEFINE d == [p \in Ends \X (1..MaxChain) |-> Preceded(s, key, p[1])]
  <2>1. d \in [Ends \X (1..MaxChain) -> Ends]
    <3> HIDE DEF Ends
    <3> QED BY <1>2
  <2>2. PICK g : IsFoldTable(g, d, <<id>>, Ends, 1..MaxChain)
    <3> HIDE DEF d, Ends
    <3> QED BY <1>1, <1>3, <2>1, FoldExists
  <2> DEFINE f == [n \in 0..MaxChain |-> g[1..n]]
  <2>3. ASSUME NEW n \in 0..MaxChain PROVE f[n] = IF n = 0 THEN <<id>> ELSE Preceded(s, key, f[n - 1])
    <3>1. 1..n \in SUBSET (1..MaxChain)
      BY <1>3
    <3>2. CASE n = 0
      <4>1. 1..n = {}
        BY <3>2
      <4>2. g[{}] = <<id>>
        <5> HIDE DEF d, Ends
        <5> QED BY <2>2, <3>1, <4>1 DEF IsFoldTable
      <4> QED BY <3>2, <4>1, <4>2
    <3>3. CASE n # 0
      <4>1. Max(1..n) = n
        <5>1. n \in Nat /\ n \in 1..n /\ 1..n \in SUBSET (1..n)
          BY <1>3, <3>3
        <5>2. Max(1..n) \in 1..n /\ \A m \in 1..n : m <= Max(1..n)
          BY <5>1, MaxIsGreatest
        <5> QED BY <5>1, <5>2
      <4>2. (1..n) \ {n} = 1..(n - 1) /\ 1..(n - 1) \in SUBSET (1..MaxChain) /\ n - 1 \in 0..MaxChain /\ n \in 1..MaxChain
        BY <1>3, <3>3
      <4>3. g[1..n] = d[<<g[1..(n - 1)], n>>] /\ g[1..(n - 1)] \in Ends
        <5> HIDE DEF d, Ends
        <5>1. 1..n # {}
          BY <3>3
        <5> QED BY <2>2, <3>1, <4>1, <4>2, <5>1 DEF IsFoldTable
      <4> QED BY <3>3, <4>2, <4>3
    <3> QED BY <3>2, <3>3
  <2>4. IsBack(f)
    <3> HIDE DEF d
    <3> QED BY <2>3
  <2> QED BY <2>4
<1>5. IsBack(back)
  BY <1>4
<1> HIDE DEF back
<1> DEFINE Bad == {n \in 0..MaxChain : back[n] \notin Ends}
<1>6. Bad = {}
  <2> SUFFICES ASSUME Bad # {} PROVE FALSE
    OBVIOUS
  <2>1. PICK n \in Bad : \A m \in Bad : n <= m
    <3>1. Bad \in SUBSET Nat
      BY <1>3
    <3> HIDE DEF Bad
    <3> QED BY <3>1, LeastNumber
  <2> HIDE DEF Ends
  <2>2. CASE n = 0
    BY <1>1, <1>3, <1>5, <2>1, <2>2
  <2>3. CASE n # 0
    <3>1. n - 1 \in 0..MaxChain /\ ~(n <= n - 1)
      BY <1>3, <2>3
    <3>2. back[n - 1] \in Ends
      BY <2>1, <3>1
    <3>3. back[n] = Preceded(s, key, back[n - 1])
      BY <1>5, <2>3
    <3> QED BY <1>2, <3>2, <3>3
  <2> QED BY <2>2, <2>3
<1>7. back[MaxChain] \in Ends
  <2> HIDE DEF Ends
  <2> QED BY <1>3, <1>6
<1>8. Chain(s, key, id) = IF Head(back[MaxChain]) = NoResponse THEN Tail(back[MaxChain]) ELSE Unavailable
  BY DEF Chain, back
<1> QED BY <1>7, <1>8 DEF IsEnd

\* The turns of a key are numbered without a gap, so that the next number is free.
Numbered == \A key \in ApiKeys : \E n \in Nat : {k \in DOMAIN told : k[1] = key} = {key} \X (1..n)

\* A request names a turn its client knows, and got all of it or nothing.
Whole(req) ==
  /\ req.key \in ApiKeys /\ req.previous \in 1..MaxTurns \cup {NoResponse}
  /\ req.previous # NoResponse => <<req.key, req.previous>> \in DOMAIN told
  /\ req.got \in {Unavailable, Follows(req.key, req.previous)}

HistoryInv ==
  /\ Current \in Stores /\ Cardinality(DOMAIN entries) <= MaxEntries /\ retained <= MaxBytes
  /\ now \in Nat
  /\ ToldTyped /\ Numbered /\ TurnKnown(entries)
  /\ \A req \in inFlight : Whole(req)

(* Removals make a store smaller and leave what is in it known.             *)
LEMMA PartIsSmaller ==
  ASSUME NEW s \in Stores, NEW t \in Parts(s)
  PROVE  /\ t \in Stores /\ t.retained \in Nat /\ t.retained <= s.retained
         /\ Cardinality(DOMAIN t.entries) \in Nat /\ Cardinality(DOMAIN t.entries) <= Cardinality(DOMAIN s.entries)
         /\ TurnKnown(s.entries) => TurnKnown(t.entries)
<1>1. t \in Stores /\ IsPart(t, s)
  BY DEF Parts
<1>2. /\ IsFiniteSet(DOMAIN s.entries) /\ IsFiniteSet(DOMAIN t.entries) /\ t.retained \in Nat
      /\ DOMAIN t.entries \subseteq DOMAIN s.entries
  BY <1>1, StoreFields DEF IsPart
<1>3. Cardinality(DOMAIN t.entries) \in Nat /\ Cardinality(DOMAIN t.entries) <= Cardinality(DOMAIN s.entries)
  BY <1>2, FS_Subset, FS_CardinalityType
<1>4. TurnKnown(s.entries) => TurnKnown(t.entries)
  BY <1>1 DEF TurnKnown, IsPart
<1> QED BY <1>1, <1>2, <1>3, <1>4 DEF IsPart

(* The next number of a key is one that none of its turns has.              *)
LEMMA NextIdIsFree ==
  ASSUME Numbered, NEW key \in ApiKeys
  PROVE  /\ NextId(key) \in Nat \ {0} /\ <<key, NextId(key)>> \notin DOMAIN told
         /\ {k \in DOMAIN told : k[1] = key} = {key} \X (1..(NextId(key) - 1))
<1>1. PICK n \in Nat : {k \in DOMAIN told : k[1] = key} = {key} \X (1..n)
  BY DEF Numbered
<1>2. Cardinality({key} \X (1..n)) = n
  <2>1. IsFiniteSet({key}) /\ Cardinality({key}) = 1
    BY FS_Singleton
  <2>2. IsFiniteSet(1..n) /\ Cardinality(1..n) = n
    <3>1. 0 + 1 \in Int /\ n \in Int
      BY <1>1
    <3> QED BY <1>1, <3>1, FS_Interval
  <2>3. Cardinality({key} \X (1..n)) = 1 * n
    BY <2>1, <2>2, FS_Product
  <2> QED BY <1>1, <2>3
<1>3. NextId(key) = 1 + n
  BY <1>1, <1>2 DEF NextId, Quantify
<1>4. <<key, 1 + n>> \notin DOMAIN told
  <2> SUFFICES ASSUME <<key, 1 + n>> \in DOMAIN told PROVE FALSE
    OBVIOUS
  <2>1. <<key, 1 + n>> \in {k \in DOMAIN told : k[1] = key}
    OBVIOUS
  <2>2. 1 + n \in 1..n
    BY <1>1, <2>1
  <2> QED BY <1>1, <2>2
<1>5. (1 + n) - 1 = n /\ 1 + n \in Nat \ {0}
  BY <1>1
<1> QED BY <1>1, <1>3, <1>4, <1>5

(* The empty store is in order.                                             *)
LEMMA HistoryStarts == HistoryInit => HistoryInv
<1> SUFFICES ASSUME HistoryInit PROVE HistoryInv
  OBVIOUS
<1>1. DOMAIN entries = {} /\ DOMAIN told = {} /\ IsFiniteSet({}) /\ Cardinality({}) = 0
  BY FS_EmptySet DEF HistoryInit
<1>2. Current \in Stores
  <2>1. entries \in [DOMAIN entries -> Turns]
    BY DEF HistoryInit
  <2>2. order \in Seq(TurnKeys) /\ IsInjective(order) /\ ToSet(order) = {}
    BY DEF HistoryInit, IsInjective, ToSet
  <2>3. SumOver(Bytes(entries), {}) = 0
    BY <1>1, SumZero
  <2>4. retained = 0 /\ 0 \in Nat /\ DOMAIN entries \in SUBSET TurnKeys
    BY <1>1 DEF HistoryInit
  <2> QED BY <1>1, <2>1, <2>2, <2>3, <2>4, StoreIsStore DEF Current
<1>3. Cardinality(DOMAIN entries) <= MaxEntries /\ retained <= MaxBytes /\ now \in Nat
  BY <1>1, ResponseHistoryAssumption DEF HistoryInit
<1>4. ToldTyped
  BY <1>1 DEF ToldTyped, HistoryInit
<1>5. Numbered
  <2>1. ASSUME NEW key \in ApiKeys PROVE {k \in DOMAIN told : k[1] = key} = {key} \X (1..0)
    BY <1>1
  <2> QED BY <2>1 DEF Numbered
<1> QED BY <1>1, <1>2, <1>3, <1>4, <1>5 DEF HistoryInv, TurnKnown, HistoryInit

(* A request that is expanded loses expired turns and gets the others whole.*)
LEMMA ExpandKeeps ==
  ASSUME HistoryInv, NEW key \in ApiKeys, NEW id \in 1..MaxTurns \cup {NoResponse}, Expand(key, id)
  PROVE  HistoryInv'
<1> DEFINE s == IF id = NoResponse THEN Current ELSE PruneExpired(Current, now)
           got == IF id = NoResponse THEN <<>> ELSE Chain(s, key, id)
           req == [key |-> key, previous |-> id, got |-> got]
<1>1. Keep(s) /\ inFlight' = inFlight \cup {req} /\ now' = now /\ told' = told
      /\ (id # NoResponse => <<key, id>> \in DOMAIN told)
  BY DEF Expand
<1>2. Current \in Stores /\ ToldTyped /\ TurnKnown(entries) /\ entries = Current.entries /\ retained = Current.retained
  BY DEF HistoryInv, Current, Store
<1>3. s \in Parts(Current)
  <2>1. Current \in Parts(Current)
    BY <1>2, StoreFields DEF Parts, IsPart
  <2> QED BY <1>2, <2>1, PruneIsPart
<1>4. s \in Stores /\ s.retained <= MaxBytes /\ Cardinality(DOMAIN s.entries) <= MaxEntries /\ TurnKnown(s.entries)
  <2>1. s.retained \in Nat /\ retained \in Nat /\ MaxBytes \in Nat /\ MaxEntries \in Nat
    BY <1>2, <1>3, PartIsSmaller, StoreFields, ResponseHistoryAssumption
  <2>2. Cardinality(DOMAIN s.entries) \in Nat /\ Cardinality(DOMAIN entries) \in Nat
    BY <1>2, <1>3, PartIsSmaller, StoreFields, FS_CardinalityType
  <2>3. s.retained <= retained /\ Cardinality(DOMAIN s.entries) <= Cardinality(DOMAIN entries)
    BY <1>2, <1>3, PartIsSmaller
  <2>4. retained <= MaxBytes /\ Cardinality(DOMAIN entries) <= MaxEntries
    BY DEF HistoryInv
  <2>5. s \in Stores /\ TurnKnown(s.entries)
    BY <1>2, <1>3, PartIsSmaller
  <2> HIDE DEF s
  <2> QED BY <2>1, <2>2, <2>3, <2>4, <2>5
<1>5. got \in {Unavailable, Follows(key, id)}
  <2>1. CASE id = NoResponse
    BY <2>1 DEF Follows
  <2>2. CASE id # NoResponse
    <3>1. id \in 1..MaxTurns /\ <<key, id>> \in DOMAIN told /\ got = Chain(s, key, id)
      BY <1>1, <2>2
    <3> HIDE DEF s, got
    <3>2. Chain(s, key, id) \in {Unavailable, told[<<key, id>>]}
      BY <1>2, <1>4, <3>1, ChainIsWhole
    <3> QED BY <2>2, <3>1, <3>2 DEF Follows
  <2> QED BY <2>1, <2>2
<1> HIDE DEF s, got
<1>6. Current' = s
  BY <1>1, <1>4, StoreFields DEF Current, Keep, Store
<1>7. Whole(req)
  BY <1>1, <1>5 DEF Whole
<1>8. \A r \in inFlight' : Whole(r)'
  <2> SUFFICES ASSUME NEW r \in inFlight' PROVE Whole(r)'
    OBVIOUS
  <2>1. Whole(r)
    BY <1>1, <1>7 DEF HistoryInv
  <2> HIDE DEF req
  <2> QED BY <1>1, <2>1 DEF Whole, Follows
<1>9. entries' = s.entries /\ retained' = s.retained
  BY <1>1 DEF Keep
<1>10. now' \in Nat /\ ToldTyped' /\ Numbered'
  BY <1>1 DEF HistoryInv, ToldTyped, Numbered
<1>11. TurnKnown(entries)'
  BY <1>1, <1>4, <1>9 DEF TurnKnown, Follows
<1> QED BY <1>4, <1>6, <1>8, <1>9, <1>10, <1>11 DEF HistoryInv

(* An answer that is stored takes the next number of its key and makes room *)
(* first.                                                                   *)
LEMMA RememberTurnKeeps ==
  ASSUME HistoryInv, NEW req \in inFlight, NEW n \in Sizes, RememberTurn(req, n)
  PROVE  HistoryInv'
<1> DEFINE key == req.key
           id == NextId(key)
           k == <<key, id>>
           s == PruneExpired(Current, now)
           t == MakeRoom(s, n)
           turn == [previous |-> req.previous, bytes |-> n, expires |-> now + Retention]
           learnt == Append(Follows(key, req.previous), id)
           next == Store(With(t.entries, k, turn), Append(t.order, k), t.retained + n)
<1>1. Whole(req) /\ Current \in Stores /\ ToldTyped /\ Numbered /\ TurnKnown(Current.entries)
  BY DEF HistoryInv, Current, Store
<1>2. id \in 1..MaxTurns /\ k \in TurnKeys /\ k \notin DOMAIN told
  <2>1. key \in ApiKeys
    BY <1>1 DEF Whole
  <2>2. id \in Nat \ {0} /\ <<key, id>> \notin DOMAIN told
    BY <1>1, <2>1, NextIdIsFree
  <2>3. id <= MaxTurns
    BY DEF RememberTurn
  <2>4. id \in 1..MaxTurns
    BY <2>2, <2>3, ResponseHistoryAssumption
  <2> QED BY <2>1, <2>2, <2>4 DEF TurnKeys
<1>3. s \in Stores /\ TurnKnown(s.entries)
  <2>1. s \in Parts(Current)
    BY <1>1, PruneIsPart
  <2> QED BY <1>1, <2>1, PartIsSmaller
<1>4. n \in Nat /\ n <= MaxBytes /\ MaxBytes \in Nat /\ MaxEntries \in Nat \ {0}
  BY ResponseHistoryAssumption
<1>5. t \in Stores /\ TurnKnown(t.entries) /\ ~Crowded(t, n)
  <2>1. t \in Parts(s) /\ ~Crowded(t, n)
    <3> HIDE DEF s
    <3> QED BY <1>3, <1>4, MakeRoomIsPart
  <2> HIDE DEF t, s
  <2> QED BY <1>3, <2>1, PartIsSmaller
<1>6. k \notin DOMAIN s.entries /\ k \notin DOMAIN t.entries
  <2> HIDE DEF t, s, k
  <2> QED BY <1>2, <1>3, <1>5 DEF TurnKnown
<1>7. Keep(next) /\ inFlight' = inFlight \ {req} /\ now' = now /\ told' = With(told, k, learnt)
  <2>1. (IF k \in DOMAIN s.entries THEN RemoveTurn(s, k) ELSE s) = s
    BY <1>6
  <2> HIDE DEF s
  <2>2. inFlight' = inFlight \ {req} /\ now' = now /\ told' = With(told, k, learnt)
    BY DEF RememberTurn, Follows
  <2>3. Keep(next)
    BY <2>1 DEF RememberTurn, s
  <2> QED BY <2>2, <2>3
<1> HIDE DEF s, t
<1>8. turn \in Turns
  <2>1. now + Retention \in Nat
    BY ResponseHistoryAssumption DEF HistoryInv
  <2> QED BY <1>1, <1>4, <2>1 DEF Whole, Turns
<1>9. next \in Stores
  <2>1. turn.bytes = n
    OBVIOUS
  <2> HIDE DEF turn, k
  <2> QED BY <1>2, <1>5, <1>6, <1>8, <2>1, TurnIsAdded
<1>10. Cardinality(DOMAIN next.entries) <= MaxEntries /\ next.retained <= MaxBytes
  <2>1. next.entries = With(t.entries, k, turn) /\ next.retained = t.retained + n
    BY DEF Store
  <2> HIDE DEF next, k, turn
  <2>2. DOMAIN next.entries = DOMAIN t.entries \cup {k}
    BY <2>1 DEF With
  <2>3. IsFiniteSet(DOMAIN t.entries) /\ t.retained \in Nat
    BY <1>5, StoreFields
  <2>4. Cardinality(DOMAIN t.entries) \in Nat /\ Cardinality(DOMAIN next.entries) = Cardinality(DOMAIN t.entries) + 1
    BY <1>6, <2>2, <2>3, FS_AddElement, FS_CardinalityType
  <2> QED BY <1>4, <1>5, <2>1, <2>3, <2>4 DEF Crowded
<1>11. /\ DOMAIN told' = DOMAIN told \cup {k}
       /\ \A l \in DOMAIN told : told'[l] = told[l]
       /\ told'[k] = learnt
  <2> HIDE DEF k, learnt
  <2> QED BY <1>2, <1>7 DEF With
<1>12. learnt \in Seq(1..MaxTurns)
  <2>1. Follows(key, req.previous) \in Seq(1..MaxTurns)
    BY <1>1, EmptySeq DEF Whole, Follows, ToldTyped
  <2> QED BY <1>2, <2>1, AppendProperties
<1>13. ToldTyped'
  <2>1. DOMAIN told' \in SUBSET TurnKeys /\ IsFiniteSet(DOMAIN told')
    <3> HIDE DEF k, learnt
    <3>1. DOMAIN told \in SUBSET TurnKeys /\ IsFiniteSet(DOMAIN told)
      BY <1>1 DEF ToldTyped
    <3>2. IsFiniteSet(DOMAIN told \cup {k})
      BY <3>1, FS_AddElement
    <3> QED BY <1>2, <1>11, <3>1, <3>2
  <2>2. \A l \in DOMAIN told' : told'[l] \in Seq(1..MaxTurns)
    <3> HIDE DEF learnt, k
    <3> QED BY <1>1, <1>11, <1>12 DEF ToldTyped
  <2>3. told' = [l \in DOMAIN told' |-> told'[l]]
    BY <1>7 DEF With
  <2> HIDE DEF learnt, k
  <2> QED BY <2>1, <2>2, <2>3 DEF ToldTyped, TurnKeys
<1>14. Numbered'
  <2> SUFFICES ASSUME NEW other \in ApiKeys
               PROVE  \E m \in Nat : {l \in DOMAIN told' : l[1] = other} = {other} \X (1..m)
    BY DEF Numbered
  <2>1. CASE other = key
    <3>1. {l \in DOMAIN told : l[1] = key} = {key} \X (1..(id - 1))
      BY <1>1, <2>1, NextIdIsFree
    <3>2. {l \in DOMAIN told' : l[1] = key} = {l \in DOMAIN told : l[1] = key} \cup {k}
      BY <1>11
    <3>3. id \in Nat \ {0}
      BY <1>2, ResponseHistoryAssumption
    <3> HIDE DEF id, key
    <3>4. 1..id = (1..(id - 1)) \cup {id}
      BY <3>3
    <3>5. ({key} \X (1..(id - 1))) \cup {k} = {key} \X (1..id)
      BY <3>4
    <3>6. {l \in DOMAIN told' : l[1] = other} = {other} \X (1..id)
      BY <2>1, <3>1, <3>2, <3>5
    <3> QED BY <3>3, <3>6
  <2>2. CASE other # key
    <3>1. {l \in DOMAIN told' : l[1] = other} = {l \in DOMAIN told : l[1] = other}
      BY <1>11, <2>2
    <3> QED BY <1>1, <3>1 DEF Numbered
  <2> QED BY <2>1, <2>2
<1> DEFINE after(any, previous) == IF previous = NoResponse THEN <<>> ELSE told'[<<any, previous>>]
<1>15. ASSUME NEW any, NEW previous, previous # NoResponse => <<any, previous>> \in DOMAIN told
       PROVE  /\ after(any, previous) = Follows(any, previous)
              /\ previous # NoResponse => <<any, previous>> \in DOMAIN told'
  <2> HIDE DEF learnt, k
  <2> QED BY <1>11, <1>15 DEF Follows
<1>16. entries' = With(t.entries, k, turn) /\ retained' = next.retained /\ Current' = next
  <2>1. entries' = next.entries /\ order' = next.order /\ retained' = next.retained
    BY <1>7 DEF Keep
  <2>2. next.entries = With(t.entries, k, turn)
    BY DEF Store
  <2> HIDE DEF next
  <2>3. Current' = next
    BY <1>9, <2>1, StoreFields DEF Current
  <2> QED BY <2>1, <2>2, <2>3
<1>17. ASSUME NEW l \in DOMAIN entries'
       PROVE  /\ l \in DOMAIN told'
              /\ entries'[l].previous # NoResponse => <<l[1], entries'[l].previous>> \in DOMAIN told'
              /\ told'[l] = Append(after(l[1], entries'[l].previous), l[2])
  <2>1. CASE l = k
    <3>1. entries'[l] = turn
      <4> HIDE DEF turn, k
      <4> QED BY <1>16, <2>1 DEF With
    <3>2. entries'[l].previous = req.previous /\ l[1] = key /\ l[2] = id
      BY <2>1, <3>1
    <3>3. req.previous # NoResponse => <<key, req.previous>> \in DOMAIN told
      BY <1>1 DEF Whole
    <3> HIDE DEF key, id, turn, after
    <3> QED BY <1>11, <1>15, <2>1, <3>2, <3>3
  <2>2. CASE l # k
    <3>1. l \in DOMAIN t.entries /\ entries'[l] = t.entries[l]
      <4> HIDE DEF turn, k
      <4> QED BY <1>16, <2>2 DEF With
    <3>2. /\ l \in DOMAIN told
          /\ t.entries[l].previous # NoResponse => <<l[1], t.entries[l].previous>> \in DOMAIN told
          /\ told[l] = Append(Follows(l[1], t.entries[l].previous), l[2])
      BY <1>5, <3>1 DEF TurnKnown
    <3> HIDE DEF after, k, learnt
    <3> QED BY <1>11, <1>15, <3>1, <3>2
  <2> QED BY <2>1, <2>2
<1>18. TurnKnown(entries)'
  BY <1>17 DEF TurnKnown, Follows
<1>19. \A r \in inFlight' : Whole(r)'
  <2> SUFFICES ASSUME NEW r \in inFlight' PROVE Whole(r)'
    OBVIOUS
  <2>1. Whole(r)
    BY <1>7 DEF HistoryInv
  <2>2. /\ after(r.key, r.previous) = Follows(r.key, r.previous)
        /\ r.previous # NoResponse => <<r.key, r.previous>> \in DOMAIN told'
    <3> HIDE DEF after
    <3> QED BY <1>15, <2>1 DEF Whole
  <2> QED BY <2>1, <2>2 DEF Whole, Follows
<1>20. now' \in Nat /\ Cardinality(DOMAIN entries') <= MaxEntries /\ retained' <= MaxBytes /\ Current' \in Stores
  <2>1. next.entries = With(t.entries, k, turn)
    BY DEF Store
  <2> HIDE DEF next, turn, k
  <2> QED BY <1>7, <1>9, <1>10, <1>16, <2>1 DEF HistoryInv
<1> QED BY <1>13, <1>14, <1>18, <1>19, <1>20 DEF HistoryInv

(* Every step keeps the invariant.                                          *)
LEMMA HistoryInvStep == HistoryInv /\ [HistoryNext]_historyVars => HistoryInv'
<1> SUFFICES ASSUME HistoryInv, [HistoryNext]_historyVars PROVE HistoryInv'
  OBVIOUS
<1>1. ASSUME NEW key \in ApiKeys, NEW id \in 1..MaxTurns \cup {NoResponse}, Expand(key, id) PROVE HistoryInv'
  BY <1>1, ExpandKeeps
<1>2. ASSUME NEW req \in inFlight, NotRemembered(req) PROVE HistoryInv'
  BY <1>2 DEF HistoryInv, NotRemembered, Current, ToldTyped, Numbered, TurnKnown, Follows, Whole
<1>3. ASSUME NEW req \in inFlight, NEW n \in Sizes, RememberTurn(req, n) PROVE HistoryInv'
  BY <1>3, RememberTurnKeeps
<1>4. ASSUME TimeGoesBy PROVE HistoryInv'
  BY <1>4 DEF HistoryInv, TimeGoesBy, Current, ToldTyped, Numbered, TurnKnown, Follows, Whole
<1>5. ASSUME UNCHANGED historyVars PROVE HistoryInv'
  BY <1>5 DEF HistoryInv, historyVars, Current, ToldTyped, Numbered, TurnKnown, Follows, Whole
<1> QED BY <1>1, <1>2, <1>3, <1>4, <1>5 DEF HistoryNext

(* src/internal/gateway/response_history.go: after any expansions, answers,  *)
(* evictions and expiries the store is in order and within its limits, every *)
(* stored turn is one its client knows, linked to the turn it followed, and  *)
(* every request has all of the turns it follows or none.                    *)
THEOREM HistoryTheorem == HistorySpec => []HistoryInv
<1> QED BY HistoryStarts, HistoryInvStep, PTL DEF HistorySpec

(* src/internal/gateway/response_history.go: whatever the store has lost, a  *)
(* request goes on with its whole conversation or not at all.               *)
THEOREM WholeTheorem == HistorySpec => []ExpandedIsWhole
<1>1. HistoryInv => ExpandedIsWhole
  BY DEF HistoryInv, Whole, ExpandedIsWhole, Follows
<1> QED BY <1>1, HistoryTheorem, PTL

(* ... and the store stays within its limits.                               *)
THEOREM BoundedTheorem == HistorySpec => []HistoryIsBounded
<1>1. HistoryInv => HistoryIsBounded
  <2> SUFFICES ASSUME HistoryInv PROVE HistoryIsBounded
    OBVIOUS
  <2>1. /\ Cardinality(DOMAIN entries) <= MaxEntries /\ retained <= MaxBytes
        /\ Current \in Stores /\ Current.entries = entries /\ Current.order = order /\ Current.retained = retained
    BY DEF HistoryInv, Current, Store
  <2>2. IsInjective(order) /\ ToSet(order) = DOMAIN entries /\ retained = SumOver(Bytes(entries), DOMAIN entries)
    BY <2>1, StoreFields
  <2> QED BY <2>1, <2>2 DEF HistoryIsBounded, SumOver
<1> QED BY <1>1, HistoryTheorem, PTL
=============================================================================
