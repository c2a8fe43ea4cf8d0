-------------------------- MODULE TransactionProofs --------------------------
(* Proofs about Locking and Groups, the two modules that take transactions  *)
(* apart lock by lock.                                                      *)
EXTENDS Groups, Locking, FiniteSetTheorems, WellFoundedInduction, TLAPS

(***************************************************************************)
(* Locking, for any number of connections, users, requests and orders.      *)
(***************************************************************************)
USE DEF Wallet, Operation, Key, Entries, Adjustments, Slot, Success, Order

RowsOf(c) == {c.locks[i] : i \in DOMAIN c.locks}

\* How far a row is from the end of the order in which rows are locked, given
\* how many inviters somebody has.
Distance(depth, row) ==
  IF row[1] = "order" THEN Cardinality(Users) + 2 ELSE IF row[1] = "wallet" THEN depth[row[2]] + 1 ELSE 0

IsDepth(depth) ==
  /\ depth \in [Users -> 0..Cardinality(Users)]
  /\ \A u \in Users : Referrer[u] # Nobody => depth[Referrer[u]] < depth[u]

(* Each method is one of eight shapes, all of whose rows are listed.        *)
LEMMA Shapes ==
  ASSUME NEW c \in Transactions
  PROVE  \/ \E r \in Requests : c \in OfRequest(r)
         \/ \E u \in Users : c = Adjust(u)
         \/ \E o \in Orders : c = Complete(o)
BY DEF Transactions

(* A transaction locks its rows in one order that is common to all.         *)
LEMMA LocksDescend ==
  ASSUME NEW depth, IsDepth(depth), NEW c \in Transactions,
         NEW i \in 1..Len(c.locks), NEW j \in 1..Len(c.locks), i < j
  PROVE  Distance(depth, c.locks[j]) < Distance(depth, c.locks[i])
<1>0. Cardinality(Users) \in Nat
  BY FS_CardinalityType, LockingAssumption
<1>1. ASSUME NEW u \in Users PROVE Distance(depth, Wallet(u)) \in 1..(Cardinality(Users) + 1)
  BY <1>0 DEF IsDepth, Distance
<1>2. ASSUME NEW r \in Requests,
             c \in OfRequest(r)
      PROVE  Distance(depth, c.locks[j]) < Distance(depth, c.locks[i])
  <2>1. RequestUser[r] \in Users
    BY LockingAssumption
  <2>2. c.locks \in {<<Wallet(RequestUser[r]), Operation(r)>>, <<Operation(r)>>, <<>>}
    BY <1>2 DEF OfRequest, StartOperation, MarkOperation, CompleteOperation, Finalize, FailOperation, RecordFailure, Tx
  <2>3. c.locks = <<>> => Len(c.locks) = 0
    OBVIOUS
  <2>4. c.locks = <<Operation(r)>> => Len(c.locks) = 1
    OBVIOUS
  <2>5. c.locks = <<Wallet(RequestUser[r]), Operation(r)>> => Len(c.locks) = 2
    OBVIOUS
  <2>6. c.locks = <<Wallet(RequestUser[r]), Operation(r)>>
    BY <2>2, <2>3, <2>4
  <2>7. i = 1 /\ j = 2
    BY <2>5, <2>6
  <2> QED BY <1>1, <2>1, <2>6, <2>7 DEF Distance
<1>3. ASSUME NEW u \in Users, c = Adjust(u)
      PROVE  Distance(depth, c.locks[j]) < Distance(depth, c.locks[i])
  <2>1. c.locks = <<Wallet(u)>>
    BY <1>3 DEF Adjust, Tx
  <2> QED BY <2>1
<1>4. ASSUME NEW o \in Orders, c = Complete(o)
      PROVE  Distance(depth, c.locks[j]) < Distance(depth, c.locks[i])
  <2> DEFINE p == Payer[o]
             q == Referrer[p]
  <2>1. p \in Users /\ q \in Users \cup {Nobody}
    BY LockingAssumption
  <2>2. CASE q = Nobody
    <3>1. c.locks = <<Order(o), Wallet(p)>>
      BY <1>4, <2>2 DEF Complete, Tx
    <3>2. i = 1 /\ j = 2
      BY <3>1
    <3> QED BY <3>1, <3>2, <2>1, <1>1, <1>0 DEF Distance
  <2>3. CASE q # Nobody
    <3>1. c.locks = <<Order(o), Wallet(p), Wallet(q)>>
      BY <1>4, <2>3 DEF Complete, Tx
    <3>2. Distance(depth, Wallet(q)) < Distance(depth, Wallet(p))
      BY <2>1, <2>3, <1>0 DEF IsDepth, Distance
    <3>3. \/ i = 1 /\ j \in {2, 3}
          \/ i = 2 /\ j = 3
      BY <3>1
    <3>4. Distance(depth, Order(o)) = Cardinality(Users) + 2
      BY DEF Distance
    <3>5. /\ Distance(depth, Wallet(q)) \in 1..(Cardinality(Users) + 1)
          /\ Distance(depth, Wallet(p)) \in 1..(Cardinality(Users) + 1)
      BY <1>1, <2>1, <2>3
    <3> QED BY <3>1, <3>2, <3>3, <3>4, <3>5, <1>0
  <2> QED BY <2>2, <2>3
<1> QED BY <1>2, <1>3, <1>4, Shapes

(* How many rows a method locks.                                            *)
LEMMA LocksAreListed ==
  ASSUME NEW c \in Transactions
  PROVE  Len(c.locks) \in Nat /\ DOMAIN c.locks = 1..Len(c.locks)
<1>1. ASSUME NEW r \in Requests, c \in OfRequest(r)
      PROVE  c.locks \in {<<Wallet(RequestUser[r]), Operation(r)>>, <<Operation(r)>>, <<>>}
  BY <1>1 DEF OfRequest, StartOperation, MarkOperation, CompleteOperation, Finalize, FailOperation, RecordFailure, Tx
<1>2. ASSUME NEW u \in Users, c = Adjust(u) PROVE c.locks = <<Wallet(u)>>
  BY <1>2 DEF Adjust, Tx
<1>3. ASSUME NEW o \in Orders, c = Complete(o)
      PROVE  c.locks \in {<<Order(o), Wallet(Payer[o])>>, <<Order(o), Wallet(Payer[o]), Wallet(Referrer[Payer[o]])>>}
  BY <1>3 DEF Complete, Tx
<1> QED BY <1>1, <1>2, <1>3, Shapes

LEMMA DistanceIsNumber ==
  ASSUME NEW depth, IsDepth(depth), NEW c \in Transactions, NEW i \in 1..Len(c.locks)
  PROVE  Distance(depth, c.locks[i]) \in Nat
<1>0. Cardinality(Users) \in Nat
  BY FS_CardinalityType, LockingAssumption
<1>1. ASSUME NEW u \in Users PROVE Distance(depth, Wallet(u)) \in Nat
  BY <1>0 DEF IsDepth, Distance
<1>2. /\ \A r : Distance(depth, Operation(r)) \in Nat
      /\ \A o : Distance(depth, Order(o)) \in Nat
  BY <1>0 DEF Distance
<1>3. ASSUME NEW r \in Requests, c \in OfRequest(r)
      PROVE  \E u \in Users : c.locks[i] \in {Wallet(u), Operation(r)}
  <2>1. RequestUser[r] \in Users
    BY LockingAssumption
  <2>2. \/ c.locks = <<Wallet(RequestUser[r]), Operation(r)>>
        \/ c.locks = <<Operation(r)>>
        \/ c.locks = <<>>
    BY <1>3 DEF OfRequest, StartOperation, MarkOperation, CompleteOperation, Finalize, FailOperation, RecordFailure, Tx
  <2>3. CASE c.locks = <<>>
    BY <2>3
  <2>4. CASE c.locks = <<Operation(r)>>
    BY <2>1, <2>4
  <2>5. CASE c.locks = <<Wallet(RequestUser[r]), Operation(r)>>
    BY <2>1, <2>5
  <2> QED BY <2>2, <2>3, <2>4, <2>5
<1>4. ASSUME NEW u \in Users, c = Adjust(u) PROVE c.locks[i] = Wallet(u)
  BY <1>4 DEF Adjust, Tx
<1>5. ASSUME NEW o \in Orders, c = Complete(o)
      PROVE  \E u \in Users : c.locks[i] \in {Order(o), Wallet(u)}
  <2>1. Payer[o] \in Users /\ Referrer[Payer[o]] \in Users \cup {Nobody}
    BY LockingAssumption
  <2>2. CASE Referrer[Payer[o]] = Nobody
    <3>1. c.locks = <<Order(o), Wallet(Payer[o])>>
      BY <1>5, <2>2 DEF Complete, Tx
    <3> QED BY <2>1, <3>1
  <2>3. CASE Referrer[Payer[o]] # Nobody
    <3>1. c.locks = <<Order(o), Wallet(Payer[o]), Wallet(Referrer[Payer[o]])>>
      BY <1>5, <2>3 DEF Complete, Tx
    <3> QED BY <2>1, <2>3, <3>1
  <2> QED BY <2>2, <2>3
<1> QED BY <1>1, <1>2, <1>3, <1>4, <1>5, Shapes

(* The row that whoever reads or writes x has locked: x itself, if it can   *)
(* be locked.                                                               *)
Guard(x) ==
  CASE x[1] = "key" -> Wallet(CHOOSE u \in Users : \E r \in Requests : IdemKey[r] = x[2] /\ RequestUser[r] = u)
    [] x[1] = "entries" -> Wallet(RequestUser[x[2]])
    [] x[1] = "adjustments" -> Wallet(x[2])
    [] x[1] = "success" -> Operation(x[2])
    [] OTHER -> x

LEMMA GuardOfKey == ASSUME NEW r \in Requests PROVE Guard(Key(r)) = Wallet(RequestUser[r])
<1> DEFINE owns(u) == \E s \in Requests : IdemKey[s] = IdemKey[r] /\ RequestUser[s] = u
<1>1. RequestUser[r] \in Users /\ owns(RequestUser[r])
  BY LockingAssumption
<1>2. \A u \in Users : owns(u) => u = RequestUser[r]
  BY LockingAssumption
<1>3. (CHOOSE u \in Users : owns(u)) = RequestUser[r]
  BY <1>1, <1>2
<1> QED BY <1>3 DEF Guard

LEMMA GuardsOfRequest ==
  ASSUME NEW r \in Requests
  PROVE  /\ Guard(Entries(r)) = Wallet(RequestUser[r])
         /\ Guard(Success(r)) = Operation(r)
         /\ Guard(Operation(r)) = Operation(r)
         /\ \A u : Guard(Wallet(u)) = Wallet(u) /\ Guard(Adjustments(u)) = Wallet(u)
         /\ \A o : Guard(Order(o)) = Order(o)
BY DEF Guard

LEMMA RowsListed ==
  ASSUME NEW c, NEW a, NEW b, NEW d
  PROVE  /\ c.locks = <<>> => RowsOf(c) = {}
         /\ c.locks = <<a>> => RowsOf(c) = {a}
         /\ c.locks = <<a, b>> => RowsOf(c) = {a, b}
         /\ c.locks = <<a, b, d>> => RowsOf(c) = {a, b, d}
BY DEF RowsOf

(* Every row but the place in the usage table has a guard, and a method     *)
(* locks the guards of all it locks, reads and writes.                      *)
LEMMA GuardsAreLocked ==
  ASSUME NEW c \in Transactions
  PROVE  /\ \A x \in c.writes \cup c.reads \cup RowsOf(c) : x[1] # "slot" => Guard(x) \in RowsOf(c)
         /\ \A x \in c.reads \cup RowsOf(c) : x[1] # "slot"
         /\ \A x \in RowsOf(c) : Guard(x) = x
<1> DEFINE Locks(rows) == RowsOf(c) = rows
           Touches(rows) == c.writes \cup c.reads = rows
<1>1. ASSUME NEW r \in Requests, c \in OfRequest(r)
      PROVE  /\ \/ Locks({Wallet(RequestUser[r]), Operation(r)})
                   /\ \A x \in c.writes \cup c.reads :
                        x \in {Wallet(RequestUser[r]), Operation(r), Key(r), Slot(r), Success(r), Entries(r)}
                \/ Locks({Operation(r)}) /\ \A x \in c.writes \cup c.reads : x \in {Operation(r), Success(r)}
                \/ Locks({}) /\ \A x \in c.writes \cup c.reads : x = Slot(r)
             /\ Slot(r) \notin c.reads
  BY <1>1, RowsListed DEF OfRequest, StartOperation, MarkOperation, CompleteOperation, Finalize, FailOperation, RecordFailure, Tx
<1>2. ASSUME NEW r \in Requests, c \in OfRequest(r)
      PROVE  /\ \A x \in c.writes \cup c.reads \cup RowsOf(c) : x[1] # "slot" => Guard(x) \in RowsOf(c)
             /\ \A x \in c.reads \cup RowsOf(c) : x[1] # "slot"
             /\ \A x \in RowsOf(c) : Guard(x) = x
  <2> DEFINE wallet == Wallet(RequestUser[r])
  <2>1. Guard(Key(r)) = wallet /\ Guard(Entries(r)) = wallet /\ Guard(wallet) = wallet
        /\ Guard(Success(r)) = Operation(r) /\ Guard(Operation(r)) = Operation(r)
    BY GuardOfKey, GuardsOfRequest
  <2>2. \A x \in {wallet, Operation(r), Key(r), Success(r), Entries(r)} : x[1] # "slot" /\ x # Slot(r)
    OBVIOUS
  <2>3. Slot(r)[1] = "slot"
    OBVIOUS
  <2>4. PICK rows \in SUBSET {wallet, Operation(r)} :
          /\ Locks(rows)
          /\ \A x \in c.writes \cup c.reads :
               \/ x = Slot(r) /\ x \notin c.reads
               \/ x \in {wallet, Operation(r), Key(r), Success(r), Entries(r)} /\ Guard(x) \in rows
    <3>1. CASE /\ Locks({wallet, Operation(r)})
               /\ \A x \in c.writes \cup c.reads : x \in {wallet, Operation(r), Key(r), Slot(r), Success(r), Entries(r)}
      BY <1>1, <1>2, <2>1, <3>1
    <3>2. CASE Locks({Operation(r)}) /\ \A x \in c.writes \cup c.reads : x \in {Operation(r), Success(r)}
      BY <2>1, <3>2
    <3>3. CASE Locks({}) /\ \A x \in c.writes \cup c.reads : x = Slot(r)
      BY <1>1, <1>2, <3>3
    <3> QED BY <1>1, <1>2, <3>1, <3>2, <3>3
  <2>5. \A x \in rows : Guard(x) = x /\ x[1] # "slot"
    BY <2>1, <2>2
  <2> QED BY <2>2, <2>3, <2>4, <2>5
<1>3. ASSUME NEW u \in Users, c = Adjust(u)
      PROVE  /\ \A x \in c.writes \cup c.reads \cup RowsOf(c) : x[1] # "slot" => Guard(x) \in RowsOf(c)
             /\ \A x \in c.reads \cup RowsOf(c) : x[1] # "slot"
             /\ \A x \in RowsOf(c) : Guard(x) = x
  <2>1. Locks({Wallet(u)}) /\ c.writes \cup c.reads = {Wallet(u), Adjustments(u)}
    BY <1>3, RowsListed DEF Adjust, Tx
  <2> QED BY <2>1, GuardsOfRequest DEF Guard
<1>4. ASSUME NEW o \in Orders, c = Complete(o)
      PROVE  /\ \A x \in c.writes \cup c.reads \cup RowsOf(c) : x[1] # "slot" => Guard(x) \in RowsOf(c)
             /\ \A x \in c.reads \cup RowsOf(c) : x[1] # "slot"
             /\ \A x \in RowsOf(c) : Guard(x) = x
  <2>1. c.writes = RowsOf(c) /\ c.reads = {}
    BY <1>4 DEF Complete, Tx, RowsOf
  <2>2. \A x \in RowsOf(c) : x = Order(o) \/ x = Wallet(Payer[o]) \/ x = Wallet(Referrer[Payer[o]])
    BY <1>4, RowsListed DEF Complete, Tx
  <2> QED BY <2>1, <2>2 DEF Guard
<1> QED BY <1>2, <1>3, <1>4, Shapes

-----------------------------------------------------------------------------
\* The inductive invariant: locks exclude each other, and what has become stale
\* in the eyes of a transaction is a place it is going to insert into.
ExclusiveLocks == \A v, w \in Workers : v # w => Locked(v) \cap Locked(w) = {}
StaleIsUnique == \A w \in Workers : stale[w] \subseteq IF Running(w) THEN call[w].unique ELSE {}
IdleHoldsNothing == \A w \in Workers : ~Running(w) => locks[w] = 0 /\ ~read[w]
LockingInv == LockingTypeOK /\ ExclusiveLocks /\ StaleIsUnique /\ IdleHoldsNothing

(* Once a transaction has all its locks they are the rows it lists.         *)
LEMMA LockedAll ==
  ASSUME LockingTypeOK, NEW w \in Workers
  PROVE  /\ Running(w) => call[w] \in Transactions
         /\ Locked(w) \subseteq IF Running(w) THEN RowsOf(call[w]) ELSE {}
         /\ AllLocked(w) => Locked(w) = RowsOf(call[w])
<1>1. Running(w) => call[w] \in Transactions
  BY DEF LockingTypeOK, Running
<1>2. Running(w) => locks[w] \in Nat /\ locks[w] <= Len(call[w].locks)
  BY DEF LockingTypeOK
<1>3. Running(w) => DOMAIN call[w].locks = 1..Len(call[w].locks) /\ Len(call[w].locks) \in Nat
  BY <1>1, LocksAreListed
<1> QED BY <1>1, <1>2, <1>3 DEF Locked, AllLocked, RowsOf

LEMMA LockingStart == LockingInit => LockingInv
<1> SUFFICES ASSUME LockingInit PROVE LockingInv
  OBVIOUS
<1>1. \A w \in Workers : ~Running(w) /\ locks[w] = 0 /\ ~read[w] /\ stale[w] = {}
  BY DEF LockingInit, Running
<1>2. LockingTypeOK
  BY <1>1 DEF LockingInit, LockingTypeOK, Running
<1> QED BY <1>1, <1>2 DEF LockingInv, ExclusiveLocks, StaleIsUnique, IdleHoldsNothing, Locked

(* Nobody sees another's write before its commit, and at the commit the     *)
(* writer has locked the guards of what it has written.                     *)
LEMMA WritesAreGuarded ==
  ASSUME LockingInv, NEW v \in Workers, NEW w \in Workers, v # w, MayCommit(v)
  PROVE  Seen(w) \cap call[v].writes \subseteq IF Running(w) THEN call[w].unique ELSE {}
<1> SUFFICES ASSUME NEW x \in Seen(w) \cap call[v].writes
             PROVE  Running(w) /\ x \in call[w].unique
  OBVIOUS
<1>1. AllLocked(v) /\ call[v] \in Transactions /\ Locked(v) = RowsOf(call[v])
  BY LockedAll DEF LockingInv, LockingTypeOK, MayCommit, AllLocked
<1>2. Locked(v) \cap Locked(w) = {}
  BY DEF LockingInv, ExclusiveLocks
<1>3. x \in call[v].writes /\ (x[1] # "slot" => Guard(x) \in Locked(v))
  BY <1>1, GuardsAreLocked
<1>4. Running(w) /\ call[w] \in Transactions
  <2>1. read[w] => AllLocked(w)
    BY DEF LockingInv, LockingTypeOK
  <2> QED BY <2>1, LockedAll DEF Seen, Locked, AllLocked, LockingInv
<1>5. ASSUME x \in Locked(w) PROVE FALSE
  <2>1. x \in RowsOf(call[w])
    BY <1>4, <1>5, LockedAll DEF LockingInv
  <2>2. x[1] # "slot" /\ Guard(x) = x
    BY <1>4, <2>1, GuardsAreLocked
  <2> QED BY <1>2, <1>3, <1>5, <2>2
<1>6. ASSUME read[w], x \in call[w].reads PROVE FALSE
  <2>1. AllLocked(w) /\ Locked(w) = RowsOf(call[w])
    BY <1>6, LockedAll DEF LockingInv, LockingTypeOK
  <2>2. x[1] # "slot" /\ Guard(x) \in RowsOf(call[w])
    BY <1>4, <1>6, GuardsAreLocked
  <2> QED BY <1>2, <1>3, <2>1, <2>2
<1> QED BY <1>4, <1>5, <1>6 DEF Seen

\* What the invariant says of one connection.
WorkerInv(w) ==
  /\ Running(w) => locks[w] <= Len(call[w].locks)
  /\ read[w] => AllLocked(w)
  /\ stale[w] \subseteq Seen(w)
  /\ stale[w] \subseteq IF Running(w) THEN call[w].unique ELSE {}
  /\ ~Running(w) => locks[w] = 0 /\ ~read[w]

(* A step of one connection: the others keep their rows, and what becomes   *)
(* stale in their eyes is what they were going to insert.                   *)
LEMMA OneMoves ==
  ASSUME LockingInv, NEW w \in Workers,
         call' \in [Workers -> Transactions \cup {NoTransaction}], locks' \in [Workers -> Nat],
         read' \in [Workers -> BOOLEAN], DOMAIN stale' = Workers,
         \A v \in Workers \ {w} : call'[v] = call[v] /\ locks'[v] = locks[v] /\ read'[v] = read[v],
         \A v \in Workers \ {w} :
           stale'[v] \subseteq stale[v] \cup (Seen(v) \cap IF Running(v) THEN call[v].unique ELSE {}),
         \A v \in Workers \ {w} : Locked(v) \cap Locked(w)' = {},
         WorkerInv(w)'
  PROVE  LockingInv'
<1>1. ASSUME NEW v \in Workers \ {w}
      PROVE  /\ Running(v)' <=> Running(v)
             /\ AllLocked(v)' <=> AllLocked(v)
             /\ Locked(v)' = Locked(v)
             /\ Seen(v)' = Seen(v)
  <2>1. call'[v] = call[v] /\ locks'[v] = locks[v] /\ read'[v] = read[v]
    OBVIOUS
  <2>2. (Running(v)' <=> Running(v)) /\ Locked(v)' = Locked(v)
    BY <2>1 DEF Running, Locked
  <2>3. (AllLocked(v)' <=> AllLocked(v)) /\ Seen(v)' = Seen(v)
    BY <2>1, <2>2 DEF AllLocked, Seen
  <2> QED BY <2>2, <2>3
<1>2. ASSUME NEW v \in Workers PROVE WorkerInv(v)
  BY DEF WorkerInv, LockingInv, LockingTypeOK, StaleIsUnique, IdleHoldsNothing
<1>3. ASSUME NEW v \in Workers \ {w} PROVE WorkerInv(v)'
  BY <1>1, <1>2 DEF WorkerInv
<1>4. \A v \in Workers : WorkerInv(v)'
  BY <1>3
<1>5. LockingTypeOK' /\ StaleIsUnique' /\ IdleHoldsNothing'
  BY <1>4 DEF WorkerInv, LockingTypeOK, StaleIsUnique, IdleHoldsNothing
<1>6. ExclusiveLocks'
  BY <1>1 DEF LockingInv, ExclusiveLocks
<1> QED BY <1>5, <1>6 DEF LockingInv

(* Every step keeps the invariant.                                          *)
LEMMA LockingStep == LockingInv /\ [LockingNext]_lockingVars => LockingInv'
<1> SUFFICES ASSUME LockingInv, [LockingNext]_lockingVars PROVE LockingInv'
  OBVIOUS
<1>0. /\ call \in [Workers -> Transactions \cup {NoTransaction}] /\ locks \in [Workers -> Nat]
      /\ read \in [Workers -> BOOLEAN] /\ DOMAIN stale = Workers
      /\ \A v \in Workers : WorkerInv(v)
      /\ \A v, w \in Workers : v # w => Locked(v) \cap Locked(w) = {}
  BY DEF LockingInv, LockingTypeOK, WorkerInv, StaleIsUnique, IdleHoldsNothing, ExclusiveLocks
<1>1. ASSUME NEW w \in Workers, NEW c \in Transactions, Begin(w, c) PROVE LockingInv'
  <2>1. call' = [call EXCEPT ![w] = c] /\ locks' = locks /\ read' = read /\ stale' = stale /\ ~Running(w)
    BY <1>1 DEF Begin
  <2>2. locks[w] = 0 /\ ~read[w] /\ stale[w] = {}
    BY <1>0, <2>1 DEF WorkerInv
  <2>3. Locked(w)' = {} /\ WorkerInv(w)'
    BY <1>0, <2>1, <2>2, LocksAreListed DEF Locked, Running, WorkerInv
  <2> QED BY <1>0, <2>1, <2>3, OneMoves
<1>2. ASSUME NEW w \in Workers, LockRow(w) PROVE LockingInv'
  <2> DEFINE row == call[w].locks[locks[w] + 1]
  <2>1. /\ Running(w) /\ ~AllLocked(w) /\ call' = call /\ read' = read /\ stale' = stale
        /\ locks' = [locks EXCEPT ![w] = @ + 1]
        /\ \A v \in Workers : row \notin Locked(v)
    BY <1>2 DEF LockRow
  <2>2. call[w] \in Transactions /\ Len(call[w].locks) \in Nat
    BY <1>0, <2>1, LocksAreListed DEF Running
  <2>3. locks[w] \in Nat /\ locks[w] < Len(call[w].locks) /\ locks'[w] = locks[w] + 1
    BY <1>0, <2>1, <2>2 DEF AllLocked, WorkerInv
  <2>4. Locked(w)' = Locked(w) \cup {row}
    BY <1>0, <2>1, <2>3 DEF Locked, Running
  <2>5. WorkerInv(w)'
    BY <1>0, <2>1, <2>2, <2>3, <2>4 DEF WorkerInv, Running, AllLocked, Seen
  <2> QED BY <1>0, <2>1, <2>3, <2>4, <2>5, OneMoves
<1>3. ASSUME NEW w \in Workers, ReadRest(w) PROVE LockingInv'
  <2>1. /\ AllLocked(w) /\ ~read[w] /\ call' = call /\ locks' = locks /\ stale' = stale
        /\ read' = [read EXCEPT ![w] = TRUE]
    BY <1>3 DEF ReadRest
  <2>2. Locked(w)' = Locked(w) /\ Seen(w) \subseteq Seen(w)'
    BY <1>0, <2>1 DEF Locked, Running, Seen
  <2>3. WorkerInv(w)'
    BY <1>0, <2>1, <2>2 DEF WorkerInv, Running, AllLocked
  <2> QED BY <1>0, <2>1, <2>2, <2>3, OneMoves
<1>4. ASSUME NEW w \in Workers, Releases(w), DOMAIN stale' = Workers, stale'[w] = {},
             \A v \in Workers \ {w} :
               stale'[v] \subseteq stale[v] \cup (Seen(v) \cap IF Running(v) THEN call[v].unique ELSE {})
      PROVE  LockingInv'
  <2>1. /\ call' = [call EXCEPT ![w] = NoTransaction] /\ locks' = [locks EXCEPT ![w] = 0]
        /\ read' = [read EXCEPT ![w] = FALSE]
    BY <1>4 DEF Releases
  <2>2. Locked(w)' = {} /\ WorkerInv(w)'
    BY <1>0, <1>4, <2>1 DEF Locked, Running, WorkerInv
  <2> QED BY <1>0, <1>4, <2>1, <2>2, OneMoves
<1>5. ASSUME NEW w \in Workers, Commit(w) PROVE LockingInv'
  <2>1. /\ MayCommit(w) /\ Releases(w)
        /\ stale' = [v \in Workers |-> IF v = w THEN {} ELSE stale[v] \cup (Seen(v) \cap call[w].writes)]
    BY <1>5 DEF Commit
  <2>2. \A v \in Workers \ {w} : Seen(v) \cap call[w].writes \subseteq IF Running(v) THEN call[v].unique ELSE {}
    BY <2>1, WritesAreGuarded
  <2> QED BY <1>4, <2>1, <2>2
<1>6. ASSUME NEW w \in Workers, RollsBack(w) PROVE LockingInv'
  BY <1>0, <1>4, <1>6 DEF RollsBack
<1>7. CASE UNCHANGED lockingVars
  <2>1. /\ call' = call /\ locks' = locks /\ read' = read /\ stale' = stale
    BY <1>7 DEF lockingVars
  <2>2. LockingTypeOK'
    BY <2>1 DEF LockingInv, LockingTypeOK, Running, AllLocked, Locked, Seen
  <2>3. ExclusiveLocks'
    BY <2>1, SMTT(30) DEF LockingInv, ExclusiveLocks, Running, Locked
  <2>4. StaleIsUnique' /\ IdleHoldsNothing'
    BY <2>1 DEF LockingInv, StaleIsUnique, IdleHoldsNothing, Running
  <2> QED BY <2>2, <2>3, <2>4 DEF LockingInv
<1> QED BY <1>1, <1>2, <1>3, <1>5, <1>6, <1>7 DEF LockingNext

(* Locks exclude each other in every reachable state, and all a connection  *)
(* can find outdated is a usage row it has not inserted yet.                *)
THEOREM LockingInvariant == LockingSpec => []LockingInv
BY LockingStart, LockingStep, PTL DEF LockingSpec

(* Calls, locks and reads of the connections keep their types; a connection *)
(* counts only locks that its method takes.                                 *)
THEOREM LockingTypeCorrect == LockingSpec => []LockingTypeOK
<1>1. LockingInv => LockingTypeOK
  BY DEF LockingInv
<1> QED BY <1>1, LockingInvariant, PTL

(* A transaction of the two stores that can commit has decided on what is   *)
(* stored at the commit, so that a method is one step.                      *)
THEOREM CurrentTheorem == LockingSpec => []DecisionsAreCurrent
<1>1. LockingInv => DecisionsAreCurrent
  <2> SUFFICES ASSUME LockingInv, NEW w \in Workers, MayCommit(w) PROVE stale[w] = {}
    BY DEF DecisionsAreCurrent
  <2>1. stale[w] \subseteq call[w].unique
    BY DEF LockingInv, LockingTypeOK, StaleIsUnique, MayCommit, AllLocked
  <2> QED BY <2>1 DEF MayCommit
<1> QED BY <1>1, LockingInvariant, PTL

(* A set of numbers that is not empty has a least one.                      *)
LEMMA LeastNumber ==
  ASSUME NEW N \in SUBSET Nat, N # {}
  PROVE  \E n \in N : \A m \in N : n <= m
<1> DEFINE R == {p \in Nat \X Nat : p[1] < p[2]}
<1>1. IsWellFoundedOn(R, Nat)
  BY NatLessThanWellFounded DEF OpToRel
<1>2. \A m, n \in Nat : m < n => <<m, n>> \in R
  OBVIOUS
<1> HIDE DEF R
<1>3. PICK n \in N : \A m \in N : <<m, n>> \notin R
  BY <1>1, WFMin
<1>4. ASSUME NEW m \in N PROVE n <= m
  <2>1. ~(m < n)
    BY <1>2, <1>3
  <2> QED BY <2>1
<1> QED BY <1>4

(* However many transactions wait, they never wait in a circle: whoever is  *)
(* waited for and waits itself waits for a row further down the order.      *)
THEOREM DeadlockTheorem == LockingSpec => []NoCircularWait
<1>1. LockingInv => NoCircularWait
  <2> SUFFICES ASSUME LockingInv, NEW W \in (SUBSET Workers) \ {{}},
                      \A w \in W : \E v \in W : WaitsFor(w, v)
               PROVE  FALSE
    BY DEF NoCircularWait
  <2>1. PICK depth : IsDepth(depth)
    BY LockingAssumption DEF IsDepth
  <2> DEFINE awaited(w) == call[w].locks[locks[w] + 1]
             distance(w) == Distance(depth, awaited(w))
  <2>2. ASSUME NEW w \in W
        PROVE  /\ call[w] \in Transactions /\ locks[w] \in Nat
               /\ DOMAIN call[w].locks = 1..Len(call[w].locks) /\ Len(call[w].locks) \in Nat
               /\ locks[w] < Len(call[w].locks)
    <3>1. Running(w) /\ ~AllLocked(w)
      BY DEF WaitsFor
    <3>2. call[w] \in Transactions /\ Len(call[w].locks) \in Nat /\ DOMAIN call[w].locks = 1..Len(call[w].locks)
      BY <3>1, LockedAll, LocksAreListed DEF LockingInv
    <3>3. locks[w] \in Nat /\ locks[w] <= Len(call[w].locks)
      BY <3>1 DEF LockingInv, LockingTypeOK
    <3> QED BY <3>1, <3>2, <3>3 DEF AllLocked
  <2>3. ASSUME NEW w \in W PROVE distance(w) \in Nat
    <3>1. locks[w] + 1 \in 1..Len(call[w].locks)
      BY <2>2
    <3> QED BY <2>1, <2>2, <3>1, DistanceIsNumber
  <2>4. PICK w \in W : \A v \in W : distance(w) <= distance(v)
    <3>1. PICK n \in {distance(v) : v \in W} : \A m \in {distance(v) : v \in W} : n <= m
      <4> HIDE DEF distance
      <4>1. {distance(v) : v \in W} \in SUBSET Nat /\ {distance(v) : v \in W} # {}
        BY <2>3
      <4> QED BY <4>1, LeastNumber
    <3> QED BY <3>1
  <2>5. PICK v \in W : WaitsFor(w, v)
    OBVIOUS
  <2>6. PICK i \in 1..locks[v] : awaited(w) = call[v].locks[i]
    BY <2>5 DEF WaitsFor, Locked
  <2>7. distance(v) < distance(w)
    <3>1. i \in 1..Len(call[v].locks) /\ locks[v] + 1 \in 1..Len(call[v].locks) /\ i < locks[v] + 1
      BY <2>2
    <3>2. Distance(depth, call[v].locks[locks[v] + 1]) < Distance(depth, call[v].locks[i])
      BY <2>1, <2>2, <3>1, LocksDescend
    <3> QED BY <2>6, <3>2
  <2> QED BY <2>3, <2>4, <2>7
<1> QED BY <1>1, LockingInvariant, PTL

(***************************************************************************)
(* Groups, for any number of connections, groups, routes, keys, providers   *)
(* and any limit of keys.                                                   *)
(***************************************************************************)
GroupOps == {"CreateGroup", "UpdateGroup"}
UserRow(k) == <<"user", Owner[k]>>
RouteRow(r) == <<"route", r>>
Owns(c, g) == <<"group", g>> \in tx[c].held

\* Somebody offers a live route in g that Link has not brought astray.
ProperRoute(g) == \E r \in Routes \ astray : Live(r) /\ route[r].group = g

\* What a connection may rely on, by the call it runs: the rows it has locked are
\* of groups that exist, and what it has checked is still so.
OwnsLive(c) == \A g \in Groups : Owns(c, g) => Exists(g)
MembersChecked(c) ==
  tx[c].op \in GroupOps =>
    /\ tx[c].group \notin tx[c].members
    /\ \A h \in tx[c].members : h \notin tx[c].todo => Owns(c, h) /\ group[h] = "standard"
UpdateChecked(c) ==
  tx[c].op = "UpdateGroup" =>
    /\ Owns(c, tx[c].group)
    /\ tx[c].members # {} => ~IsMember(tx[c].group) /\ ~ProperRoute(tx[c].group)
DeletionChecked(c) ==
  tx[c].op = "DeleteGroup" =>
    /\ Owns(c, tx[c].group)
    /\ ~HasKeys(tx[c].group) /\ ~IsMember(tx[c].group) /\ ~ProperRoute(tx[c].group)
KeyChecked(c) ==
  tx[c].op = "CreateKey" =>
    /\ UserRow(tx[c].key) \in tx[c].held
    /\ tx[c].todo \subseteq {tx[c].group}
    /\ tx[c].todo = {} => Owns(c, tx[c].group) /\ BelowLimit(tx[c].key)
RouteChecked(c) ==
  tx[c].op \in {"CreateRoute", "Link", "Restore"} =>
    /\ tx[c].todo \subseteq {tx[c].group}
    /\ tx[c].todo = {} => Owns(c, tx[c].group) /\ group[tx[c].group] = "standard"
    /\ tx[c].op = "Restore" => route[tx[c].route] \in RouteRows
MoveChecked(c) ==
  tx[c].op = "UpdateRoute" =>
    /\ RouteRow(tx[c].route) \in tx[c].held /\ Live(tx[c].route)
    /\ tx[c].group \notin tx[c].todo => Owns(c, tx[c].group)
    /\ tx[c].todo = {} /\ tx[c].group # route[tx[c].route].group => group[tx[c].group] = "standard"

NothingToLock(c) == tx[c].op \in {"DeleteGroup", "CreateRoute", "DeleteProvider"} => tx[c].todo = {}

ConnectionInv(c) ==
  /\ NothingToLock(c) /\ OwnsLive(c) /\ MembersChecked(c) /\ UpdateChecked(c) /\ DeletionChecked(c)
  /\ KeyChecked(c) /\ RouteChecked(c) /\ MoveChecked(c)

ExclusiveRows == \A c, d \in Connections : c # d => tx[c].held \cap tx[d].held = {}

GroupsInv ==
  /\ GroupsTypeOK /\ ExclusiveRows /\ \A c \in Connections : ConnectionInv(c)
  /\ GroupsInUseRemain /\ CompositesAreFlat /\ KeyLimit

(* What the fields of a call are, by its name.                              *)
LEMMA CallFields ==
  ASSUME GroupsTypeOK, NEW c \in Connections
  PROVE  /\ tx[c] = Idle \/ tx[c] \in Calls
         /\ tx[c] # Idle => tx[c].todo \subseteq Groups
         /\ tx[c].held \subseteq Rows
         /\ tx[c].op = "idle" <=> tx[c] = Idle
         /\ tx[c].op \in GroupOps => tx[c] \in GroupCalls
         /\ tx[c].op = "DeleteGroup" => tx[c] \in DeletionCalls
         /\ tx[c].op = "CreateKey" => tx[c] \in KeyCalls
         /\ tx[c].op \in {"CreateRoute", "UpdateRoute", "Link", "Restore"} => tx[c] \in RouteCalls
         /\ tx[c].op = "DeleteProvider" => tx[c] \in ProviderCalls
<1>1. tx[c] \in Calls \cup {Idle}
  BY DEF GroupsTypeOK
<1>2. CASE tx[c] = Idle
  BY <1>2 DEF Idle, GroupOps
<1>3. CASE tx[c] \in Calls
  BY <1>3 DEF Calls, Idle, GroupOps, GroupCalls, DeletionCalls, KeyCalls, RouteCalls, ProviderCalls
<1> QED BY <1>1, <1>2, <1>3

(* Locking a group leaves a call what it is.                                *)
LEMMA CallKept ==
  ASSUME GroupsTypeOK, NEW c \in Connections, NEW g \in tx[c].todo, tx[c] \in Calls,
         tx' = [tx EXCEPT ![c].todo = @ \ {g}, ![c].held = @ \cup {<<"group", g>>}]
  PROVE  /\ g \in Groups
         /\ tx' \in [Connections -> Calls \cup {Idle}]
         /\ \A d \in Connections \ {c} : tx'[d] = tx[d]
         /\ tx'[c].op = tx[c].op /\ tx'[c].todo = tx[c].todo \ {g} /\ tx'[c].held = tx[c].held \cup {<<"group", g>>}
         /\ tx[c].op \in GroupOps => tx'[c].group = tx[c].group /\ tx'[c].members = tx[c].members
         /\ tx[c].op = "DeleteGroup" => tx'[c].group = tx[c].group
         /\ tx[c].op = "CreateKey" => tx'[c].group = tx[c].group /\ tx'[c].key = tx[c].key
         /\ tx[c].op \in {"CreateRoute", "UpdateRoute", "Link", "Restore"} =>
              tx'[c].group = tx[c].group /\ tx'[c].route = tx[c].route /\ tx'[c].provider = tx[c].provider
<1> DEFINE t == tx[c]
           s == [t EXCEPT !.todo = @ \ {g}, !.held = @ \cup {<<"group", g>>}]
<1>1. g \in Groups /\ <<"group", g>> \in Rows
  BY DEF Calls, GroupCalls, DeletionCalls, KeyCalls, RouteCalls, ProviderCalls, Rows
<1>2. /\ s \in Calls
      /\ s.op = t.op /\ s.todo = t.todo \ {g} /\ s.held = t.held \cup {<<"group", g>>}
      /\ t.op \in GroupOps => s.group = t.group /\ s.members = t.members
      /\ t.op = "DeleteGroup" => s.group = t.group
      /\ t.op = "CreateKey" => s.group = t.group /\ s.key = t.key
      /\ t.op \in {"CreateRoute", "UpdateRoute", "Link", "Restore"} =>
           s.group = t.group /\ s.route = t.route /\ s.provider = t.provider
  <2>1. CASE t \in GroupCalls
    BY <1>1, <2>1 DEF Calls, GroupCalls, GroupOps
  <2>2. CASE t \in DeletionCalls
    BY <1>1, <2>2 DEF Calls, DeletionCalls, GroupOps
  <2>3. CASE t \in KeyCalls
    BY <1>1, <2>3 DEF Calls, KeyCalls, GroupOps
  <2>4. CASE t \in RouteCalls
    BY <1>1, <2>4 DEF Calls, RouteCalls, GroupOps
  <2>5. CASE t \in ProviderCalls
    BY <1>1, <2>5 DEF Calls, ProviderCalls, GroupOps
  <2> QED BY <2>1, <2>2, <2>3, <2>4, <2>5 DEF Calls
<1>3. tx \in [Connections -> Calls \cup {Idle}]
  BY DEF GroupsTypeOK
<1>4. tx' = [tx EXCEPT ![c] = s]
  OBVIOUS
<1> HIDE DEF s
<1>5. tx'[c] = s /\ (\A d \in Connections \ {c} : tx'[d] = tx[d]) /\ tx' \in [Connections -> Calls \cup {Idle}]
  BY <1>2, <1>3, <1>4
<1> QED BY <1>1, <1>2, <1>5

(* A transaction that begins locks rows nobody else has locked.             *)
LEMMA BeginsTyped ==
  ASSUME GroupsTypeOK, NEW c \in Connections, NEW t \in Calls, Begins(c, t)
  PROVE  /\ GroupsTypeOK' /\ tx'[c] = t /\ UNCHANGED tables /\ tx[c] = Idle
         /\ \A d \in Connections \ {c} : tx'[d] = tx[d] /\ tx'[c].held \cap tx[d].held = {}
<1>1. /\ tx[c] = Idle /\ tx' = [tx EXCEPT ![c] = t] /\ UNCHANGED tables
      /\ \A d \in Connections \ {c} : t.held \cap tx[d].held = {}
  BY DEF Begins, Free
<1>2. tx \in [Connections -> Calls \cup {Idle}]
  BY DEF GroupsTypeOK
<1>3. tx' \in [Connections -> Calls \cup {Idle}]
  BY <1>1, <1>2
<1> QED BY <1>1, <1>2, <1>3 DEF GroupsTypeOK, tables

LEMMA EndsTyped ==
  ASSUME GroupsTypeOK, NEW c \in Connections, Ends(c)
  PROVE  /\ tx' \in [Connections -> Calls \cup {Idle}] /\ tx'[c] = Idle
         /\ \A d \in Connections \ {c} : tx'[d] = tx[d]
BY DEF Ends, GroupsTypeOK

(* The calls with which transactions begin.                                 *)
LEMMA CallsTyped ==
  ASSUME NEW g \in Groups
  PROVE  /\ \A op \in GroupOps, ms \in SUBSET Groups, rows \in SUBSET Rows : GroupCall(op, g, ms, rows) \in GroupCalls
         /\ \A rows \in SUBSET Rows : [op |-> "DeleteGroup", group |-> g, todo |-> {}, held |-> rows] \in DeletionCalls
         /\ \A k \in Keys : [op |-> "CreateKey", key |-> k, group |-> g, todo |-> {g}, held |-> {UserRow(k)}] \in KeyCalls
         /\ \A op \in {"CreateRoute", "UpdateRoute", "Link", "Restore"}, r \in Routes, p \in Providers,
              groups \in SUBSET Groups, rows \in SUBSET Rows :
              RouteCall(op, r, g, p, groups, rows) \in RouteCalls
         /\ {<<"group", g>>} \in SUBSET Rows
         /\ \A r \in Routes : {RouteRow(r)} \in SUBSET Rows
         /\ {} \in SUBSET Rows
<1>1. {<<"group", g>>} \in SUBSET Rows /\ (\A r \in Routes : {RouteRow(r)} \in SUBSET Rows) /\ {} \in SUBSET Rows
  BY DEF Rows, RouteRow
<1>2. \A k \in Keys : {UserRow(k)} \in SUBSET Rows
  BY DEF Rows, UserRow
<1>3. \A op \in GroupOps, ms \in SUBSET Groups, rows \in SUBSET Rows : GroupCall(op, g, ms, rows) \in GroupCalls
  BY DEF GroupCall, GroupCalls, GroupOps
<1>4. \A rows \in SUBSET Rows : [op |-> "DeleteGroup", group |-> g, todo |-> {}, held |-> rows] \in DeletionCalls
  BY DEF DeletionCalls
<1>5. \A k \in Keys : [op |-> "CreateKey", key |-> k, group |-> g, todo |-> {g}, held |-> {UserRow(k)}] \in KeyCalls
  BY <1>2 DEF KeyCalls
<1>6. \A op \in {"CreateRoute", "UpdateRoute", "Link", "Restore"}, r \in Routes, p \in Providers,
        groups \in SUBSET Groups, rows \in SUBSET Rows : RouteCall(op, r, g, p, groups, rows) \in RouteCalls
  BY DEF RouteCall, RouteCalls
<1> QED BY <1>1, <1>3, <1>4, <1>5, <1>6

(* An idle connection has nothing to keep.                                  *)
LEMMA IdleInv ==
  ASSUME NEW c \in Connections, tx'[c] = Idle
  PROVE  ConnectionInv(c)' /\ tx'[c].held = {}
<1>1. tx'[c].op = "idle" /\ tx'[c].held = {}
  BY DEF Idle
<1>2. OwnsLive(c)' /\ NothingToLock(c)'
  BY <1>1 DEF OwnsLive, Owns, NothingToLock
<1>3. MembersChecked(c)' /\ UpdateChecked(c)' /\ DeletionChecked(c)'
  BY <1>1 DEF MembersChecked, UpdateChecked, DeletionChecked, GroupOps
<1>4. KeyChecked(c)' /\ RouteChecked(c)' /\ MoveChecked(c)'
  BY <1>1 DEF KeyChecked, RouteChecked, MoveChecked
<1> QED BY <1>1, <1>2, <1>3, <1>4 DEF ConnectionInv

\* What a step may not change for a connection that does not take it.
Undisturbed(d) ==
  /\ tx'[d] = tx[d]
  /\ \A h \in Groups : Owns(d, h) =>
       /\ group'[h] = group[h]
       /\ IsMember(h)' => IsMember(h)
       /\ ProperRoute(h)' => ProperRoute(h)
       /\ HasKeys(h)' => HasKeys(h)
  /\ \A r \in Routes : RouteRow(r) \in tx[d].held /\ Live(r) => route'[r] = route[r]
  /\ \A r \in Routes : route[r] \in RouteRows => route'[r] \in RouteRows
  /\ \A k \in Keys : UserRow(k) \in tx[d].held /\ BelowLimit(k) => BelowLimit(k)'

LEMMA OthersKeep ==
  ASSUME GroupsTypeOK, NEW d \in Connections, ConnectionInv(d), Undisturbed(d)
  PROVE  ConnectionInv(d)'
<1>0. tx'[d] = tx[d] /\ \A h : Owns(d, h)' <=> Owns(d, h)
  BY DEF Undisturbed, Owns
<1>1. OwnsLive(d)' /\ NothingToLock(d)'
  BY <1>0 DEF ConnectionInv, OwnsLive, NothingToLock, Undisturbed, Exists
<1>2. MembersChecked(d)'
  BY <1>0, CallFields DEF ConnectionInv, MembersChecked, Undisturbed, GroupCalls
<1>3. UpdateChecked(d)'
  BY <1>0, CallFields DEF ConnectionInv, UpdateChecked, Undisturbed, GroupCalls, GroupOps
<1>4. DeletionChecked(d)'
  BY <1>0, CallFields DEF ConnectionInv, DeletionChecked, Undisturbed, DeletionCalls
<1>5. KeyChecked(d)'
  BY <1>0, CallFields DEF ConnectionInv, KeyChecked, Undisturbed, KeyCalls
<1>6. RouteChecked(d)'
  BY <1>0, CallFields DEF ConnectionInv, RouteChecked, Undisturbed, RouteCalls
<1>7. MoveChecked(d)'
  BY <1>0, CallFields DEF ConnectionInv, MoveChecked, Undisturbed, RouteCalls, Live
<1> QED BY <1>1, <1>2, <1>3, <1>4, <1>5, <1>6, <1>7 DEF ConnectionInv

(* A step of one connection that disturbs no other.                         *)
LEMMA OneConnection ==
  ASSUME GroupsInv, NEW c \in Connections, GroupsTypeOK', ConnectionInv(c)',
         \A d \in Connections \ {c} : Undisturbed(d) /\ tx'[c].held \cap tx[d].held = {},
         GroupsInUseRemain', CompositesAreFlat', KeyLimit'
  PROVE  GroupsInv'
<1>1. \A d \in Connections : ConnectionInv(d)'
  BY OthersKeep DEF GroupsInv
<1>2. ExclusiveRows'
  BY DEF GroupsInv, ExclusiveRows, Undisturbed
<1> QED BY <1>1, <1>2 DEF GroupsInv

LEMMA TablesStay ==
  ASSUME GroupsInv, UNCHANGED tables
  PROVE  /\ GroupsInUseRemain' /\ CompositesAreFlat' /\ KeyLimit'
         /\ \A d \in Connections : tx'[d] = tx[d] => Undisturbed(d)
<1>1. /\ group' = group /\ members' = members /\ route' = route /\ key' = key /\ astray' = astray /\ providers' = providers
  BY DEF tables
<1>2. GroupsInUseRemain' /\ CompositesAreFlat' /\ KeyLimit'
  BY <1>1 DEF GroupsInv, GroupsInUseRemain, CompositesAreFlat, KeyLimit, Active, Exists, Live
<1>3. ASSUME NEW d \in Connections, tx'[d] = tx[d] PROVE Undisturbed(d)
  BY <1>1, <1>3 DEF Undisturbed, IsMember, ProperRoute, HasKeys, Live, BelowLimit, Active
<1> QED BY <1>2, <1>3

LEMMA BeginStep ==
  ASSUME GroupsInv, NEW c \in Connections, NEW t \in Calls, Begins(c, t), ConnectionInv(c)'
  PROVE  GroupsInv'
BY BeginsTyped, TablesStay, OneConnection DEF GroupsInv

(* A commit ends its transaction.                                           *)
LEMMA EndStep ==
  ASSUME GroupsInv, NEW c \in Connections, Ends(c), GroupsTypeOK',
         \A d \in Connections \ {c} : tx'[d] = tx[d] => Undisturbed(d),
         GroupsInUseRemain', CompositesAreFlat', KeyLimit'
  PROVE  GroupsInv'
<1>1. tx'[c] = Idle /\ \A d \in Connections \ {c} : tx'[d] = tx[d]
  BY EndsTyped DEF GroupsInv
<1> QED BY <1>1, IdleInv, OneConnection

(* The transactions that begin: what the invariant says of a call holds of  *)
(* it from its first lock on.                                               *)
LEMMA GroupsBegin ==
  ASSUME GroupsInv, NEW c \in Connections,
         CreateGroup(c) \/ UpdateGroup(c) \/ DeleteGroup(c) \/ CreateKey(c) \/ CreateRoute(c)
           \/ UpdateRoute(c) \/ Link(c) \/ DeleteProvider(c)
  PROVE  GroupsInv'
<1> USE DEF Owns
<1>0. GroupsTypeOK /\ GroupsInUseRemain /\ CompositesAreFlat
  BY DEF GroupsInv
<1>a. ASSUME UNCHANGED tables
      PROVE  /\ group' = group /\ members' = members /\ route' = route /\ key' = key /\ astray' = astray
             /\ \A g : Exists(g)' <=> Exists(g)
             /\ \A g : IsMember(g)' <=> IsMember(g)
             /\ \A g : ProperRoute(g)' <=> ProperRoute(g)
             /\ \A g : HasKeys(g)' <=> HasKeys(g)
             /\ \A r : Live(r)' <=> Live(r)
  BY <1>a DEF tables, Exists, IsMember, ProperRoute, HasKeys, Live
<1>1. CASE CreateGroup(c)
  <2>1. PICK g \in Groups, ms \in SUBSET Groups : g \notin ms /\ Begins(c, GroupCall("CreateGroup", g, ms, {}))
    BY <1>1 DEF CreateGroup
  <2> DEFINE t == GroupCall("CreateGroup", g, ms, {})
  <2>2. t \in Calls /\ t.op = "CreateGroup" /\ t.group = g /\ t.members = ms /\ t.todo = ms /\ t.held = {}
    BY CallsTyped DEF GroupCall, GroupOps, Calls
  <2>3. tx'[c] = t /\ UNCHANGED tables
    BY <1>0, <2>1, <2>2, BeginsTyped
  <2> HIDE DEF t
  <2>4. ConnectionInv(c)'
    BY <2>1, <2>2, <2>3 DEF ConnectionInv, NothingToLock, OwnsLive, MembersChecked, UpdateChecked, DeletionChecked, KeyChecked, RouteChecked, MoveChecked
  <2> QED BY <2>1, <2>2, <2>4, BeginStep DEF t
<1>2. CASE UpdateGroup(c)
  <2>1. PICK g \in Groups, ms \in SUBSET Groups :
          /\ g \notin ms /\ Exists(g)
          /\ ms # {} /\ group[g] = "standard" => ~HasRoutes(g) /\ ~IsMember(g)
          /\ Begins(c, GroupCall("UpdateGroup", g, ms, {<<"group", g>>}))
    BY <1>2 DEF UpdateGroup
  <2> DEFINE t == GroupCall("UpdateGroup", g, ms, {<<"group", g>>})
  <2>2. t \in Calls /\ t.op = "UpdateGroup" /\ t.group = g /\ t.members = ms /\ t.todo = ms /\ t.held = {<<"group", g>>}
    BY CallsTyped DEF GroupCall, GroupOps, Calls
  <2>3. tx'[c] = t /\ UNCHANGED tables
    BY <1>0, <2>1, <2>2, BeginsTyped
  <2>4. ms # {} => ~IsMember(g) /\ ~ProperRoute(g)
    BY <1>0, <2>1 DEF Exists, HasRoutes, IsMember, ProperRoute, GroupsInUseRemain, CompositesAreFlat
  <2> HIDE DEF t
  <2>5. NothingToLock(c)' /\ OwnsLive(c)' /\ MembersChecked(c)' /\ UpdateChecked(c)'
    BY <1>a, <2>1, <2>2, <2>3, <2>4 DEF NothingToLock, OwnsLive, MembersChecked, UpdateChecked
  <2>6. DeletionChecked(c)' /\ KeyChecked(c)' /\ RouteChecked(c)' /\ MoveChecked(c)'
    BY <2>2, <2>3 DEF DeletionChecked, KeyChecked, RouteChecked, MoveChecked
  <2>7. ConnectionInv(c)'
    BY <2>5, <2>6 DEF ConnectionInv
  <2> QED BY <2>1, <2>2, <2>7, BeginStep DEF t
<1>3. CASE DeleteGroup(c)
  <2> DEFINE t(x) == [op |-> "DeleteGroup", group |-> x, todo |-> {}, held |-> {<<"group", x>>}]
  <2>1. PICK g \in Groups : Exists(g) /\ ~HasKeys(g) /\ ~HasRoutes(g) /\ ~IsMember(g) /\ Begins(c, t(g))
    BY <1>3 DEF DeleteGroup
  <2>2. t(g) \in Calls /\ t(g).op = "DeleteGroup" /\ t(g).group = g /\ t(g).todo = {} /\ t(g).held = {<<"group", g>>}
    BY CallsTyped DEF Calls
  <2>3. tx'[c] = t(g) /\ UNCHANGED tables
    BY <1>0, <2>1, <2>2, BeginsTyped
  <2>4. ~ProperRoute(g)
    BY <2>1 DEF HasRoutes, ProperRoute
  <2> HIDE DEF t
  <2>5. NothingToLock(c)' /\ OwnsLive(c)' /\ DeletionChecked(c)'
    BY <1>a, <2>1, <2>2, <2>3, <2>4 DEF NothingToLock, OwnsLive, DeletionChecked
  <2>6. MembersChecked(c)' /\ UpdateChecked(c)' /\ KeyChecked(c)' /\ RouteChecked(c)' /\ MoveChecked(c)'
    BY <2>2, <2>3 DEF MembersChecked, UpdateChecked, KeyChecked, RouteChecked, MoveChecked, GroupOps
  <2>7. ConnectionInv(c)'
    BY <2>5, <2>6 DEF ConnectionInv
  <2> QED BY <2>1, <2>2, <2>7, BeginStep
<1>4. CASE CreateKey(c)
  <2> DEFINE t(x, y) == [op |-> "CreateKey", key |-> x, group |-> y, todo |-> {y}, held |-> {<<"user", Owner[x]>>}]
  <2>1. PICK k \in Keys, g \in Groups : Begins(c, t(k, g))
    BY <1>4 DEF CreateKey
  <2>2. t(k, g) \in Calls /\ t(k, g).op = "CreateKey" /\ t(k, g).key = k /\ t(k, g).group = g
        /\ t(k, g).todo = {g} /\ t(k, g).held = {UserRow(k)}
    BY CallsTyped DEF Calls, UserRow
  <2>3. tx'[c] = t(k, g) /\ UNCHANGED tables
    BY <1>0, <2>1, <2>2, BeginsTyped
  <2> HIDE DEF t
  <2>4. NothingToLock(c)' /\ OwnsLive(c)' /\ KeyChecked(c)'
    BY <2>2, <2>3 DEF NothingToLock, OwnsLive, KeyChecked, UserRow
  <2>5. MembersChecked(c)' /\ UpdateChecked(c)' /\ DeletionChecked(c)' /\ RouteChecked(c)' /\ MoveChecked(c)'
    BY <2>2, <2>3 DEF MembersChecked, UpdateChecked, DeletionChecked, RouteChecked, MoveChecked, GroupOps
  <2>6. ConnectionInv(c)'
    BY <2>4, <2>5 DEF ConnectionInv
  <2> QED BY <2>1, <2>2, <2>6, BeginStep
<1>5. ASSUME NEW op \in {"CreateRoute", "UpdateRoute", "Link", "Restore"}, NEW r \in Routes, NEW g \in Groups, NEW p \in Providers,
             NEW groups \in SUBSET Groups, NEW rows \in SUBSET Rows,
             Begins(c, RouteCall(op, r, g, p, groups, rows)),
             \/ op = "CreateRoute" /\ group[g] = "standard" /\ groups = {} /\ rows = {<<"group", g>>}
             \/ op = "UpdateRoute" /\ Live(r) /\ groups = {route[r].group, g} /\ rows = {RouteRow(r)}
             \/ op \in {"Link", "Restore"} /\ groups = {g} /\ rows = {},
             op = "Restore" => route[r] \in RouteRows
      PROVE  GroupsInv'
  <2> DEFINE t == RouteCall(op, r, g, p, groups, rows)
  <2>2. t \in Calls /\ t.op = op /\ t.route = r /\ t.group = g /\ t.todo = groups /\ t.held = rows
    BY CallsTyped DEF RouteCall, Calls
  <2>3. tx'[c] = t /\ UNCHANGED tables
    BY <1>0, <1>5, <2>2, BeginsTyped
  <2> HIDE DEF t
  <2>4. NothingToLock(c)' /\ OwnsLive(c)'
    BY <1>a, <1>5, <2>2, <2>3 DEF NothingToLock, OwnsLive, Exists, RouteRow
  <2>5. RouteChecked(c)' /\ MoveChecked(c)'
    BY <1>a, <1>5, <2>2, <2>3 DEF RouteChecked, MoveChecked
  <2>6. MembersChecked(c)' /\ UpdateChecked(c)' /\ DeletionChecked(c)' /\ KeyChecked(c)'
    BY <2>2, <2>3 DEF MembersChecked, UpdateChecked, DeletionChecked, KeyChecked, GroupOps
  <2>7. ConnectionInv(c)'
    BY <2>4, <2>5, <2>6 DEF ConnectionInv
  <2> QED BY <1>5, <2>2, <2>7, BeginStep DEF t
<1>6. providers \subseteq Providers
  BY <1>0 DEF GroupsTypeOK
<1>7. CASE CreateRoute(c)
  BY <1>5, <1>6, <1>7, CallsTyped DEF CreateRoute
<1>8. CASE UpdateRoute(c)
  <2>1. PICK r \in Routes, g \in Groups, p \in Providers :
          Live(r) /\ Begins(c, RouteCall("UpdateRoute", r, g, p, {route[r].group, g}, {RouteRow(r)}))
    BY <1>8 DEF UpdateRoute, RouteRow
  <2>2. route[r].group \in Groups
    BY <1>0, <2>1 DEF GroupsTypeOK, RouteRows, Live
  <2>3. {route[r].group, g} \in SUBSET Groups /\ {RouteRow(r)} \in SUBSET Rows
    BY <2>2, CallsTyped
  <2> QED BY <1>5, <2>1, <2>3
<1>9. CASE Link(c)
  <2>1. PICK r \in Routes, g \in Groups, p \in providers, op \in {"Link", "Restore"} :
          /\ Begins(c, RouteCall(op, r, g, p, {g}, {}))
          /\ op = "Restore" => route[r] = [group |-> g, provider |-> p, live |-> FALSE]
    BY <1>9 DEF Link
  <2>2. /\ p \in Providers /\ {g} \in SUBSET Groups /\ {} \in SUBSET Rows
        /\ op = "Restore" => route[r] \in RouteRows
    <3>1. [group |-> g, provider |-> p, live |-> FALSE] \in RouteRows
      BY <1>6 DEF RouteRows
    <3> QED BY <1>6, <2>1, <3>1
  <2> QED BY <1>5, <2>1, <2>2
<1>10. CASE DeleteProvider(c)
  <2> DEFINE t(x) == [op |-> "DeleteProvider", provider |-> x, todo |-> {}, held |-> {<<"provider", x>>}]
  <2>1. PICK p \in providers : Begins(c, t(p))
    BY <1>10 DEF DeleteProvider
  <2>2. t(p) \in Calls /\ t(p).op = "DeleteProvider" /\ t(p).todo = {} /\ t(p).held = {<<"provider", p>>}
    BY <1>6 DEF Calls, ProviderCalls, Rows
  <2>3. tx'[c] = t(p) /\ UNCHANGED tables
    BY <1>0, <2>1, <2>2, BeginsTyped
  <2> HIDE DEF t
  <2>4. NothingToLock(c)' /\ OwnsLive(c)'
    BY <2>2, <2>3 DEF NothingToLock, OwnsLive
  <2>5. /\ MembersChecked(c)' /\ UpdateChecked(c)' /\ DeletionChecked(c)' /\ KeyChecked(c)'
        /\ RouteChecked(c)' /\ MoveChecked(c)'
    BY <2>2, <2>3 DEF MembersChecked, UpdateChecked, DeletionChecked, KeyChecked, RouteChecked, MoveChecked, GroupOps
  <2>6. ConnectionInv(c)'
    BY <2>4, <2>5 DEF ConnectionInv
  <2> QED BY <2>1, <2>2, <2>6, BeginStep
<1> QED BY <1>1, <1>2, <1>3, <1>4, <1>7, <1>8, <1>9, <1>10

(* A group that a transaction locks exists, and it has checked the group.   *)
LEMMA LockKeeps ==
  ASSUME GroupsInv, NEW c \in Connections, LocksGroup(c)
  PROVE  GroupsInv'
<1>0. GroupsTypeOK /\ ConnectionInv(c)
  BY DEF GroupsInv
<1>1. PICK g \in tx[c].todo :
        /\ Free(c, <<"group", g>>) /\ Admits(tx[c], g)
        /\ tx' = [tx EXCEPT ![c].todo = @ \ {g}, ![c].held = @ \cup {<<"group", g>>}]
  BY DEF LocksGroup
<1>2. UNCHANGED tables /\ tx[c] \in Calls
  BY <1>0, CallFields DEF LocksGroup
<1> DEFINE t == tx[c]
<1>3. /\ g \in Groups /\ tx' \in [Connections -> Calls \cup {Idle}]
      /\ \A d \in Connections \ {c} : tx'[d] = tx[d]
  BY <1>0, <1>1, <1>2, CallKept
<1>6. /\ tx'[c].op = t.op /\ tx'[c].todo = t.todo \ {g} /\ tx'[c].held = t.held \cup {<<"group", g>>}
      /\ t.op \in GroupOps => tx'[c].group = t.group /\ tx'[c].members = t.members
      /\ t.op = "DeleteGroup" => tx'[c].group = t.group
      /\ t.op = "CreateKey" => tx'[c].group = t.group /\ tx'[c].key = t.key
      /\ t.op \in {"CreateRoute", "UpdateRoute", "Link", "Restore"} =>
           tx'[c].group = t.group /\ tx'[c].route = t.route /\ tx'[c].provider = t.provider
  BY <1>0, <1>1, <1>2, CallKept
<1>8. GroupsTypeOK'
  BY <1>0, <1>2, <1>3 DEF GroupsTypeOK, tables
<1>9. group' = group /\ members' = members /\ route' = route /\ key' = key /\ astray' = astray
      /\ g \in Groups
  BY <1>2, <1>3 DEF tables
<1>10. t.op \in {"CreateGroup", "UpdateGroup", "Link", "Restore", "CreateKey", "UpdateRoute"}
  BY <1>0, <1>1, <1>2 DEF ConnectionInv, NothingToLock, Calls, GroupCalls, DeletionCalls, KeyCalls, RouteCalls, ProviderCalls
<1> DEFINE owned(h) == <<"group", h>> \in tx'[c].held
<1>11. (\A h : owned(h) <=> Owns(c, h) \/ h = g) /\ \A h : Owns(c, h)' <=> owned(h)
  BY <1>6 DEF Owns
<1> HIDE DEF t
<1>12. /\ t.op \in {"CreateGroup", "UpdateGroup", "Link", "Restore"} => group[g] = "standard"
       /\ t.op = "CreateKey" => BelowLimit(t.key)
       /\ t.op = "UpdateRoute" /\ t.todo = {g} => Referable(t)
       /\ Exists(g)
  BY <1>1, <1>10 DEF Admits, Exists, t
<1>13. OwnsLive(c)' /\ NothingToLock(c)'
  BY <1>0, <1>6, <1>9, <1>10, <1>11, <1>12 DEF ConnectionInv, OwnsLive, NothingToLock, Exists
<1>14. MembersChecked(c)'
  BY <1>0, <1>6, <1>9, <1>11, <1>12 DEF ConnectionInv, MembersChecked, GroupOps, t
<1>15. UpdateChecked(c)' /\ DeletionChecked(c)'
  <2>1. \A h : (IsMember(h)' <=> IsMember(h)) /\ (ProperRoute(h)' <=> ProperRoute(h)) /\ (HasKeys(h)' <=> HasKeys(h))
    BY <1>9 DEF IsMember, ProperRoute, HasKeys, Live
  <2> QED BY <1>0, <1>6, <1>11, <2>1 DEF ConnectionInv, UpdateChecked, DeletionChecked, GroupOps, t
<1>16. KeyChecked(c)'
  <2>1. \A k : BelowLimit(k)' <=> BelowLimit(k)
    BY <1>9 DEF BelowLimit, Active
  <2> QED BY <1>0, <1>1, <1>6, <1>11, <1>12, <2>1 DEF ConnectionInv, KeyChecked, t
<1>17. RouteChecked(c)'
  BY <1>0, <1>1, <1>6, <1>9, <1>10, <1>11, <1>12 DEF ConnectionInv, RouteChecked, t
<1>18. MoveChecked(c)'
  <2>1. ASSUME t.op = "UpdateRoute", t.todo \ {g} = {} PROVE t.group # route[t.route].group => group[t.group] = "standard"
    <3>1. t.todo = {g}
      BY <1>1, <2>1 DEF t
    <3> QED BY <1>12, <2>1, <3>1 DEF Referable
  <2>2. \A r : Live(r)' <=> Live(r)
    BY <1>9 DEF Live
  <2> QED BY <1>0, <1>6, <1>9, <1>11, <2>1, <2>2 DEF ConnectionInv, MoveChecked, t
<1>19. ConnectionInv(c)'
  BY <1>13, <1>14, <1>15, <1>16, <1>17, <1>18 DEF ConnectionInv
<1>20. \A d \in Connections \ {c} : tx'[c].held \cap tx[d].held = {}
  BY <1>1, <1>6 DEF GroupsInv, ExclusiveRows, Free, t
<1> QED BY <1>2, <1>3, <1>8, <1>19, <1>20, TablesStay, OneConnection

LEMMA RollbackKeeps ==
  ASSUME GroupsInv, NEW c \in Connections, Rollback(c)
  PROVE  GroupsInv'
<1>1. Ends(c) /\ UNCHANGED tables
  BY DEF Rollback
<1>2. GroupsTypeOK'
  BY <1>1, EndsTyped DEF GroupsInv, GroupsTypeOK, tables
<1> QED BY <1>1, <1>2, TablesStay, EndStep

(* Rows that one connection holds no other holds.                           *)
LEMMA HeldAlone ==
  ASSUME GroupsInv, NEW c \in Connections, NEW d \in Connections \ {c}
  PROVE  /\ \A h : Owns(c, h) => ~Owns(d, h)
         /\ \A k : UserRow(k) \in tx[c].held => UserRow(k) \notin tx[d].held
BY DEF GroupsInv, ExclusiveRows, Owns

\* The members of a group that commits are locked, hence no one else's.
LEMMA GroupCommitKeeps ==
  ASSUME GroupsInv, NEW c \in Connections, GroupCommits(c)
  PROVE  GroupsInv'
<1> DEFINE g == tx[c].group
           ms == tx[c].members
<1>0. GroupsTypeOK /\ ConnectionInv(c) /\ GroupsInUseRemain /\ CompositesAreFlat /\ KeyLimit
  BY DEF GroupsInv
<1>1. /\ tx[c].op \in GroupOps /\ tx[c].todo = {} /\ Ends(c)
      /\ tx[c].op = "CreateGroup" => group[g] = "none"
      /\ group' = [group EXCEPT ![g] = Kind(ms)] /\ members' = [members EXCEPT ![g] = ms]
      /\ route' = route /\ providers' = providers /\ key' = key /\ astray' = astray
  BY DEF GroupCommits, CanCommit, Put, GroupOps
<1>2. g \in Groups /\ ms \in SUBSET Groups /\ g \notin ms /\ \A h \in ms : Owns(c, h) /\ group[h] = "standard"
  BY <1>0, <1>1, CallFields DEF GroupCalls, ConnectionInv, MembersChecked
<1>3. \/ group[g] = "none"
      \/ Owns(c, g) /\ Exists(g) /\ (ms # {} => ~IsMember(g) /\ ~ProperRoute(g))
  BY <1>0, <1>1, <1>2 DEF GroupOps, ConnectionInv, UpdateChecked, OwnsLive
<1> HIDE DEF g, ms
<1>4. group'[g] = Kind(ms) /\ members'[g] = ms /\ \A h \in Groups \ {g} : group'[h] = group[h] /\ members'[h] = members[h]
  BY <1>0, <1>1, <1>2 DEF GroupsTypeOK
<1>5. Kind(ms) \in {"standard", "composite"} /\ (Kind(ms) = "composite" <=> ms # {})
  BY DEF Kind
<1>6. GroupsTypeOK'
  BY <1>0, <1>1, <1>2, <1>5, EndsTyped DEF GroupsTypeOK
<1>7. \A r : (Live(r)' <=> Live(r)) /\ \A k : (Active(k)' <=> Active(k)) /\ (BelowLimit(k)' <=> BelowLimit(k))
  BY <1>1 DEF Live, Active, BelowLimit
<1>8. ASSUME NEW d \in Connections \ {c}, tx'[d] = tx[d] PROVE Undisturbed(d)
  <2>1. ASSUME NEW h \in Groups, Owns(d, h)
        PROVE  /\ group'[h] = group[h] /\ (IsMember(h)' => IsMember(h))
               /\ (ProperRoute(h)' => ProperRoute(h)) /\ (HasKeys(h)' => HasKeys(h))
    <3>1. Exists(h) /\ ~Owns(c, h)
      BY <2>1, HeldAlone DEF GroupsInv, ConnectionInv, OwnsLive
    <3>2. h # g /\ h \notin ms
      BY <1>2, <1>3, <3>1 DEF Exists
    <3>3. IsMember(h)' => IsMember(h)
      BY <1>4, <3>2 DEF IsMember
    <3> QED BY <1>1, <1>4, <1>7, <3>2, <3>3 DEF ProperRoute, HasKeys
  <2> QED BY <1>1, <1>7, <1>8, <2>1 DEF Undisturbed
<1>9. GroupsInUseRemain'
  <2>1. ASSUME NEW k \in Keys, Active(k)
        PROVE  Exists(key[k])' /\ (group'[key[k]] = "composite" => members'[key[k]] # {})
    <3>1. key[k] \in Groups /\ Exists(key[k]) /\ (group[key[k]] = "composite" => members[key[k]] # {})
      BY <1>0, <2>1 DEF GroupsInUseRemain, Active
    <3> QED BY <1>1, <1>4, <1>5, <3>1 DEF Exists
  <2>2. ASSUME NEW r \in Routes \ astray, Live(r) PROVE group'[route[r].group] = "standard"
    <3>1. group[route[r].group] = "standard" /\ route[r].group \in Groups
      BY <1>0, <2>2 DEF GroupsInUseRemain, GroupsTypeOK, Live, RouteRows
    <3>2. CASE route[r].group = g
      BY <1>3, <1>4, <1>5, <2>2, <3>1, <3>2 DEF ProperRoute
    <3> QED BY <1>4, <3>1, <3>2
  <2> QED BY <1>1, <1>7, <2>1, <2>2 DEF GroupsInUseRemain
<1>10. CompositesAreFlat'
  <2>1. ASSUME NEW x \in Groups
        PROVE  (members'[x] # {} <=> group'[x] = "composite") /\ \A h \in members'[x] : group'[h] = "standard"
    <3>1. CASE x = g
      BY <1>2, <1>4, <1>5, <3>1
    <3>2. CASE x # g
      <4>1. members'[x] = members[x] /\ group'[x] = group[x] /\ members[x] \subseteq Groups
        BY <1>0, <1>4, <3>2 DEF GroupsTypeOK
      <4>2. ASSUME NEW h \in members[x] PROVE group'[h] = "standard"
        <5>1. group[h] = "standard" /\ h \in Groups /\ IsMember(h)
          BY <1>0, <4>1 DEF CompositesAreFlat, IsMember
        <5> QED BY <1>3, <1>4, <1>5, <5>1
      <4> QED BY <1>0, <4>1, <4>2 DEF CompositesAreFlat
    <3> QED BY <3>1, <3>2
  <2> QED BY <2>1 DEF CompositesAreFlat
<1>11. KeyLimit'
  BY <1>0, <1>1 DEF KeyLimit, Active
<1> QED BY <1>1, <1>6, <1>8, <1>9, <1>10, <1>11, EndStep

LEMMA DeletionCommitKeeps ==
  ASSUME GroupsInv, NEW c \in Connections, DeleteGroupCommits(c)
  PROVE  GroupsInv'
<1> DEFINE g == tx[c].group
<1>0. GroupsTypeOK /\ ConnectionInv(c) /\ GroupsInUseRemain /\ CompositesAreFlat /\ KeyLimit
  BY DEF GroupsInv
<1>1. /\ tx[c].op = "DeleteGroup" /\ Ends(c)
      /\ group' = [group EXCEPT ![g] = "deleted"] /\ members' = [members EXCEPT ![g] = {}]
      /\ route' = route /\ providers' = providers /\ key' = key /\ astray' = astray
  BY DEF DeleteGroupCommits, CanCommit
<1>2. g \in Groups /\ Owns(c, g) /\ ~HasKeys(g) /\ ~IsMember(g) /\ ~ProperRoute(g)
  BY <1>0, <1>1, CallFields DEF DeletionCalls, ConnectionInv, DeletionChecked
<1> HIDE DEF g
<1>3. group'[g] = "deleted" /\ members'[g] = {} /\ \A h \in Groups \ {g} : group'[h] = group[h] /\ members'[h] = members[h]
  BY <1>0, <1>1, <1>2 DEF GroupsTypeOK
<1>4. GroupsTypeOK'
  BY <1>0, <1>1, <1>2, EndsTyped DEF GroupsTypeOK
<1>5. \A r : (Live(r)' <=> Live(r)) /\ \A k : (Active(k)' <=> Active(k)) /\ (BelowLimit(k)' <=> BelowLimit(k))
  BY <1>1 DEF Live, Active, BelowLimit
<1>6. ASSUME NEW d \in Connections \ {c}, tx'[d] = tx[d] PROVE Undisturbed(d)
  <2>1. ASSUME NEW h \in Groups, Owns(d, h)
        PROVE  /\ group'[h] = group[h] /\ (IsMember(h)' => IsMember(h))
               /\ (ProperRoute(h)' => ProperRoute(h)) /\ (HasKeys(h)' => HasKeys(h))
    <3>1. h # g
      BY <1>2, <2>1, HeldAlone
    <3>2. IsMember(h)' => IsMember(h)
      BY <1>3 DEF IsMember
    <3> QED BY <1>1, <1>3, <1>5, <3>1, <3>2 DEF ProperRoute, HasKeys
  <2> QED BY <1>1, <1>5, <1>6, <2>1 DEF Undisturbed
<1>7. GroupsInUseRemain'
  <2>1. ASSUME NEW k \in Keys, Active(k)
        PROVE  Exists(key[k])' /\ (group'[key[k]] = "composite" => members'[key[k]] # {})
    <3>1. key[k] \in Groups \ {g} /\ Exists(key[k]) /\ (group[key[k]] = "composite" => members[key[k]] # {})
      BY <1>0, <1>2, <2>1 DEF GroupsInUseRemain, Active, HasKeys
    <3> QED BY <1>1, <1>3, <3>1 DEF Exists
  <2>2. ASSUME NEW r \in Routes \ astray, Live(r) PROVE group'[route[r].group] = "standard"
    <3>1. group[route[r].group] = "standard" /\ route[r].group \in Groups \ {g}
      BY <1>0, <1>2, <2>2 DEF GroupsInUseRemain, GroupsTypeOK, Live, RouteRows, ProperRoute
    <3> QED BY <1>3, <3>1
  <2> QED BY <1>1, <1>5, <2>1, <2>2 DEF GroupsInUseRemain
<1>8. CompositesAreFlat'
  <2>1. ASSUME NEW x \in Groups
        PROVE  (members'[x] # {} <=> group'[x] = "composite") /\ \A h \in members'[x] : group'[h] = "standard"
    <3>1. CASE x = g
      BY <1>3, <3>1
    <3>2. CASE x # g
      <4>1. members'[x] = members[x] /\ group'[x] = group[x] /\ members[x] \subseteq Groups \ {g}
        BY <1>0, <1>2, <1>3, <3>2 DEF GroupsTypeOK, IsMember
      <4> QED BY <1>0, <1>3, <4>1 DEF CompositesAreFlat
    <3> QED BY <3>1, <3>2
  <2> QED BY <2>1 DEF CompositesAreFlat
<1>9. KeyLimit'
  BY <1>0, <1>1 DEF KeyLimit, Active
<1> QED BY <1>1, <1>4, <1>6, <1>7, <1>8, <1>9, EndStep

\* The row of the user keeps other keys of the user from being created meanwhile.
LEMMA KeyCommitKeeps ==
  ASSUME GroupsInv, NEW c \in Connections, CreateKeyCommits(c)
  PROVE  GroupsInv'
<1> DEFINE Of(u) == {l \in Keys : Owner[l] = u /\ Active(l)}
<1>0. GroupsTypeOK /\ ConnectionInv(c) /\ GroupsInUseRemain /\ CompositesAreFlat /\ KeyLimit
  BY DEF GroupsInv
<1>a. PICK k \in Keys, g \in Groups : k = tx[c].key /\ g = tx[c].group
  BY <1>0, CallFields DEF CreateKeyCommits, CanCommit, KeyCalls
<1>1. /\ tx[c].op = "CreateKey" /\ tx[c].todo = {} /\ key[k] = NoKey /\ Ends(c)
      /\ key' = [key EXCEPT ![k] = g]
      /\ group' = group /\ members' = members /\ route' = route /\ providers' = providers /\ astray' = astray
  BY <1>a DEF CreateKeyCommits, CanCommit
<1>2. UserRow(k) \in tx[c].held /\ Owns(c, g) /\ BelowLimit(k) /\ Exists(g)
  BY <1>0, <1>a, <1>1 DEF ConnectionInv, KeyChecked, OwnsLive
<1>3. key'[k] = g /\ \A l \in Keys \ {k} : key'[l] = key[l]
  BY <1>0, <1>1, <1>2 DEF GroupsTypeOK
<1>4. GroupsTypeOK'
  BY <1>0, <1>1, <1>2, EndsTyped DEF GroupsTypeOK
<1>5. (\A r : Live(r)' <=> Live(r)) /\ \A x : (Exists(x)' <=> Exists(x)) /\ (IsMember(x)' <=> IsMember(x))
  BY <1>1 DEF Live, Exists, IsMember
<1>6. Of(Owner[k])' \subseteq Of(Owner[k]) \cup {k} /\ \A u : u # Owner[k] => Of(u)' = Of(u)
  <2>1. Of(Owner[k])' \subseteq Of(Owner[k]) \cup {k}
    BY <1>2, <1>3 DEF Active
  <2>2. ASSUME NEW u, u # Owner[k] PROVE Of(u)' = Of(u)
    BY <1>2, <1>3, <2>2 DEF Active
  <2> QED BY <2>1, <2>2
<1>7. \A l : (BelowLimit(l) <=> Cardinality(Of(Owner[l])) < MaxActive) /\ (BelowLimit(l)' <=> Cardinality(Of(Owner[l])') < MaxActive)
  BY DEF BelowLimit
<1> HIDE DEF Of
<1>8. ASSUME NEW d \in Connections \ {c}, tx'[d] = tx[d] PROVE Undisturbed(d)
  <2>1. ASSUME NEW h \in Groups, Owns(d, h)
        PROVE  /\ group'[h] = group[h] /\ (IsMember(h)' => IsMember(h))
               /\ (ProperRoute(h)' => ProperRoute(h)) /\ (HasKeys(h)' => HasKeys(h))
    <3>1. h # g
      BY <1>2, <2>1, HeldAlone
    <3> QED BY <1>1, <1>3, <1>5, <3>1 DEF ProperRoute, HasKeys
  <2>2. ASSUME NEW l \in Keys, UserRow(l) \in tx[d].held, BelowLimit(l) PROVE BelowLimit(l)'
    <3>1. Owner[l] # Owner[k]
      BY <1>2, <2>2, HeldAlone DEF UserRow
    <3> QED BY <1>6, <1>7, <2>2, <3>1
  <2> QED BY <1>1, <1>8, <2>1, <2>2 DEF Undisturbed
<1>9. GroupsInUseRemain'
  <2>1. ASSUME NEW l \in Keys, Active(l)'
        PROVE  Exists(key'[l]) /\ (group[key'[l]] = "composite" => members[key'[l]] # {})
    BY <1>0, <1>2, <1>3, <2>1 DEF GroupsInUseRemain, CompositesAreFlat, Active
  <2> QED BY <1>0, <1>1, <1>5, <2>1 DEF GroupsInUseRemain, Exists
<1>10. CompositesAreFlat'
  BY <1>0, <1>1 DEF CompositesAreFlat
<1>11. KeyLimit'
  <2>1. ASSUME NEW l \in Keys PROVE Cardinality(Of(Owner[l])') <= MaxActive
    <3>1. CASE Owner[l] # Owner[k]
      BY <1>0, <1>6, <3>1 DEF KeyLimit, Of
    <3>2. CASE Owner[l] = Owner[k]
      <4>1. IsFiniteSet(Of(Owner[k])) /\ k \notin Of(Owner[k])
        BY <1>1, FS_Subset, GroupsAssumption DEF Of, Active
      <4>2. IsFiniteSet(Of(Owner[k]) \cup {k}) /\ Cardinality(Of(Owner[k]) \cup {k}) = Cardinality(Of(Owner[k])) + 1
        BY <4>1, FS_AddElement
      <4>3. Cardinality(Of(Owner[k])') <= Cardinality(Of(Owner[k])) + 1 /\ Cardinality(Of(Owner[k])) \in Nat
            /\ Cardinality(Of(Owner[k])') \in Nat
        BY <1>6, <4>1, <4>2, FS_Subset, FS_CardinalityType
      <4>4. Of(Owner[l])' = Of(Owner[k])'
        BY <3>2 DEF Of, Active
      <4>5. Cardinality(Of(Owner[k])) < MaxActive /\ MaxActive \in Nat
        BY <1>2, <1>7, GroupsAssumption
      <4> QED BY <4>3, <4>4, <4>5
    <3> QED BY <3>1, <3>2
  <2> QED BY <2>1 DEF KeyLimit, Of
<1> QED BY <1>1, <1>4, <1>8, <1>9, <1>10, <1>11, EndStep
(* A step that changes only routes: what it must keep of them.              *)
LEMMA RoutesOnly ==
  ASSUME GroupsInv, group' = group, members' = members, key' = key,
         NEW d \in Connections, tx'[d] = tx[d],
         \A r \in Routes : RouteRow(r) \in tx[d].held /\ Live(r) => route'[r] = route[r],
         \A r \in Routes : route[r] \in RouteRows => route'[r] \in RouteRows,
         \A h \in Groups : Owns(d, h) /\ ProperRoute(h)' => ProperRoute(h)
  PROVE  Undisturbed(d)
<1>1. (\A h : IsMember(h)' <=> IsMember(h)) /\ (\A h : HasKeys(h)' <=> HasKeys(h)) /\ \A k : BelowLimit(k)' <=> BelowLimit(k)
  BY DEF IsMember, HasKeys, BelowLimit, Active
<1> QED BY <1>1 DEF Undisturbed

LEMMA RoutesOnlyKeep ==
  ASSUME GroupsInv, group' = group, members' = members, key' = key,
         \A r \in Routes \ astray' : Live(r)' => group[route'[r].group] = "standard"
  PROVE  GroupsInUseRemain' /\ CompositesAreFlat' /\ KeyLimit'
<1>1. KeyLimit' /\ CompositesAreFlat'
  BY DEF GroupsInv, KeyLimit, CompositesAreFlat, Active
<1> QED BY <1>1 DEF GroupsInv, GroupsInUseRemain, Active, Exists

(* A route appears, or moves, in a group that its transaction has locked.   *)
LEMMA WrittenKeeps ==
  ASSUME GroupsInv, NEW c \in Connections, RouteInserted(c) \/ UpdateRouteCommits(c)
  PROVE  GroupsInv'
<1>0. GroupsTypeOK /\ ConnectionInv(c) /\ GroupsInUseRemain
  BY DEF GroupsInv
<1>1. tx[c] \in RouteCalls /\ tx[c].todo = {} /\ Ends(c)
  BY <1>0, CallFields DEF RouteInserted, UpdateRouteCommits, CanCommit
<1>2. PICK r \in Routes, g \in Groups, w \in RouteRows :
        r = tx[c].route /\ g = tx[c].group /\ w = Written(tx[c]) /\ w.group = g
  <2>1. tx[c].route \in Routes /\ tx[c].group \in Groups /\ tx[c].provider \in Providers
    BY <1>1 DEF RouteCalls
  <2>2. Written(tx[c]) \in RouteRows /\ Written(tx[c]).group = tx[c].group
    BY <2>1 DEF Written, RouteRows
  <2> QED BY <2>1, <2>2
<1>3. /\ route' = [route EXCEPT ![r] = w]
      /\ group' = group /\ members' = members /\ providers' = providers /\ key' = key /\ astray' = astray
  BY <1>2 DEF RouteInserted, UpdateRouteCommits
<1>4. Owns(c, g)
  BY <1>0, <1>1, <1>2 DEF RouteInserted, UpdateRouteCommits, CanCommit, ConnectionInv, RouteChecked, MoveChecked
<1>5. r \notin astray => group[g] = "standard"
  <2>1. CASE RouteInserted(c)
    BY <1>0, <1>1, <1>2, <2>1 DEF RouteInserted, CanCommit, ConnectionInv, RouteChecked
  <2>2. CASE UpdateRouteCommits(c)
    BY <1>0, <1>1, <1>2, <2>2 DEF UpdateRouteCommits, CanCommit, ConnectionInv, MoveChecked, GroupsInUseRemain
  <2> QED BY <2>1, <2>2
<1>6. \A d \in Connections \ {c} : ~Owns(d, g) /\ (RouteRow(r) \in tx[d].held => ~Live(r))
  <2>1. route[r] = NoRoute \/ RouteRow(r) \in tx[c].held
    BY <1>0, <1>2 DEF RouteInserted, UpdateRouteCommits, CanCommit, ConnectionInv, MoveChecked
  <2> QED BY <1>4, <2>1, HeldAlone DEF Live, GroupsInv, ExclusiveRows
<1>7. route'[r] = w /\ \A q \in Routes \ {r} : route'[q] = route[q] /\ (Live(q)' <=> Live(q))
  BY <1>0, <1>2, <1>3 DEF GroupsTypeOK, Live
<1>8. GroupsTypeOK'
  BY <1>0, <1>1, <1>2, <1>3, EndsTyped DEF GroupsTypeOK
<1>9. ASSUME NEW d \in Connections \ {c}, tx'[d] = tx[d] PROVE Undisturbed(d)
  <2>1. ASSUME NEW h \in Groups, Owns(d, h), ProperRoute(h)' PROVE ProperRoute(h)
    BY <1>2, <1>3, <1>6, <1>7, <2>1 DEF ProperRoute
  <2>2. \A q \in Routes : RouteRow(q) \in tx[d].held /\ Live(q) => route'[q] = route[q]
    BY <1>6, <1>7
  <2>3. \A q \in Routes : route[q] \in RouteRows => route'[q] \in RouteRows
    BY <1>2, <1>7
  <2> QED BY <1>3, <1>9, <2>1, <2>2, <2>3, RoutesOnly
<1>10. \A q \in Routes \ astray' : Live(q)' => group[route'[q].group] = "standard"
  BY <1>0, <1>2, <1>3, <1>5, <1>7 DEF GroupsInUseRemain
<1> QED BY <1>1, <1>3, <1>8, <1>9, <1>10, RoutesOnlyKeep, EndStep

\* A route that reappears elsewhere than in the group its transaction has locked is
\* counted as astray.
LEMMA RestoredKeeps ==
  ASSUME GroupsInv, NEW c \in Connections, RouteRestored(c)
  PROVE  GroupsInv'
<1>0. GroupsTypeOK /\ ConnectionInv(c) /\ GroupsInUseRemain
  BY DEF GroupsInv
<1>1. tx[c] \in RouteCalls /\ tx[c].op = "Restore" /\ tx[c].todo = {} /\ Ends(c)
  BY <1>0, CallFields DEF RouteRestored, CanCommit
<1>2. PICK r \in Routes, g \in Groups : r = tx[c].route /\ g = tx[c].group
  BY <1>1 DEF RouteCalls
<1>3. /\ route' = [route EXCEPT ![r].live = TRUE] /\ Free(c, RouteRow(r))
      /\ astray' = IF route[r].group = g THEN astray ELSE astray \cup {r}
      /\ group' = group /\ members' = members /\ providers' = providers /\ key' = key
  BY <1>2 DEF RouteRestored, RouteRow
<1>4. Owns(c, g) /\ group[g] = "standard" /\ route[r] \in RouteRows
  BY <1>0, <1>1, <1>2 DEF ConnectionInv, RouteChecked
<1>5. \A d \in Connections \ {c} : ~Owns(d, g) /\ RouteRow(r) \notin tx[d].held
  BY <1>3, <1>4, HeldAlone DEF Free
<1>6. route'[r] \in RouteRows /\ route'[r].group = route[r].group /\ \A q \in Routes \ {r} : route'[q] = route[q]
  <2>1. [route[r] EXCEPT !.live = TRUE] \in RouteRows /\ [route[r] EXCEPT !.live = TRUE].group = route[r].group
    BY <1>4 DEF RouteRows
  <2>2. route \in [Routes -> RouteRows \cup {NoRoute}]
    BY <1>0 DEF GroupsTypeOK
  <2>3. route' = [route EXCEPT ![r] = [route[r] EXCEPT !.live = TRUE]]
    BY <1>3
  <2> QED BY <2>1, <2>2, <2>3
<1>7. /\ astray \subseteq astray' /\ astray' \subseteq Routes
      /\ r \notin astray' => r \notin astray /\ route[r].group = g
  BY <1>0, <1>3 DEF GroupsTypeOK
<1>8. GroupsTypeOK'
  <2>1. route' \in [Routes -> RouteRows \cup {NoRoute}]
    BY <1>0, <1>3, <1>6 DEF GroupsTypeOK
  <2> QED BY <1>0, <1>1, <1>3, <1>7, <2>1, EndsTyped DEF GroupsTypeOK
<1>9. \A q \in Routes \ {r} : Live(q)' <=> Live(q)
  BY <1>6 DEF Live
<1>10. ASSUME NEW d \in Connections \ {c}, tx'[d] = tx[d] PROVE Undisturbed(d)
  <2>1. ASSUME NEW h \in Groups, Owns(d, h), ProperRoute(h)' PROVE ProperRoute(h)
    BY <1>5, <1>6, <1>7, <1>9, <2>1 DEF ProperRoute
  <2>2. \A q \in Routes : RouteRow(q) \in tx[d].held /\ Live(q) => route'[q] = route[q]
    BY <1>5, <1>6
  <2>3. \A q \in Routes : route[q] \in RouteRows => route'[q] \in RouteRows
    BY <1>6
  <2> QED BY <1>3, <1>10, <2>1, <2>2, <2>3, RoutesOnly
<1>11. \A q \in Routes \ astray' : Live(q)' => group[route'[q].group] = "standard"
  BY <1>0, <1>4, <1>6, <1>7, <1>9 DEF GroupsInUseRemain
<1> QED BY <1>1, <1>3, <1>8, <1>10, <1>11, RoutesOnlyKeep, EndStep

(* Routes that only become deleted, none of them locked by another.         *)
LEMMA FewerRoutes ==
  ASSUME GroupsInv, group' = group, members' = members, key' = key, astray' = astray,
         \A r \in Routes : route'[r] = route[r] \/ (~Live(r)' /\ Live(r) /\ route'[r] \in RouteRows)
  PROVE  /\ GroupsInUseRemain' /\ CompositesAreFlat' /\ KeyLimit'
         /\ \A d \in Connections :
              (tx'[d] = tx[d] /\ \A r \in Routes : RouteRow(r) \in tx[d].held => route'[r] = route[r]) => Undisturbed(d)
<1>1. \A r \in Routes : Live(r)' => Live(r) /\ route'[r] = route[r]
  BY DEF Live
<1>2. \A h : ProperRoute(h)' => ProperRoute(h)
  BY <1>1 DEF ProperRoute
<1>3. \A r \in Routes \ astray' : Live(r)' => group[route'[r].group] = "standard"
  BY <1>1 DEF GroupsInv, GroupsInUseRemain
<1> QED BY <1>2, <1>3, RoutesOnly, RoutesOnlyKeep

LEMMA ProviderCommitKeeps ==
  ASSUME GroupsInv, NEW c \in Connections, DeleteProviderCommits(c)
  PROVE  GroupsInv'
<1> DEFINE gone == RoutesOf(tx[c].provider)
<1>0. GroupsTypeOK
  BY DEF GroupsInv
<1>1. /\ Ends(c) /\ \A r \in gone : Free(c, RouteRow(r))
      /\ route' = [r \in Routes |-> IF r \in gone THEN [route[r] EXCEPT !.live = FALSE] ELSE route[r]]
      /\ providers' \subseteq providers
      /\ group' = group /\ members' = members /\ key' = key /\ astray' = astray
  BY DEF DeleteProviderCommits, RouteRow
<1>2. \A r \in gone : Live(r)
  BY DEF RoutesOf
<1> HIDE DEF gone
<1>3. ASSUME NEW r \in Routes
      PROVE  /\ r \in gone => Live(r) /\ ~Live(r)' /\ route'[r] \in RouteRows
             /\ r \notin gone => route'[r] = route[r]
  <2>1. CASE r \in gone
    <3>1. route[r] \in RouteRows /\ Live(r)
      BY <1>0, <1>2, <2>1 DEF GroupsTypeOK, Live
    <3>2. route'[r] = [route[r] EXCEPT !.live = FALSE]
      BY <1>1, <2>1
    <3>3. route'[r] \in RouteRows /\ route'[r].live = FALSE
      BY <3>1, <3>2 DEF RouteRows
    <3> QED BY <2>1, <3>1, <3>3 DEF Live
  <2> QED BY <1>1, <2>1
<1>4. GroupsTypeOK'
  <2>1. route' \in [Routes -> RouteRows \cup {NoRoute}]
    BY <1>0, <1>1, <1>3 DEF GroupsTypeOK
  <2> QED BY <1>0, <1>1, <2>1, EndsTyped DEF GroupsTypeOK
<1>5. \A d \in Connections \ {c} : \A r \in Routes : RouteRow(r) \in tx[d].held => route'[r] = route[r]
  BY <1>1, <1>3 DEF Free
<1>6. \A r \in Routes : route'[r] = route[r] \/ (~Live(r)' /\ Live(r) /\ route'[r] \in RouteRows)
  BY <1>3
<1>7. GroupsInUseRemain' /\ CompositesAreFlat' /\ KeyLimit'
  BY <1>1, <1>6, FewerRoutes
<1>8. \A d \in Connections \ {c} : tx'[d] = tx[d] => Undisturbed(d)
  BY <1>1, <1>5, <1>6, FewerRoutes
<1> QED BY <1>1, <1>4, <1>7, <1>8, EndStep

(* The steps that run no transaction.                                       *)
LEMMA NoConnection ==
  ASSUME GroupsInv, tx' = tx, GroupsTypeOK', \A d \in Connections : Undisturbed(d),
         GroupsInUseRemain', CompositesAreFlat', KeyLimit'
  PROVE  GroupsInv'
<1>1. \A d \in Connections : ConnectionInv(d)'
  BY OthersKeep DEF GroupsInv
<1>2. ExclusiveRows'
  BY DEF GroupsInv, ExclusiveRows
<1> QED BY <1>1, <1>2 DEF GroupsInv

LEMMA DeleteRouteKeeps ==
  ASSUME GroupsInv, DeleteRoute
  PROVE  GroupsInv'
<1>0. GroupsTypeOK
  BY DEF GroupsInv
<1>1. PICK r \in Routes :
        /\ Live(r) /\ \A c \in Connections : RouteRow(r) \notin tx[c].held
        /\ route' = [route EXCEPT ![r].live = FALSE]
        /\ group' = group /\ members' = members /\ providers' = providers /\ key' = key /\ astray' = astray /\ tx' = tx
  BY DEF DeleteRoute, RouteRow
<1>2. route'[r] \in RouteRows /\ ~Live(r)' /\ \A q \in Routes \ {r} : route'[q] = route[q]
  <2>1. route \in [Routes -> RouteRows \cup {NoRoute}] /\ route[r] \in RouteRows
    BY <1>0, <1>1 DEF GroupsTypeOK, Live
  <2>2. [route[r] EXCEPT !.live = FALSE] \in RouteRows /\ [route[r] EXCEPT !.live = FALSE].live = FALSE
    BY <2>1 DEF RouteRows
  <2>3. route' = [route EXCEPT ![r] = [route[r] EXCEPT !.live = FALSE]]
    BY <1>1
  <2>4. route'[r] = [route[r] EXCEPT !.live = FALSE] /\ \A q \in Routes \ {r} : route'[q] = route[q]
    BY <2>1, <2>3
  <2> QED BY <2>2, <2>4 DEF Live
<1>3. GroupsTypeOK'
  BY <1>0, <1>1, <1>2 DEF GroupsTypeOK
<1>4. \A q \in Routes : route'[q] = route[q] \/ (~Live(q)' /\ Live(q) /\ route'[q] \in RouteRows)
  BY <1>1, <1>2
<1>5. GroupsInUseRemain' /\ CompositesAreFlat' /\ KeyLimit'
  BY <1>1, <1>4, FewerRoutes
<1>6. \A d \in Connections : Undisturbed(d)
  BY <1>1, <1>2, <1>4, FewerRoutes
<1> QED BY <1>1, <1>3, <1>5, <1>6, NoConnection

LEMMA RevokeKeyKeeps ==
  ASSUME GroupsInv, RevokeKey
  PROVE  GroupsInv'
<1>0. GroupsTypeOK /\ GroupsInUseRemain /\ CompositesAreFlat /\ KeyLimit
  BY DEF GroupsInv
<1> DEFINE Of(u) == {l \in Keys : Owner[l] = u /\ Active(l)}
<1>1. PICK k \in Keys :
        /\ key' = [key EXCEPT ![k] = Revoked]
        /\ group' = group /\ members' = members /\ route' = route /\ providers' = providers /\ astray' = astray /\ tx' = tx
  BY DEF RevokeKey
<1>2. key'[k] = Revoked /\ \A l \in Keys \ {k} : key'[l] = key[l]
  BY <1>0, <1>1 DEF GroupsTypeOK
<1>3. Revoked \notin Groups /\ IsFiniteSet(Keys) /\ MaxActive \in Nat
  BY GroupsAssumption
<1>4. GroupsTypeOK'
  BY <1>0, <1>1 DEF GroupsTypeOK
<1>5. \A l \in Keys : Active(l)' => Active(l) /\ key'[l] = key[l]
  BY <1>2, <1>3 DEF Active
<1>6. \A u : Of(u)' \subseteq Of(u)
  BY <1>2, <1>3 DEF Active
<1>7. \A u : Cardinality(Of(u)') <= Cardinality(Of(u)) /\ Cardinality(Of(u)) \in Nat /\ Cardinality(Of(u)') \in Nat
  <2>1. \A u : IsFiniteSet(Of(u))
    BY <1>3, FS_Subset
  <2> QED BY <1>6, <2>1, FS_Subset, FS_CardinalityType
<1>8. \A l : (BelowLimit(l) <=> Cardinality(Of(Owner[l])) < MaxActive) /\ (BelowLimit(l)' <=> Cardinality(Of(Owner[l])') < MaxActive)
  BY DEF BelowLimit
<1>9. KeyLimit'
  <2>1. ASSUME NEW l \in Keys PROVE Cardinality(Of(Owner[l])') <= MaxActive
    <3>1. Cardinality(Of(Owner[l])) <= MaxActive
      BY <1>0 DEF KeyLimit
    <3> HIDE DEF Of
    <3> QED BY <1>3, <1>7, <3>1
  <2> QED BY <2>1 DEF KeyLimit
<1> HIDE DEF Of
<1>10. \A l : BelowLimit(l) => BelowLimit(l)'
  BY <1>3, <1>7, <1>8
<1>11. GroupsInUseRemain' /\ CompositesAreFlat'
  BY <1>0, <1>1, <1>5 DEF GroupsInUseRemain, CompositesAreFlat, Exists, Live
<1>12. ASSUME NEW d \in Connections PROVE Undisturbed(d)
  <2>1. \A h \in Groups :
          (HasKeys(h)' => HasKeys(h)) /\ (IsMember(h)' <=> IsMember(h)) /\ (ProperRoute(h)' <=> ProperRoute(h))
    <3>1. ASSUME NEW h, HasKeys(h)', h \in Groups PROVE HasKeys(h)
      BY <1>2, <1>3, <3>1 DEF HasKeys
    <3> QED BY <1>1, <3>1 DEF IsMember, ProperRoute, Live
  <2> QED BY <1>1, <1>10, <2>1 DEF Undisturbed
<1> QED BY <1>1, <1>4, <1>9, <1>11, <1>12, NoConnection

(* The default group exists from the start, and nothing is in use.          *)
LEMMA GroupsStart ==
  ASSUME GroupsInit
  PROVE  GroupsInv
<1>0. NoKey \notin Groups /\ MaxActive \in Nat
  BY GroupsAssumption
<1>1. /\ group \in [Groups -> {"none", "standard"}] /\ members = [g \in Groups |-> {}]
      /\ route = [r \in Routes |-> NoRoute] /\ providers = Providers /\ key = [k \in Keys |-> NoKey] /\ astray = {}
      /\ tx = [c \in Connections |-> Idle]
  BY DEF GroupsInit
<1>2. GroupsTypeOK
  BY <1>1 DEF GroupsTypeOK
<1>3. ASSUME NEW c \in Connections PROVE ConnectionInv(c) /\ tx[c].held = {}
  <2>1. tx[c].op = "idle" /\ tx[c].held = {}
    BY <1>1 DEF Idle
  <2> QED BY <2>1 DEF ConnectionInv, NothingToLock, OwnsLive, Owns, MembersChecked, UpdateChecked, DeletionChecked,
                      KeyChecked, RouteChecked, MoveChecked, GroupOps
<1>4. ExclusiveRows
  BY <1>3 DEF ExclusiveRows
<1>5. GroupsInUseRemain /\ CompositesAreFlat
  BY <1>0, <1>1 DEF GroupsInUseRemain, CompositesAreFlat, Active, Live
<1>6. KeyLimit
  <2>1. \A k \in Keys : {l \in Keys : Owner[l] = Owner[k] /\ Active(l)} = {}
    BY <1>0, <1>1 DEF Active
  <2> QED BY <1>0, <2>1, FS_EmptySet DEF KeyLimit
<1> QED BY <1>2, <1>3, <1>4, <1>5, <1>6 DEF GroupsInv

LEMMA GroupsStep ==
  ASSUME GroupsInv, [GroupsNext]_groupsVars
  PROVE  GroupsInv'
<1>1. CASE GroupsNext
  <2>1. CASE RevokeKey \/ DeleteRoute
    BY <2>1, RevokeKeyKeeps, DeleteRouteKeeps
  <2>2. ASSUME NEW c \in Connections,
               GroupStep(c) \/ KeyStep(c) \/ RouteStep(c) \/ ProviderStep(c) \/ LocksGroup(c) \/ Rollback(c)
        PROVE  GroupsInv'
    <3>1. CASE GroupStep(c)
      BY <3>1, GroupsBegin, GroupCommitKeeps, DeletionCommitKeeps DEF GroupStep
    <3>2. CASE KeyStep(c)
      BY <3>2, GroupsBegin, KeyCommitKeeps DEF KeyStep
    <3>3. CASE RouteStep(c)
      BY <3>3, GroupsBegin, WrittenKeeps, RestoredKeeps DEF RouteStep
    <3>4. CASE ProviderStep(c)
      BY <3>4, GroupsBegin, ProviderCommitKeeps DEF ProviderStep
    <3> QED BY <2>2, <3>1, <3>2, <3>3, <3>4, LockKeeps, RollbackKeeps
  <2> QED BY <1>1, <2>1, <2>2 DEF GroupsNext
<1>2. CASE UNCHANGED groupsVars
  <2>1. UNCHANGED tables /\ tx' = tx
    BY <1>2 DEF groupsVars
  <2>2. GroupsTypeOK'
    BY <2>1 DEF GroupsInv, GroupsTypeOK, tables
  <2> QED BY <2>1, <2>2, TablesStay, NoConnection
<1> QED BY <1>1, <1>2

-----------------------------------------------------------------------------
\* However the transactions of the console interleave, each of them keeps what it
\* has checked under its locks, and the tables stay well formed.
THEOREM GroupsInvariant == GroupsSpec => []GroupsInv
<1>1. GroupsInit => GroupsInv
  BY GroupsStart
<1>2. GroupsInv /\ [GroupsNext]_groupsVars => GroupsInv'
  BY GroupsStep
<1> QED BY <1>1, <1>2, PTL DEF GroupsSpec

\* The rows of groups, routes, keys and transactions keep their types
\* (internal/billinggroup, modelroute, apikey, provider).
THEOREM GroupsTypeCorrect == GroupsSpec => []GroupsTypeOK
<1>1. GroupsInv => GroupsTypeOK
  BY DEF GroupsInv
<1> QED BY <1>1, GroupsInvariant, PTL

\* The group of an active key exists and is usable, that of a route is standard:
\* no deletion and no change of kind slips in between the check of a creation, a
\* move or a link and its commit.  Routes that Link brings astray are excepted.
THEOREM InUseTheorem == GroupsSpec => []GroupsInUseRemain
<1>1. GroupsInv => GroupsInUseRemain
  BY DEF GroupsInv
<1> QED BY <1>1, GroupsInvariant, PTL

\* A composite group is made of standard groups that exist, one level deep, however
\* the transactions on groups interleave.
THEOREM FlatTheorem == GroupsSpec => []CompositesAreFlat
<1>1. GroupsInv => CompositesAreFlat
  BY DEF GroupsInv
<1> QED BY <1>1, GroupsInvariant, PTL

\* A user never has more active keys than allowed, however many are created at once.
THEOREM KeyLimitTheorem == GroupsSpec => []KeyLimit
<1>1. GroupsInv => KeyLimit
  BY DEF GroupsInv
<1> QED BY <1>1, GroupsInvariant, PTL
=============================================================================
