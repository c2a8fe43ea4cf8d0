------------------------------ MODULE Locking -------------------------------
(***************************************************************************)
(* Why a method of a store can be one action in Billing and TopUp: the      *)
(* MySQL transactions of internal/billing and internal/payment, with the    *)
(* rows they lock (SELECT ... FOR UPDATE) in the order they lock them, the  *)
(* rows they read without a lock, and the rows they write.  A method takes  *)
(* its locks one by one, reads the rest and commits; what it writes is      *)
(* computed from what it has read (balances are written as absolute         *)
(* values), so a row that changes in between would be a lost update.        *)
(*                                                                          *)
(* Only which rows are read and written is modelled, not what is in them.   *)
(* Locks are held to the end of the transaction, writes are visible from    *)
(* the commit on, and an insert under a unique key that somebody else has   *)
(* used in the meantime fails.  A row is a pair of a kind and a key; the    *)
(* usage row of a request is two, its place under the unique request_id     *)
(* ("slot") and the fact that there is a successful one ("success").        *)
(***************************************************************************)
EXTENDS Sequences, FiniteSets, Integers

CONSTANTS
  Workers,   \* database connections that run transactions
  Users, Requests, Orders,
  RequestUser,     \* the user of a request
  IdemKey,   \* its idempotency key
  Payer,     \* the user of a top-up order
  Referrer,  \* the user somebody was invited by, or nobody
  Nobody,
  NoTransaction       \* what a worker runs between transactions

\* A key is of a user.  An account names its inviter when it is created, and never
\* another one, so invitations have no cycles.
ASSUME LockingAssumption ==
  /\ RequestUser \in [Requests -> Users] /\ DOMAIN IdemKey = Requests
  /\ \A r, s \in Requests : IdemKey[r] = IdemKey[s] => RequestUser[r] = RequestUser[s]
  /\ Payer \in [Orders -> Users] /\ IsFiniteSet(Users)
  /\ Referrer \in [Users -> Users \cup {Nobody}] /\ Nobody \notin Users
  /\ \E depth \in [Users -> 0..Cardinality(Users)] :
       \A u \in Users : Referrer[u] # Nobody => depth[Referrer[u]] < depth[u]

VARIABLES
  call,   \* the method a worker runs, or NoTransaction
  locks,  \* how many of its rows it has locked
  read,   \* whether it has read the others
  stale   \* rows it has read that have been written since

lockingVars == <<call, locks, read, stale>>

-----------------------------------------------------------------------------
(* The methods: what they lock, read, insert under a unique key, and write. *)

Wallet(u) == <<"wallet", u>>
Operation(r) == <<"operation", r>>
Key(r) == <<"key", IdemKey[r]>>
Entries(r) == <<"entries", r>>
Adjustments(u) == <<"adjustments", u>>
Slot(r) == <<"slot", r>>
Success(r) == <<"success", r>>
Order(o) == <<"order", o>>

Tx(m, on, l, r, u, w) == [method |-> m, on |-> on, locks |-> l, reads |-> r, unique |-> u, writes |-> w]

\* A variant that reads the balance without a lock.
StartUnlocked(r) ==
  Tx("StartOperation", r, <<Operation(r)>>, {Wallet(RequestUser[r]), Key(r)}, {Operation(r)},
     {Wallet(RequestUser[r]), Operation(r), Key(r), Entries(r)})
\* Its insert locks the new operation, after whoever has locked its absence.
StartOperation(r) ==
  Tx("StartOperation", r, <<Wallet(RequestUser[r]), Operation(r)>>, {Key(r)}, {},
     {Wallet(RequestUser[r]), Operation(r), Key(r), Entries(r)})

MarkOperation(r) == Tx("MarkOperation", r, <<Operation(r)>>, {Success(r)}, {}, {Operation(r)})
CompleteOperation(r) == Tx("CompleteOperation", r, <<Operation(r)>>, {Success(r)}, {}, {Operation(r)})

\* A variant that does not lock the operation.
FinalizeUnlocked(r) ==
  Tx("Finalize", r, <<Wallet(RequestUser[r])>>, {Operation(r), Entries(r)}, {Slot(r)},
     {Wallet(RequestUser[r]), Slot(r), Success(r), Entries(r)})
Finalize(r) ==
  Tx("Finalize", r, <<Wallet(RequestUser[r]), Operation(r)>>, {Entries(r)}, {Slot(r)},
     {Wallet(RequestUser[r]), Slot(r), Success(r), Entries(r)})

\* A variant that locks the operation it has looked up before the wallet.
FailOperationFirst(r) ==
  Tx("FailOperation", r, <<Operation(r), Wallet(RequestUser[r])>>, {Success(r), Entries(r)}, {},
     {Wallet(RequestUser[r]), Operation(r), Entries(r)})
FailOperation(r) ==
  Tx("FailOperation", r, <<Wallet(RequestUser[r]), Operation(r)>>, {Success(r), Entries(r)}, {},
     {Wallet(RequestUser[r]), Operation(r), Entries(r)})

RecordFailure(r) == Tx("RecordFailure", r, <<>>, {}, {Slot(r)}, {Slot(r)})

\* Adjust and CompensateLegacyUsage: the entry they look for is one of the user's.
Adjust(u) == Tx("Adjust", u, <<Wallet(u)>>, {Adjustments(u)}, {}, {Wallet(u), Adjustments(u)})

\* payment's Complete.  What it reads of the payer and of the settings between
\* the second and the third lock is not listed: the inviter never changes, and
\* any rate that was set while it runs will do.
Complete(o) ==
  LET rows == IF Referrer[Payer[o]] = Nobody THEN <<Order(o), Wallet(Payer[o])>>
              ELSE <<Order(o), Wallet(Payer[o]), Wallet(Referrer[Payer[o]])>>
  IN  Tx("Complete", o, rows, {}, {}, {rows[i] : i \in DOMAIN rows})

OfRequest(r) == {StartOperation(r), MarkOperation(r), CompleteOperation(r), Finalize(r), FailOperation(r), RecordFailure(r)}

Transactions ==
  (UNION {OfRequest(r) : r \in Requests})
    \cup {Adjust(u) : u \in Users} \cup {Complete(o) : o \in Orders}

-----------------------------------------------------------------------------
Running(w) == call[w] # NoTransaction
Locked(w) == IF Running(w) THEN {call[w].locks[i] : i \in 1..locks[w]} ELSE {}
AllLocked(w) == Running(w) /\ locks[w] = Len(call[w].locks)
Seen(w) == Locked(w) \cup (IF read[w] THEN call[w].reads \cup call[w].unique ELSE {})

LockingTypeOK ==
  /\ call \in [Workers -> Transactions \cup {NoTransaction}]
  /\ locks \in [Workers -> Nat] /\ \A w \in Workers : Running(w) => locks[w] <= Len(call[w].locks)
  /\ read \in [Workers -> BOOLEAN] /\ DOMAIN stale = Workers
  /\ \A w \in Workers : (read[w] => AllLocked(w)) /\ stale[w] \subseteq Seen(w)

LockingInit ==
  /\ call = [w \in Workers |-> NoTransaction]
  /\ locks = [w \in Workers |-> 0]
  /\ read = [w \in Workers |-> FALSE]
  /\ stale = [w \in Workers |-> {}]

Begin(w, c) ==
  /\ ~Running(w)
  /\ call' = [call EXCEPT ![w] = c]
  /\ UNCHANGED <<locks, read, stale>>

LockRow(w) ==
  /\ Running(w) /\ ~AllLocked(w)
  /\ \A v \in Workers : call[w].locks[locks[w] + 1] \notin Locked(v)
  /\ locks' = [locks EXCEPT ![w] = @ + 1]
  /\ UNCHANGED <<call, read, stale>>

\* The first read without a lock makes the snapshot all of them see.
ReadRest(w) ==
  /\ AllLocked(w) /\ ~read[w]
  /\ read' = [read EXCEPT ![w] = TRUE]
  /\ UNCHANGED <<call, locks, stale>>

Releases(w) ==
  /\ call' = [call EXCEPT ![w] = NoTransaction]
  /\ locks' = [locks EXCEPT ![w] = 0]
  /\ read' = [read EXCEPT ![w] = FALSE]

MayCommit(w) == read[w] /\ call[w].unique \cap stale[w] = {}

Commit(w) ==
  /\ MayCommit(w)
  /\ stale' = [v \in Workers |-> IF v = w THEN {} ELSE stale[v] \cup (Seen(v) \cap call[w].writes)]
  /\ Releases(w)

\* An error, a refusal of the method, a lost connection.
RollsBack(w) ==
  /\ Running(w)
  /\ stale' = [stale EXCEPT ![w] = {}]
  /\ Releases(w)

LockingNext == \E w \in Workers :
  \/ \E c \in Transactions : Begin(w, c)
  \/ LockRow(w) \/ ReadRest(w) \/ Commit(w) \/ RollsBack(w)

LockingSpec == LockingInit /\ [][LockingNext]_lockingVars
-----------------------------------------------------------------------------
(* Properties.                                                              *)

\* A transaction that can commit has decided on rows as they are at the commit:
\* its effect is the one the method has as a single step.
DecisionsAreCurrent == \A w \in Workers : MayCommit(w) => stale[w] = {}

WaitsFor(w, v) == Running(w) /\ ~AllLocked(w) /\ call[w].locks[locks[w] + 1] \in Locked(v)

\* Transactions never wait for each other's locks in a circle, however many they
\* are: of any that wait, one waits for none of the others.  Wallets come before
\* operations, orders before wallets, and the payer's wallet before the inviter's.
NoCircularWait ==
  \A W \in (SUBSET Workers) \ {{}} : \E w \in W : \A v \in W : ~WaitsFor(w, v)
=============================================================================
