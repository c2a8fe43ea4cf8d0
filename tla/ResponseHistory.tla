-------------------------- MODULE ResponseHistory ---------------------------
(***************************************************************************)
(* The conversations of the responses endpoint that the gateway keeps in    *)
(* memory, responseHistoryStore: an upstream of another protocol knows no   *)
(* previous_response_id, so the turns before it are put in front of the     *)
(* input.  Each method runs under one mutex; between the expansion of a     *)
(* request and the storing of its answer other requests come and go, turns  *)
(* run out, and the oldest make room.                                       *)
(*                                                                          *)
(* A turn is told apart by the identifier of its answer, which the upstream *)
(* gives once under one API key; two keys may well see the same identifier. *)
(* Identifiers are only compared: here the turns of a key are numbered.     *)
(***************************************************************************)
EXTENDS Naturals, FiniteSetsExt, SequencesExt

CONSTANTS
  ApiKeys,
  Sizes,       \* bytes of one turn
  NoResponse,        \* no previous_response_id
  Unavailable, \* what expand returns instead of the turns
  MaxEntries, MaxBytes, MaxChain, Retention, \* the limits of the code, scaled down
  MaxTurns, MaxInFlight, MaxNow \* bounds: turns of a key, requests, time

ASSUME ResponseHistoryAssumption ==
  /\ MaxTurns \in Nat /\ NoResponse \notin 1..MaxTurns
  /\ MaxEntries \in Nat \ {0} /\ MaxChain \in Nat \ {0} /\ Retention \in Nat \ {0} /\ MaxBytes \in Nat
  /\ \A n \in Sizes : n \in Nat /\ n <= MaxBytes

VARIABLES
  entries,  \* responseHistoryStore.entries
  order,    \* insertionOrder
  retained, \* retainedBytes
  now,      \* the clock
  inFlight, \* requests between expand and remember
  told      \* every turn so far with those it follows, as its client knows them

historyVars == <<entries, order, retained, now, inFlight, told>>

HistoryInit ==
  /\ entries = [k \in {} |-> 0] /\ order = <<>> /\ retained = 0
  /\ now = 0 /\ inFlight = {} /\ told = [k \in {} |-> <<>>]

-----------------------------------------------------------------------------
Store(e, o, n) == [entries |-> e, order |-> o, retained |-> n]
With(f, k, x) == [l \in DOMAIN f \cup {k} |-> IF l = k THEN x ELSE f[l]]

Current == Store(entries, order, retained)

\* A variant that forgets to take a removed turn out of the order.
RemoveEntry(s, k) ==
  Store(Restrict(s.entries, DOMAIN s.entries \ {k}), s.order,
        IF s.retained < s.entries[k].bytes THEN 0 ELSE s.retained - s.entries[k].bytes)

RemoveTurn(s, k) ==
  Store(Restrict(s.entries, DOMAIN s.entries \ {k}), RemoveFirst(s.order, k),
        IF s.retained < s.entries[k].bytes THEN 0 ELSE s.retained - s.entries[k].bytes)

\* A place in the order whose entry is gone would only be taken out.
Removed(s, k) ==
  IF k \in DOMAIN s.entries THEN RemoveTurn(s, k) ELSE Store(s.entries, RemoveFirst(s.order, k), s.retained)

Expired(s, k, at) == k \in DOMAIN s.entries => s.entries[k].expires <= at
Pruned(s, k, at) == IF Expired(s, k, at) THEN Removed(s, k) ELSE s

PruneExpired(s, at) == FoldLeft(LAMBDA t, k : Pruned(t, k, at), s, s.order)

\* The oldest turns go until there is room for one of n bytes.
Crowded(s, n) == Cardinality(DOMAIN s.entries) >= MaxEntries \/ s.retained + n > MaxBytes

Evicted(s, k, n) == IF Crowded(s, n) THEN Removed(s, k) ELSE s

MakeRoom(s, n) == FoldLeft(LAMBDA t, k : Evicted(t, k, n), s, s.order)

Keep(s) == entries' = s.entries /\ order' = s.order /\ retained' = s.retained

\* A turn further back: the next one to look for comes first.
Preceded(s, key, known) ==
  LET k == <<key, Head(known)>>
  IN  IF Head(known) = NoResponse \/ k \notin DOMAIN s.entries THEN known ELSE <<s.entries[k].previous>> \o known

\* A variant that sends the turns it still has.
ChainAsFar(s, key, id) ==
  LET Back[n \in 0..MaxChain] == IF n = 0 THEN <<id>> ELSE Preceded(s, key, Back[n - 1])
  IN  Tail(Back[MaxChain])

\* The turns that lead to id, the oldest first, as expand follows them.
Chain(s, key, id) ==
  LET Back[n \in 0..MaxChain] == IF n = 0 THEN <<id>> ELSE Preceded(s, key, Back[n - 1])
      turns == Back[MaxChain]
  IN  IF Head(turns) = NoResponse THEN Tail(turns) ELSE Unavailable

-----------------------------------------------------------------------------
\* A request names the turn it follows.  What it gets is what an upstream of
\* another protocol is sent in front of the new input.  expand does nothing when
\* there is no such turn.
Expand(key, id) ==
  /\ Cardinality(inFlight) < MaxInFlight
  /\ id # NoResponse => <<key, id>> \in DOMAIN told
  /\ LET s == IF id = NoResponse THEN Current ELSE PruneExpired(Current, now)
         got == IF id = NoResponse THEN <<>> ELSE Chain(s, key, id)
     IN  Keep(s) /\ inFlight' = inFlight \cup {[key |-> key, previous |-> id, got |-> got]}
  /\ UNCHANGED <<now, told>>

NextId(key) == 1 + Quantify(DOMAIN told, LAMBDA k : k[1] = key)

\* The answer.  A request whose turns were unavailable is still answered when the
\* upstream speaks Responses and keeps them itself; its client goes on from there.
RememberTurn(req, n) ==
  /\ req \in inFlight /\ inFlight' = inFlight \ {req}
  /\ NextId(req.key) <= MaxTurns
  /\ LET id == NextId(req.key)
         k == <<req.key, id>>
         s == PruneExpired(Current, now)
         t == MakeRoom(IF k \in DOMAIN s.entries THEN RemoveTurn(s, k) ELSE s, n)
         turn == [previous |-> req.previous, bytes |-> n, expires |-> now + Retention]
     IN  /\ told' = With(told, k, Append(IF req.previous = NoResponse THEN <<>> ELSE told[<<req.key, req.previous>>], id))
         /\ Keep(Store(With(t.entries, k, turn), Append(t.order, k), t.retained + n))
  /\ UNCHANGED now

\* An answer that is not completed, or too large for the store.
NotRemembered(req) ==
  /\ req \in inFlight /\ inFlight' = inFlight \ {req}
  /\ UNCHANGED <<entries, order, retained, now, told>>

TimeGoesBy == now < MaxNow /\ now' = now + 1 /\ UNCHANGED <<entries, order, retained, inFlight, told>>

HistoryNext ==
  \/ \E key \in ApiKeys, id \in 1..MaxTurns \cup {NoResponse} : Expand(key, id)
  \/ \E req \in inFlight : NotRemembered(req) \/ \E n \in Sizes : RememberTurn(req, n)
  \/ TimeGoesBy

HistorySpec == HistoryInit /\ [][HistoryNext]_historyVars

-----------------------------------------------------------------------------
(* The upstream is sent the whole conversation as the client knows it, or   *)
(* the request is refused: never a part of it, and never another key's.     *)
ExpandedIsWhole ==
  \A req \in inFlight :
    req.got # Unavailable => req.got = IF req.previous = NoResponse THEN <<>> ELSE told[<<req.key, req.previous>>]

Bytes(e) == [k \in DOMAIN e |-> e[k].bytes]

(* The store stays within its limits, and its count of bytes, its order and *)
(* its entries agree, so that it can always make room.                      *)
HistoryIsBounded ==
  /\ Cardinality(DOMAIN entries) <= MaxEntries /\ retained <= MaxBytes
  /\ retained = MapThenSumSet(LAMBDA k : Bytes(entries)[k], DOMAIN entries)
  /\ ToSet(order) = DOMAIN entries /\ IsInjective(order)
=============================================================================
