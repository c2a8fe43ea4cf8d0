--------------------------- MODULE SnapshotProofs ---------------------------
(* Proofs about PriceCache and MultiplierCache, the two snapshots that a     *)
(* process keeps in memory beside the database.                             *)
EXTENDS PriceCache, MultiplierCache, TLAPS

(***************************************************************************)
(* Prices, for any number of plans and requests: at every moment at most    *)
(* one plan is in force, none is missing after the first publication, and   *)
(* the snapshot in the cache is the one of the database as long as no       *)
(* publication fails after its commit.                                      *)
(***************************************************************************)
IsPublished(p) == plan[p].status = "published"

(* The intervals are disjoint, and together they reach from now to the end. *)
Timeline ==
  /\ plan \in [Plans -> Rows] /\ clock \in Times
  /\ publisher \in Publishers
  /\ publisher.stage = "writing" => publisher.at <= clock
  /\ \A p, q \in Plans, t \in Times :
       IsPublished(p) /\ IsPublished(q) /\ Covers(plan[p], t) /\ Covers(plan[q], t) => p = q
  /\ (\E p \in Plans : IsPublished(p)) =>
       \A t \in Times : clock <= t => \E p \in Plans : IsPublished(p) /\ Covers(plan[p], t)

\* The clock is bounded by a number.
LEMMA MaxTimeIsNat == MaxTime \in Nat
BY PriceAssumption

\* The interval of a plan is one of numbers.
LEMMA RowFields ==
  ASSUME NEW row \in Rows
  PROVE  row.from \in Nat /\ row.to \in Nat /\ row.from \in Times /\ row.to \in Times \cup {Forever}
BY MaxTimeIsNat DEF Rows, Times, Forever

\* The publisher at rest, after a commit and when it begins.
LEMMA PublisherRows ==
  /\ Idle \in Publishers /\ Idle.stage = "idle" /\ Committed \in Publishers /\ Committed.stage = "committed"
  /\ Misreported \in Publishers /\ Misreported.stage = "misreported"
  /\ \A m \in {"Publish", "Republish"}, p \in Plans, at \in Times :
       LET begun == [stage |-> "writing", method |-> m, plan |-> p, at |-> at] IN
       begun \in Publishers /\ begun.at = at
BY DEF Idle, Committed, Misreported, Publishers

\* What becomes of another plan: it does not cover a moment from `at' on.
LEMMA SupersededRow ==
  ASSUME NEW row \in Rows, NEW at \in Times
  PROVE  /\ Superseded(row, at) \in Rows
         /\ Superseded(row, at).status = "published" => row.status = "published"
         /\ Superseded(row, at).status = "published" =>
              \A t \in Times : Covers(Superseded(row, at), t) => Covers(row, t) /\ t < at
BY MaxTimeIsNat DEF Superseded, Covers, Rows, Times, Forever

\* The plan that is published covers every moment from `at' on.
LEMMA OpenedRow ==
  ASSUME NEW row \in Rows, NEW at \in Times, row.from <= at, row.to = Forever
  PROVE  \A t \in Times : at <= t => Covers(row, t)
BY MaxTimeIsNat DEF Covers, Rows, Times, Forever

(* A publication opens one plan, from a moment that is not later than now,  *)
(* and leaves no other that covers a later moment.                          *)
Opened(p, at) ==
  /\ p \in Plans /\ at \in Times /\ at <= clock
  /\ plan' \in [Plans -> Rows]
  /\ plan'[p].status = "published" /\ plan'[p].to = Forever /\ plan'[p].from <= at
  /\ \A t \in Times : t < at /\ Covers(plan'[p], t) => IsPublished(p) /\ Covers(plan[p], t)
  /\ \A q \in Plans \ {p} : plan'[q] = Superseded(plan[q], at)

\* The plan in force at some time is one that covers it.
LEMMA InForceCovers ==
  ASSUME Timeline, NEW t \in Times, NEW p \in Plans, InForce(Published, t) = p
  PROVE  IsPublished(p) /\ Covers(plan[p], t)
<1> DEFINE covering == {q \in DOMAIN Published : Covers(Published[q], t)}
           latest == {q \in covering : \A o \in covering : Published[o].from <= Published[q].from}
<1>1. covering # {} /\ p = CHOOSE q \in latest : TRUE
  BY PriceAssumption DEF InForce
<1>2. \A q \in covering : q \in Plans /\ IsPublished(q) /\ Covers(plan[q], t) /\ Published[q] = plan[q]
  BY DEF Published, Restrict, IsPublished
<1>3. PICK one \in covering : TRUE
  BY <1>1
<1>4. \A q \in covering : q = one
  BY <1>2, <1>3 DEF Timeline
<1>5. Published[one].from <= Published[one].from
  BY <1>2, <1>3, RowFields DEF Timeline
<1>6. one \in latest
  BY <1>3, <1>4, <1>5
<1> HIDE DEF covering
<1>7. p \in covering
  BY <1>1, <1>6
<1> QED BY <1>2, <1>7

\* What the two transactions that publish have in common.
LEMMA PublicationOpens ==
  ASSUME Timeline, Publish \/ Republish
  PROVE  publisher.stage = "writing" /\ publisher' = Committed /\ clock' = clock /\ Opened(publisher.plan, publisher.at)
<1> DEFINE P == publisher.plan  at == publisher.at
<1>1. publisher.stage = "writing" /\ P \in Plans /\ at \in Times /\ at <= clock
  BY DEF Timeline, Publish, Republish, Writing, Publishers
<1>2. plan \in [Plans -> Rows] /\ plan[P] \in Rows
  BY <1>1 DEF Timeline
<1>3. CASE Publish
  <2>1. plan' = [q \in Plans |->
          IF q = P THEN [plan[P] EXCEPT !.status = "published", !.from = at, !.to = Forever] ELSE Superseded(plan[q], at)]
    BY <1>3 DEF Publish
  <2>2. plan'[P] \in Rows /\ plan'[P].status = "published" /\ plan'[P].to = Forever /\ plan'[P].from = at
    <3> DEFINE row == [plan[P] EXCEPT !.status = "published", !.from = at, !.to = Forever]
    <3>1. row \in Rows /\ row.status = "published" /\ row.to = Forever /\ row.from = at
      BY <1>1, <1>2 DEF Rows
    <3>2. plan'[P] = row
      BY <1>1, <2>1
    <3> QED BY <3>1, <3>2
  <2>3. \A q \in Plans \ {P} : plan'[q] = Superseded(plan[q], at) /\ plan'[q] \in Rows
    BY <1>1, <1>2, <2>1, SupersededRow
  <2>4. plan' \in [Plans -> Rows]
    BY <2>1, <2>2, <2>3
  <2>5. at <= at /\ \A t \in Times : ~(t < at /\ Covers(plan'[P], t))
    BY <1>1, <2>2, MaxTimeIsNat DEF Times, Covers
  <2> QED BY <1>1, <1>3, <2>2, <2>3, <2>4, <2>5 DEF Opened, Publish
<1>4. CASE Republish
  <2> DEFINE current == InForce(Published, at) = P
             from == IF current THEN plan[P].from ELSE at
  <2>1. plan' = [q \in Plans |-> IF q = P THEN [plan[P] EXCEPT !.to = Forever, !.from = from] ELSE Superseded(plan[q], at)]
    BY <1>4 DEF Republish
  <2>2. from \in Times /\ from <= at /\ \A t \in Times : from <= t /\ t < at => Covers(plan[P], t)
    <3>1. CASE current
      <4>1. Covers(plan[P], at)
        BY <1>1, <3>1, InForceCovers
      <4>2. from = plan[P].from
        BY <3>1
      <4>3. plan[P].from \in Times /\ plan[P].from \in Nat /\ plan[P].to \in Nat
        BY <1>2, RowFields
      <4> QED BY <1>1, <4>1, <4>2, <4>3, MaxTimeIsNat DEF Covers, Times
    <3>2. CASE ~current
      BY <1>1, <3>2, MaxTimeIsNat DEF Times
    <3> QED BY <3>1, <3>2
  <2>3. plan[P].status = "published"
    BY <1>4 DEF Republish
  <2> HIDE DEF from
  <2>4. plan'[P] \in Rows /\ plan'[P].status = "published" /\ plan'[P].to = Forever /\ plan'[P].from = from
    <3> DEFINE row == [plan[P] EXCEPT !.to = Forever, !.from = from]
    <3>1. row \in Rows /\ row.status = plan[P].status /\ row.to = Forever /\ row.from = from
      BY <1>2, <2>2 DEF Rows
    <3>2. plan'[P] = row
      BY <1>1, <2>1
    <3> QED BY <2>3, <3>1, <3>2
  <2>7. \A t \in Times : t < at /\ Covers(plan'[P], t) => IsPublished(P) /\ Covers(plan[P], t)
    BY <2>2, <2>3, <2>4 DEF Covers, IsPublished
  <2>5. \A q \in Plans \ {P} : plan'[q] = Superseded(plan[q], at) /\ plan'[q] \in Rows
    BY <1>1, <1>2, <2>1, SupersededRow
  <2>6. plan' \in [Plans -> Rows]
    BY <2>1, <2>4, <2>5
  <2> QED BY <1>1, <1>4, <2>2, <2>4, <2>5, <2>6, <2>7 DEF Opened, Republish
<1> QED BY <1>3, <1>4

(* Every step keeps the time line.                                          *)
LEMMA TimelineStep == Timeline /\ [PriceNext]_priceVars => Timeline'
<1> SUFFICES ASSUME Timeline, [PriceNext]_priceVars PROVE Timeline'
  OBVIOUS
<1>1. ASSUME Publish \/ Republish PROVE Timeline'
  <2> DEFINE P == publisher.plan  at == publisher.at
  <2>1. publisher' = Committed /\ clock' = clock /\ Opened(P, at)
    BY <1>1, PublicationOpens
  <2>2. \A q \in Plans \ {P}, t \in Times :
          IsPublished(q)' /\ Covers(plan'[q], t) => IsPublished(q) /\ Covers(plan[q], t) /\ t < at
    BY <2>1, SupersededRow DEF Opened, IsPublished, Timeline
  <2>3. \A t \in Times : at <= t => Covers(plan'[P], t)
    BY <2>1, OpenedRow DEF Opened
  <2>4. \A t \in Times : clock <= t => at <= t
    BY <2>1 DEF Opened, Timeline, Times
  <2>5. ASSUME NEW p \in Plans, NEW q \in Plans, NEW t \in Times,
               IsPublished(p)', IsPublished(q)', Covers(plan'[p], t), Covers(plan'[q], t)
        PROVE  p = q
    <3>1. CASE p = P /\ q = P
      BY <3>1
    <3>2. CASE p # P \/ q # P
      <4>1. t < at
        BY <2>2, <2>5, <3>2
      <4>2. \A o \in {p, q} : IsPublished(o) /\ Covers(plan[o], t)
        BY <2>1, <2>2, <2>5, <4>1 DEF Opened
      <4> QED BY <4>2 DEF Timeline
    <3> QED BY <3>1, <3>2
  <2>6. publisher' \in Publishers /\ publisher'.stage # "writing"
    BY <2>1, PublisherRows
  <2>7. \A t \in Times : clock' <= t => \E p \in Plans : plan'[p].status = "published" /\ Covers(plan'[p], t)
    BY <2>1, <2>3, <2>4 DEF Opened
  <2>8. plan' \in [Plans -> Rows]
    BY <2>1 DEF Opened
  <2>9. clock' \in Times
    BY <2>1 DEF Timeline
  <2> QED BY <2>5, <2>6, <2>7, <2>8, <2>9 DEF Timeline, IsPublished
<1>2. ASSUME UNCHANGED clock, publisher'.stage = "writing" => publisher'.at <= clock, publisher' \in Publishers,
             plan' \in [Plans -> Rows],
             \A p \in Plans : plan'[p] = plan[p] \/ ~(IsPublished(p) \/ IsPublished(p)')
      PROVE  Timeline'
  BY <1>2 DEF Timeline, IsPublished, Covers
<1>3. ASSUME NEW p \in Plans, NEW row \in Rows, row.status # "published", ~IsPublished(p),
             plan' = [plan EXCEPT ![p] = row], UNCHANGED <<clock, publisher>>
      PROVE  Timeline'
  <2>1. plan' \in [Plans -> Rows] /\ \A q \in Plans : plan'[q] = plan[q] \/ ~(IsPublished(q) \/ IsPublished(q)')
    BY <1>3 DEF Timeline, IsPublished
  <2> QED BY <1>2, <1>3, <2>1 DEF Timeline
<1>4. ASSUME UNCHANGED <<plan, clock>>, publisher' \in {publisher, Idle, Misreported} PROVE Timeline'
  BY <1>4, <1>2, PublisherRows DEF Timeline
<1>5. ASSUME NEW p \in Plans, NEW method \in {"Publish", "Republish"}, PublicationBegins(method, p) PROVE Timeline'
  <2>1. plan' = plan /\ clock' = clock /\ clock \in Times /\ publisher' \in Publishers /\ publisher'.at = clock
    BY <1>5, PublisherRows DEF PublicationBegins, Timeline
  <2>2. clock <= clock
    BY <2>1 DEF Times
  <2> QED BY <1>2, <2>1, <2>2 DEF Timeline
<1>6. CASE Tick
  <2>1. plan' = plan /\ publisher' = publisher /\ clock \in Times /\ clock' = clock + 1 /\ clock' \in Times
    BY <1>6, MaxTimeIsNat DEF Tick, Timeline, Times
  <2>2. publisher'.stage = "writing" => publisher'.at <= clock'
    BY <2>1 DEF Timeline, Publishers, Times
  <2>3. \A t \in Times : clock' <= t => clock <= t
    BY <2>1 DEF Times
  <2> QED BY <2>1, <2>2, <2>3 DEF Timeline, IsPublished
<1>7. ASSUME NEW c \in Calls, Misses(c) \/ Hits(c) \/ Loads(c) \/ LoadingEnds(c) \/ Wakes(c) \/ GivesUp(c) \/ Resolves(c)
      PROVE  Timeline'
  BY <1>4, <1>7 DEF Misses, Hits, Loads, LoadingEnds, Wakes, GivesUp, Resolves
<1>8. CASE RepublishUnchanged \/ PublicationRefused \/ PublicationReturns \/ ReadBackFails
  BY <1>4, <1>8 DEF RepublishUnchanged, PublicationRefused, PublicationReturns, ReadBackFails
<1>9. CASE UNCHANGED priceVars
  BY <1>4, <1>9 DEF priceVars
<1>10. ASSUME NEW p \in Plans, NEW rates \in Rates, CreateDraft(p, rates) PROVE Timeline'
  <2> DEFINE row == [status |-> "draft", rates |-> rates, from |-> 0, to |-> Forever]
  <2>1. row \in Rows /\ row.status # "published"
    BY MaxTimeIsNat DEF Rows, Times, Forever
  <2> QED BY <1>3, <1>10, <2>1 DEF CreateDraft, IsPublished
<1>11. ASSUME NEW p \in Plans, NEW rates \in Rates, UpdateDraft(p, rates) PROVE Timeline'
  <2> DEFINE row == [plan[p] EXCEPT !.rates = rates]
  <2>1. row \in Rows /\ row.status = plan[p].status
    BY DEF Rows, Timeline
  <2>2. plan' = [plan EXCEPT ![p] = row]
    BY <1>11 DEF UpdateDraft
  <2> HIDE DEF row
  <2> QED BY <1>3, <1>11, <2>1, <2>2 DEF UpdateDraft, IsPublished
<1>12. ASSUME NEW p \in Plans, DeleteDraft(p) PROVE Timeline'
  <2> DEFINE row == [status |-> "absent", rates |-> plan[p].rates, from |-> 0, to |-> Forever]
  <2>1. plan[p] \in Rows
    BY DEF Timeline
  <2>2. row \in Rows /\ row.status # "published"
    BY <2>1, MaxTimeIsNat DEF Rows, Times, Forever
  <2> QED BY <1>3, <1>12, <2>2 DEF DeleteDraft, IsPublished
<1> QED BY <1>1, <1>5, <1>6, <1>7, <1>8, <1>9, <1>10, <1>11, <1>12 DEF PriceNext

(* A single plan that covers a moment is the one in force.                  *)
LEMMA InForceOf ==
  ASSUME NEW list, NEW t, NEW p \in DOMAIN list, p # NoPrice, list[p].from <= list[p].from,
         Covers(list[p], t), \A q \in DOMAIN list : Covers(list[q], t) => q = p
  PROVE  InForce(list, t) = p
<1> DEFINE covering == {q \in DOMAIN list : Covers(list[q], t)}
           latest == {q \in covering : \A o \in covering : list[o].from <= list[q].from}
<1>1. covering = {p}
  OBVIOUS
<1>2. latest = {p}
  BY <1>1
<1>3. (CHOOSE q \in latest : TRUE) = p
  BY <1>2
<1> QED BY <1>1, <1>3 DEF InForce

(* What the time line says of the plan in force.                            *)
LEMMA TimelineInForce ==
  ASSUME Timeline, NEW t \in Times, NEW p \in Plans, IsPublished(p), Covers(plan[p], t)
  PROVE  InForce(Published, t) = p
<1>1. p \in DOMAIN Published /\ Published[p] = plan[p] /\ p # NoPrice
  BY PriceAssumption DEF Published, Restrict, IsPublished
<1>2. \A q \in DOMAIN Published : Covers(Published[q], t) => q = p
  BY DEF Published, Restrict, IsPublished, Timeline
<1>3. plan[p].from <= plan[p].from
  BY RowFields DEF Timeline
<1> QED BY <1>1, <1>2, <1>3, InForceOf

\* The timeline says that each moment has exactly one price.
LEMMA TimelineImplies == Timeline => ExactlyOnePrice
<1> SUFFICES ASSUME Timeline PROVE ExactlyOnePrice
  OBVIOUS
<1>1. \A p \in DOMAIN Published : p \in Plans /\ IsPublished(p)
  BY DEF Published, Restrict, IsPublished
<1>2. ASSUME DOMAIN Published # {} PROVE InForce(Published, clock) # NoPrice
  <2>1. clock \in Times /\ clock <= clock
    BY DEF Timeline, Times
  <2>2. PICK p \in Plans : IsPublished(p) /\ Covers(plan[p], clock)
    BY <1>1, <1>2, <2>1 DEF Timeline
  <2> QED BY <2>1, <2>2, TimelineInForce, PriceAssumption
<1>3. \A t \in Times, p, q \in DOMAIN Published : Covers(plan[p], t) /\ Covers(plan[q], t) => p = q
  BY <1>1 DEF Timeline
<1> QED BY <1>2, <1>3 DEF ExactlyOnePrice

\* What an older release left has one price at a time (PriceAssumption).
LEMMA TimelineInit == PriceInit => Timeline
<1> SUFFICES ASSUME PriceInit PROVE Timeline
  OBVIOUS
<1>1. plan \in [Plans -> Rows] /\ plan \in LegacyPlans
  BY PriceAssumption DEF PriceInit
<1>2. clock \in Times /\ publisher \in Publishers /\ publisher.stage # "writing"
  BY PublisherRows, MaxTimeIsNat DEF PriceInit, Times
<1> QED BY <1>1, <1>2, PriceAssumption DEF Timeline, IsPublished

\* The timeline holds at every moment.
THEOREM TimelineInvariant == PriceSpec => []Timeline
BY TimelineInit, TimelineStep, PTL DEF PriceSpec

(* At every moment a request has exactly one price, once there is one.      *)
THEOREM PriceTheorem == PriceSpec => []ExactlyOnePrice
BY TimelineInvariant, TimelineImplies, PTL

(* A publication decides the price from its commit on, for ever.            *)
THEOREM TakeoverTheorem == PriceSpec => PublicationTakesOver
<1>1. Timeline /\ Timeline' /\ [PriceNext]_priceVars =>
        [publisher # Committed /\ publisher' = Committed =>
           \A t \in clock'..MaxTime : InForce(Published, t)' = publisher.plan]_priceVars
  <2> SUFFICES ASSUME Timeline, Timeline', PriceNext, publisher # Committed, publisher' = Committed, NEW t \in clock'..MaxTime
               PROVE  InForce(Published, t)' = publisher.plan
    BY DEF priceVars
  <2> DEFINE P == publisher.plan  at == publisher.at
  <2>1. Publish \/ Republish
    BY DEF PriceNext, CreateDraft, UpdateDraft, DeleteDraft, PublicationBegins, RepublishUnchanged, PublicationRefused,
       PublicationReturns, ReadBackFails, Misses, Hits, Loads, LoadingEnds, Wakes, GivesUp, Resolves, Tick, Idle, Committed, Misreported
  <2>2. Opened(P, at) /\ clock' = clock
    BY <2>1, PublicationOpens
  <2>3. t \in Times /\ at <= t
    BY <2>2, MaxTimeIsNat DEF Opened, Times, Timeline
  <2>4. plan'[P].status = "published" /\ Covers(plan'[P], t) /\ P \in Plans /\ plan'[P] \in Rows
    BY <2>2, <2>3, OpenedRow DEF Opened
  <2>5. P \in DOMAIN Published' /\ Published'[P] = plan'[P] /\ P # NoPrice
    BY <2>4, PriceAssumption DEF Published, Restrict
  <2>6. \A q \in DOMAIN Published' : Covers(Published'[q], t) => q = P
    BY <2>3, <2>4 DEF Published, Restrict, IsPublished, Timeline
  <2>7. plan'[P].from <= plan'[P].from
    BY <2>4, RowFields
  <2>8. InForce(Published', t) = P
    BY <2>5, <2>6, <2>7, <2>4, InForceOf
  <2> QED BY <2>8
<1> QED BY <1>1, TimelineInvariant, PTL DEF PriceSpec, PublicationTakesOver

-----------------------------------------------------------------------------
(* The snapshot in the cache.  Its call is one that loads or has loaded it. *)
Snapshots == UNION {[published -> Rows] : published \in SUBSET Plans}
Prices == Outcomes \cup {InForce(list, at) : list \in Snapshots, at \in Times}
CallRows == [stage : {"new", "loading", "loaded", "failing", "waiting", "resolving", "done"}, at : Times,
             entry : Calls \cup {NoEntry}, list : Snapshots, price : Prices]

CacheInv(ok) ==
  /\ call \in [Calls -> CallRows]
  /\ cache \in Calls \cup {NoEntry}
  /\ cache # NoEntry => call[cache].stage \notin {"new", "waiting"}
  /\ \A c \in Calls : call[c].stage = "waiting" => call[c].entry \in Calls
  /\ ok => CacheIsCurrent

\* Every step keeps the shape of the calls, and a snapshot that is current unless
\* a publication fails after its commit.
LEMMA CacheStep ==
  ASSUME NEW CONSTANT ok \in BOOLEAN, Timeline, Timeline', CacheInv(ok), [PriceNext]_priceVars,
         ok => ~(publisher = Committed /\ publisher' = Misreported)
  PROVE  CacheInv(ok)'
<1>1. \A c \in Calls : call[c] \in CallRows
  BY DEF CacheInv
<1>a. clock \in Times /\ cache \in Calls \cup {NoEntry} /\ NoEntry \notin Calls
  BY PriceAssumption DEF Timeline, CacheInv
<1>b. LegacyPrice \in Prices /\ Failed \in Prices
  BY DEF Prices, Outcomes
<1>2. Published \in Snapshots
  <2> DEFINE published == {p \in Plans : plan[p].status = "published"}
  <2>1. Published \in [published -> Rows]
    BY DEF Published, Restrict, Timeline
  <2>2. published \in SUBSET Plans
    OBVIOUS
  <2> QED BY <2>1, <2>2 DEF Snapshots
<1>3. ASSUME UNCHANGED <<call, cache>>, Published' = Published, publisher # Committed
      PROVE  CacheInv(ok)'
  BY <1>3 DEF CacheInv, CacheIsCurrent
<1>4. ASSUME UNCHANGED call, cache' \in {cache, NoEntry}, publisher' = Committed \/ cache' = NoEntry
      PROVE  CacheInv(ok)'
  BY <1>4 DEF CacheInv, CacheIsCurrent
\* A call other than the one in the cache.
<1>5. ASSUME NEW c \in Calls, NEW row \in CallRows, call' = [call EXCEPT ![c] = row], UNCHANGED <<plan, publisher>>,
             cache' = cache, cache # c, row.stage = "waiting" => row.entry \in Calls
      PROVE  CacheInv(ok)'
  <2>1. Published' = Published
    BY <1>5 DEF Published
  <2>2. cache # NoEntry => call'[cache] = call[cache]
    BY <1>5, <1>a DEF CacheInv
  <2>3. call' \in [Calls -> CallRows] /\ \A d \in Calls : call'[d].stage = "waiting" => call'[d].entry \in Calls
    BY <1>5 DEF CacheInv
  <2> QED BY <1>5, <2>1, <2>2, <2>3 DEF CacheInv, CacheIsCurrent
\* The call in the cache, or one that enters it.
<1>6. ASSUME NEW c \in Calls, NEW row \in CallRows, call' = [call EXCEPT ![c] = row], UNCHANGED <<plan, publisher>>,
             cache' = c, row.stage \notin {"new", "waiting"},
             ok /\ row.stage \in {"loaded", "resolving", "done"} => publisher = Committed \/ row.list = Published
      PROVE  CacheInv(ok)'
  <2>1. Published' = Published
    BY <1>6 DEF Published
  <2>2. call'[c] = row
    BY <1>6 DEF CacheInv
  <2>3. call' \in [Calls -> CallRows] /\ \A d \in Calls : call'[d].stage = "waiting" => call'[d].entry \in Calls
    BY <1>6 DEF CacheInv
  <2> QED BY <1>6, <2>1, <2>2, <2>3 DEF CacheInv, CacheIsCurrent
<1>7. ASSUME NEW c \in Calls, NEW row \in CallRows, call' = [call EXCEPT ![c] = row], cache' = NoEntry, row.stage # "waiting"
      PROVE  CacheInv(ok)'
  BY <1>7 DEF CacheInv, CacheIsCurrent
<1>8. ASSUME NEW c \in Calls, Misses(c) PROVE CacheInv(ok)'
  <2> DEFINE row == [call[c] EXCEPT !.stage = "loading", !.at = clock]
  <2>1. row \in CallRows /\ row.stage = "loading"
    BY <1>1, <1>a DEF CallRows
  <2>2. call' = [call EXCEPT ![c] = row]
    BY <1>8 DEF Misses
  <2> HIDE DEF row
  <2>3. UNCHANGED <<plan, publisher>> /\ cache' = c
    BY <1>8 DEF Misses
  <2> QED BY <1>6, <2>1, <2>2, <2>3
<1>9. ASSUME NEW c \in Calls, Hits(c) PROVE CacheInv(ok)'
  <2> DEFINE row == [call[c] EXCEPT !.stage = "waiting", !.at = clock, !.entry = cache]
  <2>1. row \in CallRows /\ row.entry = cache
    BY <1>1, <1>a DEF CallRows
  <2>2. call' = [call EXCEPT ![c] = row]
    BY <1>9 DEF Hits
  <2> HIDE DEF row
  <2>3. cache # c /\ row.entry \in Calls /\ UNCHANGED <<plan, publisher, cache>>
    BY <1>9, <1>a, <2>1 DEF Hits, CacheInv
  <2> QED BY <1>5, <2>1, <2>2, <2>3
<1>10. ASSUME NEW c \in Calls, Loads(c) PROVE CacheInv(ok)'
  <2>1. ASSUME call' = [call EXCEPT ![c].stage = "loaded", ![c].list = Published] PROVE CacheInv(ok)'
    <3> DEFINE row == [call[c] EXCEPT !.stage = "loaded", !.list = Published]
    <3>1. row \in CallRows /\ row.stage = "loaded" /\ row.list = Published
      BY <1>1, <1>2 DEF CallRows
    <3>2. call' = [call EXCEPT ![c] = row]
      BY <2>1
    <3> HIDE DEF row
    <3> QED BY <1>5, <1>6, <1>10, <3>1, <3>2 DEF Loads
  <2>2. ASSUME call' = [call EXCEPT ![c].stage = "failing"] PROVE CacheInv(ok)'
    <3> DEFINE row == [call[c] EXCEPT !.stage = "failing"]
    <3>1. row \in CallRows /\ row.stage = "failing"
      BY <1>1 DEF CallRows
    <3>2. call' = [call EXCEPT ![c] = row]
      BY <2>2
    <3> HIDE DEF row
    <3> QED BY <1>5, <1>6, <1>10, <3>1, <3>2 DEF Loads
  <2> QED BY <1>10, <2>1, <2>2 DEF Loads
<1>11. ASSUME NEW c \in Calls, LoadingEnds(c) PROVE CacheInv(ok)'
  <2>1. ASSUME call[c].stage = "loaded", call' = [call EXCEPT ![c].stage = "resolving"], cache' = cache PROVE CacheInv(ok)'
    <3> DEFINE row == [call[c] EXCEPT !.stage = "resolving"]
    <3>1. row \in CallRows /\ row.stage = "resolving" /\ row.list = call[c].list
      BY <1>1 DEF CallRows
    <3>2. call' = [call EXCEPT ![c] = row]
      BY <2>1
    <3> HIDE DEF row
    <3>3. ok /\ cache = c => publisher = Committed \/ row.list = Published
      BY <2>1, <3>1, <1>a DEF CacheInv, CacheIsCurrent
    <3>4. UNCHANGED <<plan, publisher, cache>>
      BY <1>11, <2>1 DEF LoadingEnds
    <3> QED BY <1>5, <1>6, <3>1, <3>2, <3>3, <3>4
  <2>2. ASSUME call' = [call EXCEPT ![c].stage = "done", ![c].price = Failed], cache' = NoEntry PROVE CacheInv(ok)'
    <3> DEFINE row == [call[c] EXCEPT !.stage = "done", !.price = Failed]
    <3>1. row \in CallRows /\ row.stage = "done"
      BY <1>1, <1>b DEF CallRows
    <3>2. call' = [call EXCEPT ![c] = row]
      BY <2>2
    <3> HIDE DEF row
    <3> QED BY <1>7, <2>2, <3>1, <3>2
  <2> QED BY <1>11, <2>1, <2>2 DEF LoadingEnds
<1>12. ASSUME NEW c \in Calls, call[c].stage = "waiting", UNCHANGED <<plan, publisher, cache>>,
              NEW row \in CallRows, call' = [call EXCEPT ![c] = row], row.stage # "waiting"
       PROVE  CacheInv(ok)'
  <2>1. cache # c
    BY <1>12, <1>a DEF CacheInv
  <2> QED BY <1>5, <1>12, <2>1
<1>13. ASSUME NEW c \in Calls, Wakes(c) \/ GivesUp(c) PROVE CacheInv(ok)'
  <2>1. ASSUME call' = [call EXCEPT ![c].stage = "done", ![c].price = Failed] PROVE CacheInv(ok)'
    <3> DEFINE row == [call[c] EXCEPT !.stage = "done", !.price = Failed]
    <3>1. row \in CallRows /\ row.stage = "done"
      BY <1>1, <1>b DEF CallRows
    <3>2. call' = [call EXCEPT ![c] = row]
      BY <2>1
    <3> HIDE DEF row
    <3> QED BY <1>12, <1>13, <3>1, <3>2 DEF Wakes, GivesUp
  <2>2. ASSUME NEW l \in Snapshots, call' = [call EXCEPT ![c].stage = "resolving", ![c].list = l] PROVE CacheInv(ok)'
    <3> DEFINE row == [call[c] EXCEPT !.stage = "resolving", !.list = l]
    <3>1. row \in CallRows /\ row.stage = "resolving"
      BY <1>1 DEF CallRows
    <3>2. call' = [call EXCEPT ![c] = row]
      BY <2>2
    <3> HIDE DEF row
    <3> QED BY <1>12, <1>13, <3>1, <3>2 DEF Wakes, GivesUp
  <2>3. call[c].stage = "waiting"
    BY <1>13 DEF Wakes, GivesUp
  <2>4. CASE GivesUp(c)
    BY <2>1, <2>4 DEF GivesUp
  <2>5. CASE Wakes(c)
    <3>1. call[c].entry \in Calls
      BY <2>3 DEF CacheInv
    <3>2. call[call[c].entry].list \in Snapshots
      BY <1>1, <3>1 DEF CallRows
    <3> QED BY <2>1, <2>2, <2>5, <3>2 DEF Wakes
  <2> QED BY <1>13, <2>4, <2>5
<1>14. ASSUME NEW c \in Calls, Resolves(c) PROVE CacheInv(ok)'
  <2> DEFINE list == IF call[c].list = EmptyList THEN Published ELSE call[c].list
             price == IF list = EmptyList THEN LegacyPrice ELSE InForce(list, call[c].at)
             row == [call[c] EXCEPT !.stage = "done", !.price = price]
  <2>1. list \in Snapshots /\ call[c].at \in Times
    BY <1>1, <1>2 DEF CallRows
  <2>2. price \in Prices
    BY <2>1, <1>b DEF Prices
  <2> HIDE DEF list, price
  <2>3. row \in CallRows /\ row.stage = "done" /\ row.list = call[c].list
    BY <1>1, <2>2 DEF CallRows
  <2>4. call' = [call EXCEPT ![c] = row]
    BY <1>14 DEF Resolves, list, price
  <2>5. call[c].stage = "resolving" /\ UNCHANGED <<plan, publisher, cache>>
    BY <1>14 DEF Resolves
  <2> HIDE DEF row
  <2>6. ok /\ cache = c => publisher = Committed \/ row.list = Published
    BY <1>a, <2>3, <2>5 DEF CacheInv, CacheIsCurrent
  <2> QED BY <1>5, <1>6, <2>3, <2>4, <2>5, <2>6
<1>15. ASSUME Publish \/ Republish PROVE CacheInv(ok)'
  BY <1>4, <1>15 DEF Publish, Republish
<1>16. ASSUME RepublishUnchanged \/ PublicationReturns PROVE CacheInv(ok)'
  BY <1>4, <1>16 DEF RepublishUnchanged, PublicationReturns
\* Drafts are in no snapshot.
<1>17. ASSUME NEW p \in Plans, \A q \in Plans \ {p} : plan'[q] = plan[q], plan[p].status # "published",
              plan'[p].status # "published"
       PROVE  Published' = Published
  BY <1>17 DEF Published, Restrict
<1>18. ASSUME NEW p \in Plans, DeleteDraft(p) \/ \E rates \in Rates : CreateDraft(p, rates) \/ UpdateDraft(p, rates)
       PROVE  CacheInv(ok)'
  <2>1. UNCHANGED <<call, cache, publisher>> /\ plan[p].status # "published"
    BY <1>18 DEF CreateDraft, UpdateDraft, DeleteDraft
  <2>2. plan'[p].status # "published" /\ \A q \in Plans \ {p} : plan'[q] = plan[q]
    BY <1>18 DEF CreateDraft, UpdateDraft, DeleteDraft, Timeline, Rows
  <2>3. Published' = Published
    BY <1>17, <2>1, <2>2
  <2> QED BY <2>1, <2>3 DEF CacheInv, CacheIsCurrent
<1>19. ASSUME UNCHANGED <<plan, call, cache>>, publisher # Committed PROVE CacheInv(ok)'
  <2>1. Published' = Published
    BY <1>19 DEF Published
  <2> QED BY <1>3, <1>19, <2>1
<1>20. ASSUME NEW p \in Plans, NEW m \in {"Publish", "Republish"}, PublicationBegins(m, p) PROVE CacheInv(ok)'
  BY <1>19, <1>20 DEF PublicationBegins, CacheMuIsFree, Idle, Committed, Misreported
<1>21. ASSUME PublicationRefused PROVE CacheInv(ok)'
  BY <1>19, <1>21 DEF PublicationRefused, Committed
<1>22. ASSUME UNCHANGED <<plan, publisher, cache, call>> PROVE CacheInv(ok)'
  <2>1. Published' = Published
    BY <1>22 DEF Published
  <2> QED BY <1>22, <2>1 DEF CacheInv, CacheIsCurrent
<1>23. ASSUME Tick PROVE CacheInv(ok)'
  BY <1>22, <1>23 DEF Tick
<1>26. ASSUME ReadBackFails PROVE CacheInv(ok)'
  BY <1>26 DEF ReadBackFails, CacheInv
<1>24. CASE PriceNext
  BY <1>8, <1>9, <1>10, <1>11, <1>13, <1>14, <1>15, <1>16, <1>18, <1>20, <1>21, <1>23, <1>24, <1>26 DEF PriceNext
<1>25. CASE UNCHANGED priceVars
  BY <1>22, <1>25 DEF priceVars
<1> QED BY <1>24, <1>25

\* Nothing is cached at the start.
LEMMA CacheInit == PriceInit => CacheInv(FALSE)
<1> SUFFICES ASSUME PriceInit PROVE CacheInv(FALSE)
  OBVIOUS
<1>1. EmptyList \in Snapshots
  <2>1. EmptyList \in [{} -> Rows] /\ {} \in SUBSET Plans
    BY DEF EmptyList
  <2> QED BY <2>1 DEF Snapshots
<1>2. 0 \in Times
  BY MaxTimeIsNat DEF Times
<1>3. [stage |-> "new", at |-> 0, entry |-> NoEntry, list |-> EmptyList, price |-> Unresolved] \in CallRows
  BY <1>1, <1>2 DEF CallRows, Prices, Outcomes
<1> HIDE DEF EmptyList
<1> QED BY <1>3 DEF PriceInit, CacheInv

\* However loads and publications overlap, the snapshot in the cache stays what
\* the database holds, until a publication fails after its commit.
THEOREM CacheTheorem == PriceSpec => SnapshotStaysCurrent
<1>1. PriceInit => Timeline /\ CacheInv(FALSE)
  BY TimelineInit, CacheInit
<1>2. Timeline /\ CacheInv(FALSE) /\ [PriceNext]_priceVars => (Timeline /\ CacheInv(FALSE))'
  BY TimelineStep, CacheStep
<1>3. Timeline /\ CacheInv(FALSE) /\ [PriceNext]_priceVars =>
        [CacheIsCurrent => CacheIsCurrent' \/ (publisher = Committed /\ publisher' = Misreported)]_priceVars
  <2> SUFFICES ASSUME Timeline, CacheInv(FALSE), [PriceNext]_priceVars, CacheIsCurrent,
                      ~(publisher = Committed /\ publisher' = Misreported)
               PROVE  CacheIsCurrent'
    OBVIOUS
  <2>1. CacheInv(TRUE)
    BY DEF CacheInv
  <2>2. CacheInv(TRUE)'
    BY <2>1, TimelineStep, CacheStep
  <2> QED BY <2>2 DEF CacheInv
<1> QED BY <1>1, <1>2, <1>3, PTL DEF PriceSpec, SnapshotStaysCurrent

(***************************************************************************)
(* Multipliers, for any groups, multipliers and number of callers: a        *)
(* snapshot is what is stored unless a change overlapped others.            *)
(***************************************************************************)
Pending(c, g, what) == step[c].does \in what /\ step[c].group = g

\* Unless a change overlapped others, whoever will fill the cache has read what
\* is stored.
ReadersAreCurrent ==
  \A g \in BillingGroups \ overlapped, c \in Callers :
    Pending(c, g, {"remember", "resolve"}) => step[c].seen = stored[g]

\* ... and the cache is current, or whoever changed the group is about to see to it.
CurrentOrPending ==
  \A g \in BillingGroups \ overlapped :
    snapshot[g] \in {NoSnapshot, stored[g]} \/ \E c \in Callers : Pending(c, g, {"remember", "forget"})

\* A tombstone stands for a deleted group without a snapshot.
TombstonesHold == \A g \in removed : stored[g] = Deleted /\ snapshot[g] = NoSnapshot

DeletedIsForgotten ==
  \A g \in BillingGroups :
    stored[g] = Deleted => g \in removed \/ \E c \in Callers : Pending(c, g, {"forget"})

ForgetsDeleted ==
  \A g \in BillingGroups, c \in Callers : Pending(c, g, {"forget"}) => stored[g] = Deleted

IInv == MultiplierTypeOK /\ ReadersAreCurrent /\ CurrentOrPending /\ TombstonesHold
        /\ DeletedIsForgotten /\ ForgetsDeleted

-----------------------------------------------------------------------------
(* What a step of a caller may be, and that a caller is at rest exactly if  *)
(* it does "rest".                                                          *)
Steps == {AtRest} \cup [does : {"remember", "resolve"}, group : BillingGroups, seen : Multipliers]
                  \cup [does : {"forget"}, group : BillingGroups, seen : {Deleted}]

LEMMA RestIsDoing ==
  /\ AtRest \in Steps /\ AtRest.does = "rest"
  /\ \A s \in Steps : s # AtRest => /\ s.does \in {"remember", "resolve", "forget"}
                                    /\ s.group \in BillingGroups
                                    /\ s.does # "forget" => s.seen \in Multipliers
BY DEF Steps, AtRest

LEMMA AboutFields ==
  ASSUME NEW does, NEW g, NEW m
  PROVE  /\ About(does, g, m).does = does /\ About(does, g, m).group = g
         /\ About(does, g, m).seen = m
BY DEF About

LEMMA AboutIsStep ==
  ASSUME NEW g \in BillingGroups
  PROVE  /\ \A m \in Multipliers : About("remember", g, m) \in Steps /\ About("resolve", g, m) \in Steps
         /\ About("forget", g, Deleted) \in Steps
BY DEF About, Steps

(* The tables stay within their types: no deleted group has a multiplier,   *)
(* and no caller forgets what the database still has.                       *)
THEOREM MultiplierTypeCorrect == MultiplierSpec => []MultiplierTypeOK
<1> USE DEF Steps
<1>1. MultiplierInit => MultiplierTypeOK
  BY DEF MultiplierInit, MultiplierTypeOK
<1>2. MultiplierTypeOK /\ [MultiplierNext]_multiplierVars => MultiplierTypeOK'
  <2> SUFFICES ASSUME MultiplierTypeOK, [MultiplierNext]_multiplierVars PROVE MultiplierTypeOK'
    OBVIOUS
  <2>0. step \in [Callers -> Steps]
    BY DEF MultiplierTypeOK
  <2> HIDE DEF Steps
  <2>1. ASSUME NEW c \in Callers, NEW g \in BillingGroups, NEW m \in Multipliers, Change(c, g, m)
        PROVE  MultiplierTypeOK'
    <3>1. step' \in [Callers -> Steps]
      BY <2>1, <2>0, AboutIsStep DEF Change, Does
    <3> QED BY <2>1, <3>1 DEF Change, Overlaps, MultiplierTypeOK, Steps
  <2>2. ASSUME NEW c \in Callers, NEW g \in BillingGroups, DeleteGroup(c, g) PROVE MultiplierTypeOK'
    <3>1. step' \in [Callers -> Steps]
      BY <2>2, <2>0, AboutIsStep DEF DeleteGroup, Does
    <3> QED BY <2>2, <3>1 DEF DeleteGroup, Overlaps, MultiplierTypeOK, Steps
  <2>3. ASSUME NEW c \in Callers, NEW g \in BillingGroups, ListGroups(c, g) \/ Authenticate(c, g)
        PROVE  MultiplierTypeOK'
    <3>0. stored[g] \in Multipliers
      BY <2>3 DEF ListGroups, Authenticate, MultiplierTypeOK
    <3>1. step' \in [Callers -> Steps]
      BY <2>3, <3>0, <2>0, AboutIsStep DEF ListGroups, Authenticate, Does
    <3> QED BY <2>3, <3>1 DEF ListGroups, Authenticate, MultiplierTypeOK, Steps
  <2>4. ASSUME NEW c \in Callers, Remember(c) \/ Resolve(c) \/ Forget(c) PROVE MultiplierTypeOK'
    <3>0. step[c] \in Steps /\ step[c] # AtRest
      BY <2>4, <2>0, RestIsDoing DEF Remember, Resolve, Forget, Doing
    <3>1. step' \in [Callers -> Steps]
      BY <2>4, <2>0, RestIsDoing DEF Remember, Resolve, Forget, Doing
    <3>2. step[c].group \in BillingGroups /\ (step[c].does # "forget" => step[c].seen \in Multipliers)
      BY <3>0, RestIsDoing
    <3>3. Remember(c) => MultiplierTypeOK'
      BY <3>1, <3>2 DEF Remember, Doing, MultiplierTypeOK, Steps
    <3>4. Resolve(c) => MultiplierTypeOK'
      BY <3>1, <3>2 DEF Resolve, Doing, MultiplierTypeOK, Steps
    <3>5. Forget(c) => MultiplierTypeOK'
      BY <3>1, <3>2 DEF Forget, Doing, MultiplierTypeOK, Steps
    <3> QED BY <2>4, <3>3, <3>4, <3>5
  <2>5. CASE UNCHANGED multiplierVars
    BY <2>5 DEF multiplierVars, MultiplierTypeOK
  <2> QED BY <2>1, <2>2, <2>3, <2>4, <2>5 DEF MultiplierNext
<1> QED BY <1>1, <1>2, PTL DEF MultiplierSpec

-----------------------------------------------------------------------------
LEMMA IInvInit == MultiplierInit => IInv
<1> SUFFICES ASSUME MultiplierInit PROVE IInv
  OBVIOUS
<1>1. MultiplierTypeOK
  BY DEF MultiplierInit, MultiplierTypeOK
<1>2. \A c \in Callers : step[c].does = "rest"
  BY RestIsDoing DEF MultiplierInit
<1> QED BY <1>1, <1>2, MultiplierCacheAssumption
  DEF MultiplierInit, IInv, ReadersAreCurrent, CurrentOrPending, TombstonesHold, DeletedIsForgotten, ForgetsDeleted, Pending

(* A step preserves the invariant, by what the caller does: a change or a   *)
(* deletion, a read, or the cache.                                          *)
LEMMA IInvStep == IInv /\ MultiplierTypeOK' /\ [MultiplierNext]_multiplierVars => IInv'
<1> SUFFICES ASSUME IInv, MultiplierTypeOK', [MultiplierNext]_multiplierVars PROVE IInv'
  OBVIOUS
<1>0. step \in [Callers -> Steps]
  BY DEF IInv, MultiplierTypeOK, Steps
<1> USE DEF Pending
<1>1. ASSUME NEW c \in Callers, NEW g \in BillingGroups, NEW what \in {"remember", "forget"}, NEW m,
             step[c] = AtRest, stored[g] # Deleted, Overlaps(g),
             what = "forget" <=> m = Deleted,
             stored' = [stored EXCEPT ![g] = m], step' = [step EXCEPT ![c] = About(what, g, m)],
             UNCHANGED <<snapshot, removed>>
      PROVE  IInv'
  <2>1. /\ step'[c].does = what /\ step'[c].group = g /\ step'[c].seen = m
        /\ \A d \in Callers \ {c} : step'[d] = step[d]
    BY <1>0, <1>1, AboutFields
  <2>2. stored'[g] = m /\ \A h \in BillingGroups \ {g} : stored'[h] = stored[h]
    BY <1>1 DEF IInv, MultiplierTypeOK
  <2>3. \A h \in BillingGroups \ {g} : h \in overlapped' <=> h \in overlapped
    BY <1>1 DEF Overlaps
  <2>4. step[c].does = "rest"
    BY <1>1, RestIsDoing
  <2>5. g \notin overlapped' => \A d \in Callers \ {c} : ~Pending(d, g, {"remember", "resolve", "forget"})
    BY <1>0, <1>1, RestIsDoing DEF Overlaps, Busy
  <2>6. g \notin removed
    BY <1>1 DEF IInv, TombstonesHold
  <2>7. ReadersAreCurrent'
    BY <1>1, <2>1, <2>2, <2>3, <2>5 DEF IInv, ReadersAreCurrent
  <2>8. CurrentOrPending'
    BY <1>1, <2>1, <2>2, <2>3, <2>4 DEF IInv, CurrentOrPending
  <2>9. TombstonesHold'
    BY <1>1, <2>2, <2>6 DEF IInv, TombstonesHold, MultiplierTypeOK
  <2>10. DeletedIsForgotten'
    BY <1>1, <2>1, <2>2, <2>4 DEF IInv, DeletedIsForgotten
  <2>11. ForgetsDeleted'
    BY <1>1, <2>1, <2>2 DEF IInv, ForgetsDeleted
  <2> QED BY <2>7, <2>8, <2>9, <2>10, <2>11 DEF IInv
<1>2. ASSUME NEW c \in Callers, NEW g \in BillingGroups, NEW m \in Multipliers, Change(c, g, m) PROVE IInv'
  BY <1>1, <1>2, MultiplierCacheAssumption DEF Change, Does
<1>3. ASSUME NEW c \in Callers, NEW g \in BillingGroups, DeleteGroup(c, g) PROVE IInv'
  BY <1>1, <1>3 DEF DeleteGroup, Does
<1>4. ASSUME NEW c \in Callers, NEW g \in BillingGroups, ListGroups(c, g) \/ Authenticate(c, g) PROVE IInv'
  <2>1. PICK what \in {"remember", "resolve"} : step' = [step EXCEPT ![c] = About(what, g, stored[g])]
    BY <1>4 DEF ListGroups, Authenticate, Does
  <2>2. /\ step'[c].does = what /\ step'[c].group = g /\ step'[c].seen = stored[g]
        /\ \A d \in Callers \ {c} : step'[d] = step[d]
    BY <1>0, <2>1, AboutFields
  <2>3. step[c].does = "rest" /\ UNCHANGED <<stored, snapshot, removed, overlapped>>
    BY <1>4, RestIsDoing DEF ListGroups, Authenticate, Does
  <2> QED BY <2>2, <2>3
    DEF IInv, ReadersAreCurrent, CurrentOrPending, TombstonesHold, DeletedIsForgotten, ForgetsDeleted
<1>5. ASSUME NEW c \in Callers, Remember(c) \/ Resolve(c) \/ Forget(c) PROVE IInv'
  <2> DEFINE g == step[c].group
  <2>1. step[c] \in Steps /\ step[c] # AtRest
    BY <1>5, <1>0, RestIsDoing DEF Remember, Resolve, Forget, Doing
  <2>2. g \in BillingGroups /\ (step[c].does # "forget" => step[c].seen \in Multipliers)
    BY <2>1, RestIsDoing
  <2>3. step'[c].does = "rest" /\ \A d \in Callers \ {c} : step'[d] = step[d]
    BY <1>5, <1>0, RestIsDoing DEF Remember, Resolve, Forget, Doing
  <2>4. UNCHANGED <<stored, overlapped>>
    BY <1>5 DEF Remember, Resolve, Forget
  <2>5. \A h \in BillingGroups \ {g} : snapshot'[h] = snapshot[h]
    BY <1>5 DEF Remember, Resolve, Forget, IInv, MultiplierTypeOK
  <2>6. ReadersAreCurrent' /\ ForgetsDeleted'
    BY <2>3, <2>4 DEF IInv, ReadersAreCurrent, ForgetsDeleted
  <2>7. ASSUME Remember(c) \/ Resolve(c) PROVE CurrentOrPending' /\ TombstonesHold' /\ DeletedIsForgotten'
    <3>1. removed' = removed /\ step[c].does \in {"remember", "resolve"}
      BY <2>7 DEF Remember, Resolve, Doing
    <3>2. g \in removed => snapshot' = snapshot
      BY <2>7 DEF Remember, Resolve
    <3>3. g \notin overlapped => step[c].seen = stored[g]
      BY <2>2, <3>1 DEF IInv, ReadersAreCurrent
    <3>4. Remember(c) => snapshot'[g] \in {NoSnapshot, step[c].seen}
      BY <2>2 DEF Remember, IInv, TombstonesHold, MultiplierTypeOK
    <3>5. Resolve(c) => snapshot'[g] \in {snapshot[g], step[c].seen}
      BY <2>2 DEF Resolve, IInv, MultiplierTypeOK
    <3>6. CurrentOrPending'
      <4>1. Remember(c) => step[c].does = "remember"
        BY DEF Remember, Doing
      <4>2. Resolve(c) => step[c].does = "resolve"
        BY DEF Resolve, Doing
      <4> QED BY <2>2, <2>3, <2>4, <2>5, <2>7, <3>3, <3>4, <3>5, <4>1, <4>2 DEF IInv, CurrentOrPending
    <3>7. TombstonesHold'
      BY <2>4, <2>5, <3>1, <3>2 DEF IInv, TombstonesHold, MultiplierTypeOK
    <3>8. DeletedIsForgotten'
      BY <2>3, <2>4, <3>1 DEF IInv, DeletedIsForgotten
    <3> QED BY <3>6, <3>7, <3>8
  <2>8. ASSUME Forget(c) PROVE CurrentOrPending' /\ TombstonesHold' /\ DeletedIsForgotten'
    <3>1. removed' = removed \cup {g} /\ step[c].does = "forget" /\ snapshot'[g] = NoSnapshot
      BY <2>2, <2>8 DEF Forget, Doing, IInv, MultiplierTypeOK
    <3>2. stored[g] = Deleted
      BY <2>2, <3>1 DEF IInv, ForgetsDeleted
    <3>3. CurrentOrPending'
      BY <2>3, <2>4, <2>5, <3>1 DEF IInv, CurrentOrPending
    <3>4. TombstonesHold'
      BY <2>2, <2>4, <2>5, <3>1, <3>2 DEF IInv, TombstonesHold, MultiplierTypeOK
    <3>5. DeletedIsForgotten'
      BY <2>3, <2>4, <3>1 DEF IInv, DeletedIsForgotten
    <3> QED BY <3>3, <3>4, <3>5
  <2> QED BY <1>5, <2>6, <2>7, <2>8 DEF IInv
<1>6. CASE UNCHANGED multiplierVars
  BY <1>6 DEF multiplierVars, IInv, MultiplierTypeOK, ReadersAreCurrent, CurrentOrPending, TombstonesHold, DeletedIsForgotten, ForgetsDeleted
<1> QED BY <1>2, <1>3, <1>4, <1>5, <1>6 DEF MultiplierNext

LEMMA IInvGivesSnapshot == IInv => SnapshotIsStored
<1> SUFFICES ASSUME IInv, NEW g \in BillingGroups, ~Busy(g)
             PROVE  /\ g \notin overlapped => snapshot[g] \in {NoSnapshot, stored[g]}
                    /\ stored[g] = Deleted => snapshot[g] = NoSnapshot
  BY DEF SnapshotIsStored
<1>1. \A c \in Callers : ~Pending(c, g, {"remember", "forget"}) /\ ~Pending(c, g, {"forget"})
  BY RestIsDoing DEF Busy, Pending
<1> QED BY <1>1 DEF IInv, CurrentOrPending, TombstonesHold, DeletedIsForgotten

(* For any groups and any number of callers: a snapshot at rest is what the *)
(* database holds, unless the last change of the group had another call     *)
(* under way beside it, and a deleted group has none.                       *)
THEOREM SnapshotTheorem == MultiplierSpec => []SnapshotIsStored
<1>1. IInv /\ MultiplierTypeOK' /\ [MultiplierNext]_multiplierVars => IInv'
  BY IInvStep
<1> QED BY IInvInit, <1>1, IInvGivesSnapshot, MultiplierTypeCorrect, PTL DEF MultiplierSpec
=============================================================================
