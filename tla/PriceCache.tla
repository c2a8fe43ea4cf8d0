----------------------------- MODULE PriceCache -----------------------------
(***************************************************************************)
(* The price plans of one model and the snapshot of the published ones that *)
(* a gateway process keeps (internal/modelpricing).  Administrators draft   *)
(* plans, publish them and switch back to older ones; every request of the  *)
(* gateway resolves its price once, when it starts, from the snapshot.      *)
(*                                                                          *)
(* The snapshot is loaded by the first request that misses it, outside the  *)
(* lock cacheMu, while others wait for that request; publishing holds       *)
(* cacheMu over its transaction and evicts the snapshot afterwards.  The    *)
(* transactions lock the rows they decide on and are one step here.  One    *)
(* process is modelled: its cacheMu is the reason why only one publication  *)
(* runs at a time.                                                          *)
(*                                                                          *)
(* Only the identity of a plan and its default rates matter here: which of  *)
(* its windows applies is computed from the plan alone.                     *)
(***************************************************************************)
EXTENDS Integers, Functions

CONSTANTS
  Plans,          \* price plans of the model
  Rates,          \* rate cards
  Calls,          \* requests that resolve a price, once each
  NoEntry,        \* the cache has no snapshot of the model
  NoPrice,        \* what a call gets: no price is in force,
  LegacyPrice,    \* the fields of a model that has no plans,
  Failed,         \* an error,
  Unresolved,     \* nothing yet
  LegacyPlans,    \* the plans an older release may have left behind
  MaxTime         \* bound of the clock

Times == 0..MaxTime
Forever == MaxTime + 1   \* effective_to is null
Rows == [status : {"absent", "draft", "published", "retired"}, rates : Rates, from : Times, to : Times \cup {Forever}]

\* The half-open interval of a plan.
Covers(row, t) == row.from <= t /\ t < row.to

\* The plans older releases left have one price at a time, from the first plan on.
ASSUME PriceAssumption ==
  /\ MaxTime \in Nat
  /\ NoEntry \notin Calls
  /\ NoPrice \notin Plans /\ LegacyPrice \notin Plans
  /\ Unresolved \notin Plans \cup {NoPrice, LegacyPrice, Failed}
  /\ LegacyPlans \subseteq [Plans -> Rows]
  /\ \A left \in LegacyPlans :
       LET published == {p \in Plans : left[p].status = "published"} IN
       /\ \A p, q \in published, t \in Times : Covers(left[p], t) /\ Covers(left[q], t) => p = q
       /\ published = {} \/ \A t \in Times : \E p \in published : Covers(left[p], t)

VARIABLES
  plan,      \* model_price_plans
  clock,
  publisher, \* who holds cacheMu to publish, and how far it is
  cache,     \* the call whose snapshot is in the cache
  call       \* requests: their stage, start, snapshot and price

priceVars == <<plan, clock, publisher, cache, call>>

Outcomes == Plans \cup {NoPrice, LegacyPrice, Failed, Unresolved}
Publishers == [stage : {"idle", "committed", "misreported"}] \cup [stage : {"writing"}, method : {"Publish", "Republish"}, plan : Plans, at : Times]

PriceTypeOK ==
  /\ plan \in [Plans -> Rows]
  /\ clock \in Times
  /\ publisher \in Publishers
  /\ cache \in Calls \cup {NoEntry}
  /\ DOMAIN call = Calls
  /\ \A c \in Calls :
       /\ call[c].stage \in {"new", "loading", "loaded", "failing", "waiting", "resolving", "done"}
       /\ call[c].at \in Times /\ call[c].entry \in Calls \cup {NoEntry} /\ call[c].price \in Outcomes
       /\ DOMAIN call[c].list \subseteq Plans /\ \A p \in DOMAIN call[c].list : call[c].list[p] \in Rows
       /\ call[c].stage = "waiting" => call[c].entry \in Calls
       /\ call[c].stage = "done" <=> call[c].price # Unresolved

EmptyList == [p \in {} |-> p]
Idle == [stage |-> "idle"]
Committed == [stage |-> "committed"]
Misreported == [stage |-> "misreported"]   \* the last one is committed, but returned an error

PriceInit ==
  /\ plan \in LegacyPlans
  /\ clock = 0
  /\ publisher = Idle
  /\ cache = NoEntry
  /\ call = [c \in Calls |-> [stage |-> "new", at |-> 0, entry |-> NoEntry, list |-> EmptyList, price |-> Unresolved]]

-----------------------------------------------------------------------------
(* Which plan is in force.                                                  *)

\* resolvePublishedPlans and effectivePlanAt: the latest start among those in
\* force.  Versions decide between equal starts, which ExactlyOnePrice excludes.
InForce(list, t) ==
  LET covering == {p \in DOMAIN list : Covers(list[p], t)}
      latest == {p \in covering : \A q \in covering : list[q].from <= list[p].from}
  IN  IF covering = {} THEN NoPrice ELSE CHOOSE p \in latest : TRUE

Published == Restrict(plan, {p \in Plans : plan[p].status = "published"})

-----------------------------------------------------------------------------
(* Drafts                                                                   *)

CreateDraft(p, rates) ==
  /\ plan[p].status = "absent"
  /\ plan' = [plan EXCEPT ![p] = [status |-> "draft", rates |-> rates, from |-> 0, to |-> Forever]]
  /\ UNCHANGED <<clock, publisher, cache, call>>

UpdateDraft(p, rates) ==
  /\ plan[p].status = "draft"
  /\ plan' = [plan EXCEPT ![p].rates = rates]
  /\ UNCHANGED <<clock, publisher, cache, call>>

DeleteDraft(p) ==
  /\ plan[p].status = "draft"
  /\ plan' = [plan EXCEPT ![p] = [status |-> "absent", rates |-> plan[p].rates, from |-> 0, to |-> Forever]]
  /\ UNCHANGED <<clock, publisher, cache, call>>

-----------------------------------------------------------------------------
(* Publishing.  The time of the publication is read before the transaction  *)
(* has its locks.                                                           *)

CacheMuIsFree == publisher \in {Idle, Misreported}

PublicationBegins(method, p) ==
  /\ CacheMuIsFree
  /\ publisher' = [stage |-> "writing", method |-> method, plan |-> p, at |-> clock]
  /\ UNCHANGED <<plan, clock, cache, call>>

Writing(method) == publisher.stage = "writing" /\ publisher.method = method

\* A variant that leaves plans scheduled for later alone.
ClosedOnly(row, at) ==
  IF row.status # "published" \/ row.from > at THEN row
  ELSE IF row.to > at THEN [row EXCEPT !.to = at] ELSE row

\* What becomes of the other published plans: none starts later or goes on.
Superseded(row, at) ==
  IF row.status # "published" THEN row
  ELSE IF row.from > at THEN [row EXCEPT !.status = "retired"]
  ELSE IF row.to > at THEN [row EXCEPT !.to = at] ELSE row

Publish ==
  LET p == publisher.plan  at == publisher.at IN
  /\ Writing("Publish")
  /\ plan[p].status = "draft"
  /\ plan' = [q \in Plans |->
       IF q = p THEN [plan[p] EXCEPT !.status = "published", !.from = at, !.to = Forever] ELSE Superseded(plan[q], at)]
  /\ publisher' = Committed
  /\ UNCHANGED <<clock, cache, call>>

\* A variant that only opens the plan again.
RepublishOpens ==
  LET p == publisher.plan  at == publisher.at IN
  /\ Writing("Republish")
  /\ plan[p].status = "published"
  /\ plan' = [plan EXCEPT ![p].from = at, ![p].to = Forever]
  /\ publisher' = Committed
  /\ UNCHANGED <<clock, cache, call>>

Republish ==
  LET p == publisher.plan  at == publisher.at
      others == DOMAIN Published \ {p}
      current == InForce(Published, at) = p
  IN
  /\ Writing("Republish")
  /\ plan[p].status = "published"
  /\ \A q \in others : plan[q].from # at
  /\ ~(current /\ \A q \in others : plan[q].from < at)
  /\ plan' = [q \in Plans |->
       IF q = p THEN [plan[p] EXCEPT !.to = Forever, !.from = IF current THEN @ ELSE at] ELSE Superseded(plan[q], at)]
  /\ publisher' = Committed
  /\ UNCHANGED <<clock, cache, call>>

\* The plan is in force and nothing is scheduled: no transaction, but an eviction.
RepublishUnchanged ==
  LET p == publisher.plan  at == publisher.at IN
  /\ Writing("Republish")
  /\ InForce(Published, at) = p /\ \A q \in DOMAIN Published \ {p} : plan[q].from < at
  /\ publisher' = Idle /\ cache' = NoEntry
  /\ UNCHANGED <<plan, clock, call>>

\* Wrong status, missing model, conflict, error: the transaction is rolled back.
PublicationRefused ==
  /\ publisher.stage = "writing"
  /\ publisher' = Idle
  /\ UNCHANGED <<plan, clock, cache, call>>

\* A variant that replaces the snapshot only when nobody is loading one.
EvictsUnlessLoading ==
  /\ publisher = Committed
  /\ publisher' = Idle
  /\ cache' = IF cache # NoEntry /\ call[cache].stage \in {"loading", "loaded"} THEN cache ELSE NoEntry
  /\ UNCHANGED <<plan, clock, call>>

\* The plan is read again for the answer; then the snapshot is evicted.
PublicationReturns ==
  /\ publisher = Committed
  /\ publisher' = Idle /\ cache' = NoEntry
  /\ UNCHANGED <<plan, clock, call>>

\* That read fails, or the commit is not answered: the method returns an error
\* and leaves the cache alone.
ReadBackFails ==
  /\ publisher = Committed
  /\ publisher' = Misreported
  /\ UNCHANGED <<plan, clock, cache, call>>

-----------------------------------------------------------------------------
(* Requests                                                                 *)

\* A miss puts an entry into the cache before the lock is released.
Misses(c) ==
  /\ call[c].stage = "new" /\ CacheMuIsFree /\ cache = NoEntry
  /\ cache' = c
  /\ call' = [call EXCEPT ![c].stage = "loading", ![c].at = clock]
  /\ UNCHANGED <<plan, clock, publisher>>

Hits(c) ==
  /\ call[c].stage = "new" /\ CacheMuIsFree /\ cache # NoEntry
  /\ call' = [call EXCEPT ![c].stage = "waiting", ![c].at = clock, ![c].entry = cache]
  /\ UNCHANGED <<plan, clock, publisher, cache>>

\* The list is read without the lock.
Loads(c) ==
  /\ call[c].stage = "loading"
  /\ \/ call' = [call EXCEPT ![c].stage = "loaded", ![c].list = Published]
     \/ call' = [call EXCEPT ![c].stage = "failing"]
  /\ UNCHANGED <<plan, clock, publisher, cache>>

\* A variant that takes the failed entry out but tells nobody.
LoadingEndsSilently(c) ==
  /\ CacheMuIsFree
  /\ \/ call[c].stage = "loaded" /\ call' = [call EXCEPT ![c].stage = "resolving"] /\ UNCHANGED cache
     \/ call[c].stage = "failing" /\ cache' = NoEntry /\ UNCHANGED call
  /\ UNCHANGED <<plan, clock, publisher>>

\* A variant that puts the snapshot into the cache when it has been loaded.
StoresWhenLoaded(c) ==
  /\ CacheMuIsFree
  /\ \/ call[c].stage = "loaded" /\ call' = [call EXCEPT ![c].stage = "resolving"] /\ cache' = c
     \/ /\ call[c].stage = "failing" /\ cache' = NoEntry
        /\ call' = [call EXCEPT ![c].stage = "done", ![c].price = Failed]
  /\ UNCHANGED <<plan, clock, publisher>>

\* A failed load deletes the entry of the model, whosever it is by now; then
\* the channel is closed and whoever waits goes on.
LoadingEnds(c) ==
  /\ CacheMuIsFree
  /\ \/ call[c].stage = "loaded" /\ call' = [call EXCEPT ![c].stage = "resolving"] /\ UNCHANGED cache
     \/ /\ call[c].stage = "failing" /\ cache' = NoEntry
        /\ call' = [call EXCEPT ![c].stage = "done", ![c].price = Failed]
  /\ UNCHANGED <<plan, clock, publisher>>

\* A waiting request gets what the loading one got, error or snapshot.
Wakes(c) ==
  LET loader == call[call[c].entry] IN
  /\ call[c].stage = "waiting" /\ loader.stage \in {"resolving", "done"}
  /\ call' = IF loader.stage = "done" /\ loader.price = Failed
             THEN [call EXCEPT ![c].stage = "done", ![c].price = Failed]
             ELSE [call EXCEPT ![c].stage = "resolving", ![c].list = loader.list]
  /\ UNCHANGED <<plan, clock, publisher, cache>>

\* The client of a waiting request is gone.
GivesUp(c) ==
  /\ call[c].stage = "waiting"
  /\ call' = [call EXCEPT ![c].stage = "done", ![c].price = Failed]
  /\ UNCHANGED <<plan, clock, publisher, cache>>

\* Without published plans in the snapshot the database is asked once more.
Resolves(c) ==
  LET list == IF call[c].list = EmptyList THEN Published ELSE call[c].list IN
  /\ call[c].stage = "resolving"
  /\ call' = [call EXCEPT ![c].stage = "done",
       ![c].price = IF list = EmptyList THEN LegacyPrice ELSE InForce(list, call[c].at)]
  /\ UNCHANGED <<plan, clock, publisher, cache>>

-----------------------------------------------------------------------------
Tick == clock < MaxTime /\ clock' = clock + 1 /\ UNCHANGED <<plan, publisher, cache, call>>

PriceNext ==
  \/ \E p \in Plans, rates \in Rates : CreateDraft(p, rates) \/ UpdateDraft(p, rates)
  \/ \E p \in Plans : DeleteDraft(p) \/ PublicationBegins("Publish", p) \/ PublicationBegins("Republish", p)
  \/ Publish \/ Republish \/ RepublishUnchanged \/ PublicationRefused \/ PublicationReturns \/ ReadBackFails
  \/ \E c \in Calls : Misses(c) \/ Hits(c) \/ Loads(c) \/ LoadingEnds(c) \/ Wakes(c) \/ GivesUp(c) \/ Resolves(c)
  \/ Tick

PriceSpec == PriceInit /\ [][PriceNext]_priceVars

(* A call of the database ends, a goroutine that can run does, and a lock   *)
(* that is free again and again is taken (sync.Mutex does not starve).      *)
PriceFairness ==
  /\ WF_priceVars(PublicationReturns) /\ WF_priceVars(PublicationRefused)
  /\ \A c \in Calls :
       WF_priceVars(Loads(c)) /\ SF_priceVars(LoadingEnds(c)) /\ WF_priceVars(Wakes(c)) /\ WF_priceVars(Resolves(c))

FairPriceSpec == PriceSpec /\ PriceFairness
-----------------------------------------------------------------------------
(* Properties.                                                              *)

\* The next request resolves the new price (docs/api.md:270): whenever nobody is
\* between a commit and its eviction, a snapshot that has been loaded into the
\* cache is what the database holds.
CacheIsCurrent ==
  publisher # Committed /\ cache # NoEntry /\ call[cache].stage \in {"loaded", "resolving", "done"}
    => call[cache].list = Published

\* Only a publication that returns an error after its commit leaves an outdated
\* snapshot: no load that overlaps a publication puts the old list back, and a
\* publication that returns a plan leaves nothing behind.
SnapshotStaysCurrent ==
  [][CacheIsCurrent => CacheIsCurrent' \/ (publisher = Committed /\ publisher' = Misreported)]_priceVars

\* The intervals of the published plans never overlap, and once a plan is
\* published some plan is in force: each request has one price, and no switch
\* to an older plan or race of the clock leaves a gap.
ExactlyOnePrice ==
  /\ \A t \in Times, p, q \in DOMAIN Published : Covers(plan[p], t) /\ Covers(plan[q], t) => p = q
  /\ DOMAIN Published # {} => InForce(Published, clock) # NoPrice

\* A publication decides the price from now on: plans that an older release had
\* scheduled for later do not come back and replace it.
PublicationTakesOver ==
  [][publisher # Committed /\ publisher' = Committed =>
       \A t \in clock'..MaxTime : InForce(Published, t)' = publisher.plan]_priceVars

\* Nobody waits for a snapshot for ever, whatever becomes of its load.
EveryCallIsAnswered == \A c \in Calls : call[c].stage = "waiting" ~> call[c].stage = "done"
=============================================================================
