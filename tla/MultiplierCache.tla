-------------------------- MODULE MultiplierCache ---------------------------
(***************************************************************************)
(* The snapshots of the billing groups' multipliers, billinggroup.Service.  *)
(* Every method runs its transaction first and puts what it returned into   *)
(* the cache afterwards, without a lock over both; a request that finds no  *)
(* snapshot fills it with what was read when its key was authenticated or   *)
(* its route resolved.  One process.  A listing that returns several groups *)
(* puts each of them into the cache under a lock of its own: the methods    *)
(* here are about one group.                                                *)
(***************************************************************************)
EXTENDS Naturals

CONSTANTS
  BillingGroups,
  Multipliers,  \* summaries of a group, as far as they give a multiplier
  Callers,      \* calls of the service and requests, one at a time each
  Deleted,      \* no multiplier: the group is deleted,
  NoSnapshot    \* or not in the cache

ASSUME MultiplierCacheAssumption ==
  Deleted \notin Multipliers /\ NoSnapshot \notin Multipliers /\ Deleted # NoSnapshot

VARIABLES
  stored,     \* billing_groups
  snapshot,   \* Service.cache
  removed,    \* Service.removed
  step,       \* what each caller does next: the group, and what it has read of it
  overlapped  \* groups whose last change had other calls under way beside it

multiplierVars == <<stored, snapshot, removed, step, overlapped>>

AtRest == [does |-> "rest"]
About(does, g, m) == [does |-> does, group |-> g, seen |-> m]

MultiplierTypeOK ==
  /\ stored \in [BillingGroups -> Multipliers \cup {Deleted}]
  /\ snapshot \in [BillingGroups -> Multipliers \cup {NoSnapshot}]
  /\ removed \subseteq BillingGroups /\ overlapped \subseteq BillingGroups
  /\ step \in [Callers -> {AtRest} \cup [does : {"remember", "resolve"}, group : BillingGroups, seen : Multipliers]
                                  \cup [does : {"forget"}, group : BillingGroups, seen : {Deleted}]]

MultiplierInit ==
  /\ stored \in [BillingGroups -> Multipliers]
  /\ snapshot = [g \in BillingGroups |-> NoSnapshot]
  /\ removed = {} /\ overlapped = {}
  /\ step = [c \in Callers |-> AtRest]

\* Some call other than c is between its transaction and the cache.
Busy(g) == \E c \in Callers : step[c] # AtRest /\ step[c].group = g

Overlaps(g) == overlapped' = IF Busy(g) THEN overlapped \cup {g} ELSE overlapped \ {g}

Does(c, next) == step[c] = AtRest /\ step' = [step EXCEPT ![c] = next]

\* Update and SetStatus: a change, even to the same value.
Change(c, g, m) ==
  /\ Does(c, About("remember", g, m))
  /\ stored[g] # Deleted /\ stored' = [stored EXCEPT ![g] = m]
  /\ Overlaps(g)
  /\ UNCHANGED <<snapshot, removed>>

DeleteGroup(c, g) ==
  /\ Does(c, About("forget", g, Deleted))
  /\ stored[g] # Deleted /\ stored' = [stored EXCEPT ![g] = Deleted]
  /\ Overlaps(g)
  /\ UNCHANGED <<snapshot, removed>>

\* List, and Create, which reads back what it has just written.
ListGroups(c, g) ==
  /\ stored[g] # Deleted
  /\ Does(c, About("remember", g, stored[g]))
  /\ UNCHANGED <<stored, snapshot, removed, overlapped>>

\* A request has read its group; MultiplierAt follows.
Authenticate(c, g) ==
  /\ stored[g] # Deleted
  /\ Does(c, About("resolve", g, stored[g]))
  /\ UNCHANGED <<stored, snapshot, removed, overlapped>>

Doing(c, what) == step[c].does = what /\ step' = [step EXCEPT ![c] = AtRest]

\* A variant without the tombstones of deleted groups.
RememberAlways(c) ==
  /\ Doing(c, "remember")
  /\ snapshot' = [snapshot EXCEPT ![step[c].group] = step[c].seen]
  /\ UNCHANGED <<stored, removed, overlapped>>

Remember(c) ==
  /\ Doing(c, "remember")
  /\ LET g == step[c].group
     IN  snapshot' = IF g \in removed THEN snapshot ELSE [snapshot EXCEPT ![g] = step[c].seen]
  /\ UNCHANGED <<stored, removed, overlapped>>

Forget(c) ==
  /\ Doing(c, "forget")
  /\ snapshot' = [snapshot EXCEPT ![step[c].group] = NoSnapshot]
  /\ removed' = removed \cup {step[c].group}
  /\ UNCHANGED <<stored, overlapped>>

\* MultiplierAt fills an empty place, unless the group was deleted.
Resolve(c) ==
  /\ Doing(c, "resolve")
  /\ LET g == step[c].group
     IN  snapshot' = IF g \in removed \/ snapshot[g] # NoSnapshot THEN snapshot
                     ELSE [snapshot EXCEPT ![g] = step[c].seen]
  /\ UNCHANGED <<stored, removed, overlapped>>

MultiplierNext ==
  \E c \in Callers :
    \/ \E g \in BillingGroups : DeleteGroup(c, g) \/ ListGroups(c, g) \/ Authenticate(c, g)
                                \/ \E m \in Multipliers : Change(c, g, m)
    \/ Remember(c) \/ Forget(c) \/ Resolve(c)

MultiplierSpec == MultiplierInit /\ [][MultiplierNext]_multiplierVars

-----------------------------------------------------------------------------
(* When no call is under way, a snapshot is what the database holds, unless *)
(* a call was under way while the group was last changed; and a deleted     *)
(* group has none, whatever overlapped.  The exception is real: a listing   *)
(* that read before an update and remembers after it leaves the old         *)
(* multiplier until the next change or listing, against docs/api.md:272.    *)
SnapshotIsStored ==
  \A g \in BillingGroups :
    ~Busy(g) =>
      /\ g \notin overlapped => snapshot[g] \in {NoSnapshot, stored[g]}
      /\ stored[g] = Deleted => snapshot[g] = NoSnapshot
=============================================================================
