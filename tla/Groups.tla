------------------------------- MODULE Groups -------------------------------
(***************************************************************************)
(* What the console administers (internal/billinggroup, modelroute, apikey, *)
(* provider, providersync): billing groups, the API keys bound to them, the *)
(* routes they offer and the providers behind those.  Rows are deleted       *)
(* softly, so that foreign keys guard nothing: a group in use is kept by    *)
(* the locks and checks of these transactions.                              *)
(*                                                                          *)
(* A transaction locks rows one by one (SELECT ... FOR UPDATE), reads what  *)
(* else it decides on, and commits.  Its reads without a lock follow a lock *)
(* directly and see one snapshot, so they are made in the step that takes   *)
(* the lock; a commit in between could as well have come before.  Only Link *)
(* reads before its first lock.  A refusal is a rollback.                   *)
(*                                                                          *)
(* A group that is disabled, a user or a hidden group only refuse more, and *)
(* are left out.  A route belongs to a provider and to a model of the       *)
(* catalogue, which are read, deleted and followed by their routes in the   *)
(* same way (upstreammodel/ent_store.go:172): Providers stands for both.    *)
(***************************************************************************)
EXTENDS Naturals, FiniteSets

CONSTANTS
  Connections, \* database connections that run transactions
  Groups,      \* identifiers of billing groups
  Default,     \* the default group
  Providers,
  Routes,      \* identifiers of model routes
  Keys,        \* identifiers of API keys
  Owner,       \* the user of a key
  MaxActive,   \* active keys a user may have
  NoRoute, NoKey, Revoked

ASSUME GroupsAssumption ==
  /\ Default \in Groups /\ DOMAIN Owner = Keys /\ MaxActive \in Nat
  /\ {NoKey, Revoked} \cap Groups = {} /\ NoKey # Revoked /\ IsFiniteSet(Keys)

VARIABLES
  group,     \* kind and deletion of a group
  members,   \* the groups a composite group is made of
  route,     \* group, provider and deletion of a route
  providers, \* the providers that are not deleted
  key,       \* the group of an active key
  astray,    \* history: routes that Link has restored outside the group it locked
  tx         \* the transaction of a connection

tables == <<group, members, route, providers, key, astray>>
groupsVars == <<tables, tx>>

Rows == {"group"} \X Groups \cup {"route"} \X Routes \cup {"provider"} \X Providers \cup {"user"} \X {Owner[k] : k \in Keys}

RouteRows == [group : Groups, provider : Providers, live : BOOLEAN]
GroupCalls ==
  [op : {"CreateGroup", "UpdateGroup"}, group : Groups, members : SUBSET Groups, todo : SUBSET Groups, held : SUBSET Rows]
DeletionCalls == [op : {"DeleteGroup"}, group : Groups, todo : SUBSET Groups, held : SUBSET Rows]
KeyCalls == [op : {"CreateKey"}, key : Keys, group : Groups, todo : SUBSET Groups, held : SUBSET Rows]
RouteCalls ==
  [op : {"CreateRoute", "UpdateRoute", "Link", "Restore"}, route : Routes, group : Groups, provider : Providers,
   todo : SUBSET Groups, held : SUBSET Rows]
ProviderCalls == [op : {"DeleteProvider"}, provider : Providers, todo : SUBSET Groups, held : SUBSET Rows]
Calls == GroupCalls \cup DeletionCalls \cup KeyCalls \cup RouteCalls \cup ProviderCalls
Idle == [op |-> "idle", held |-> {}]

GroupsTypeOK ==
  /\ group \in [Groups -> {"none", "standard", "composite", "deleted"}]
  /\ members \in [Groups -> SUBSET Groups]
  /\ route \in [Routes -> RouteRows \cup {NoRoute}]
  /\ providers \subseteq Providers
  /\ key \in [Keys -> Groups \cup {NoKey, Revoked}]
  /\ astray \subseteq Routes
  /\ tx \in [Connections -> Calls \cup {Idle}]

\* The migrations create the default group.
GroupsInit ==
  /\ group = [g \in Groups |-> IF g = Default THEN "standard" ELSE "none"]
  /\ members = [g \in Groups |-> {}]
  /\ route = [r \in Routes |-> NoRoute]
  /\ providers = Providers
  /\ key = [k \in Keys |-> NoKey]
  /\ astray = {}
  /\ tx = [c \in Connections |-> Idle]

-----------------------------------------------------------------------------
Exists(g) == group[g] \in {"standard", "composite"}
Live(r) == route[r] # NoRoute /\ route[r].live
Active(k) == key[k] \in Groups

HasKeys(g) == \E k \in Keys : key[k] = g
HasRoutes(g) == \E r \in Routes : Live(r) /\ route[r].group = g
IsMember(g) == \E h \in Groups : g \in members[h]

Free(c, row) == \A d \in Connections \ {c} : row \notin tx[d].held

\* A transaction that starts with the rows it locks first.
Begins(c, call) ==
  /\ tx[c] = Idle
  /\ \A row \in call.held : Free(c, row)
  /\ tx' = [tx EXCEPT ![c] = call]
  /\ UNCHANGED tables

CanCommit(c, op) == tx[c].op = op /\ tx[c].todo = {}
Ends(c) == tx' = [tx EXCEPT ![c] = Idle]

-----------------------------------------------------------------------------
(* Transactions that lock more than one row take the groups of todo next.   *)

BelowLimit(k) == Cardinality({l \in Keys : Owner[l] = Owner[k] /\ Active(l)}) < MaxActive

\* What the row of a route is given anew must exist.
Referable(call) ==
  LET now == route[call.route] IN
  /\ call.group # now.group => group[call.group] = "standard"
  /\ call.provider # now.provider => call.provider \in providers

\* What the transaction demands of the group it locks, and of what it reads then.
Admits(call, g) ==
  CASE call.op \in {"CreateGroup", "UpdateGroup", "Link", "Restore"} -> group[g] = "standard"
    [] call.op = "CreateKey" -> Exists(g) /\ (group[g] = "composite" => members[g] # {}) /\ BelowLimit(call.key)
    [] call.op = "UpdateRoute" -> Exists(g) /\ (call.todo = {g} => Referable(call))

\* A variant that checks the group without a lock.
ReadsGroup(c) ==
  /\ tx[c] # Idle
  /\ \E g \in tx[c].todo : Admits(tx[c], g) /\ tx' = [tx EXCEPT ![c].todo = @ \ {g}]
  /\ UNCHANGED tables

LocksGroup(c) ==
  /\ tx[c] # Idle
  /\ \E g \in tx[c].todo :
       /\ Free(c, <<"group", g>>) /\ Admits(tx[c], g)
       /\ tx' = [tx EXCEPT ![c].todo = @ \ {g}, ![c].held = @ \cup {<<"group", g>>}]
  /\ UNCHANGED tables

-----------------------------------------------------------------------------
(* Billing groups.  A group with members is composite, any other standard.  *)

Kind(ms) == IF ms = {} THEN "standard" ELSE "composite"

GroupCall(op, g, ms, rows) == [op |-> op, group |-> g, members |-> ms, todo |-> ms, held |-> rows]

CreateGroup(c) == \E g \in Groups : \E ms \in SUBSET (Groups \ {g}) :
  /\ group[g] = "none"
  /\ Begins(c, GroupCall("CreateGroup", g, ms, {}))

\* Its own members when none are given.  Only a group that nobody offers routes
\* in and nobody is made of becomes composite.
UpdateGroup(c) == \E g \in Groups : \E ms \in SUBSET (Groups \ {g}) :
  /\ Exists(g) /\ (g = Default => ms = {})
  /\ ms # {} /\ group[g] = "standard" => ~HasRoutes(g) /\ ~IsMember(g)
  /\ Begins(c, GroupCall("UpdateGroup", g, ms, {<<"group", g>>}))

Put(g, ms) ==
  /\ group' = [group EXCEPT ![g] = Kind(ms)]
  /\ members' = [members EXCEPT ![g] = ms]

GroupCommits(c) ==
  /\ \/ CanCommit(c, "CreateGroup") /\ group[tx[c].group] = "none"
     \/ CanCommit(c, "UpdateGroup")
  /\ Put(tx[c].group, tx[c].members)
  /\ Ends(c) /\ UNCHANGED <<route, providers, key, astray>>

DeleteGroup(c) == \E g \in Groups :
  /\ Exists(g) /\ g # Default
  /\ ~HasKeys(g) /\ ~HasRoutes(g) /\ ~IsMember(g)
  /\ Begins(c, [op |-> "DeleteGroup", group |-> g, todo |-> {}, held |-> {<<"group", g>>}])

DeleteGroupCommits(c) ==
  /\ CanCommit(c, "DeleteGroup")
  /\ group' = [group EXCEPT ![tx[c].group] = "deleted"]
  /\ members' = [members EXCEPT ![tx[c].group] = {}]
  /\ Ends(c) /\ UNCHANGED <<route, providers, key, astray>>

-----------------------------------------------------------------------------
(* API keys.                                                                *)

\* A variant that does not lock the user.
CreateKeyUnlocked(c) == \E k \in Keys, g \in Groups :
  /\ key[k] = NoKey
  /\ Begins(c, [op |-> "CreateKey", key |-> k, group |-> g, todo |-> {g}, held |-> {}])

CreateKey(c) == \E k \in Keys, g \in Groups :
  /\ key[k] = NoKey
  /\ Begins(c, [op |-> "CreateKey", key |-> k, group |-> g, todo |-> {g}, held |-> {<<"user", Owner[k]>>}])

CreateKeyCommits(c) ==
  /\ CanCommit(c, "CreateKey")
  /\ key[tx[c].key] = NoKey
  /\ key' = [key EXCEPT ![tx[c].key] = tx[c].group]
  /\ Ends(c) /\ UNCHANGED <<group, members, route, providers, astray>>

RevokeKey == \E k \in Keys :
  /\ Active(k)
  /\ key' = [key EXCEPT ![k] = Revoked]
  /\ UNCHANGED <<group, members, route, providers, astray, tx>>

-----------------------------------------------------------------------------
(* Model routes.  A row that refers to a provider waits for whoever has     *)
(* locked that provider, but is written whatever has become of it.          *)

RouteCall(op, r, g, p, groups, rows) ==
  [op |-> op, route |-> r, group |-> g, provider |-> p, todo |-> groups, held |-> rows]

\* A variant that does not lock the group.
CreateRouteUnlocked(c) == \E r \in Routes, g \in Groups, p \in providers :
  /\ route[r] = NoRoute /\ group[g] = "standard"
  /\ Begins(c, RouteCall("CreateRoute", r, g, p, {}, {}))

CreateRoute(c) == \E r \in Routes, g \in Groups, p \in providers :
  /\ route[r] = NoRoute /\ group[g] = "standard"
  /\ Begins(c, RouteCall("CreateRoute", r, g, p, {}, {<<"group", g>>}))

\* The route first, then its group and the new one.
UpdateRoute(c) == \E r \in Routes, g \in Groups, p \in Providers :
  /\ Live(r)
  /\ Begins(c, RouteCall("UpdateRoute", r, g, p, {route[r].group, g}, {<<"route", r>>}))

\* Link looks for a route of the provider in the group, and only then locks the
\* group: what it restores is the deleted route it has found.  One that is not
\* deleted stays as it is.
Link(c) == \E r \in Routes, g \in Groups, p \in providers :
  \/ /\ route[r] = NoRoute
     /\ \A q \in Routes : route[q] # NoRoute => route[q].group # g \/ route[q].provider # p
     /\ Begins(c, RouteCall("Link", r, g, p, {g}, {}))
  \/ /\ route[r] = [group |-> g, provider |-> p, live |-> FALSE]
     /\ Begins(c, RouteCall("Restore", r, g, p, {g}, {}))

Written(call) == [group |-> call.group, provider |-> call.provider, live |-> TRUE]

RouteInserted(c) ==
  /\ CanCommit(c, "CreateRoute") \/ CanCommit(c, "Link")
  /\ route[tx[c].route] = NoRoute /\ Free(c, <<"provider", tx[c].provider>>)
  /\ route' = [route EXCEPT ![tx[c].route] = Written(tx[c])]
  /\ Ends(c) /\ UNCHANGED <<group, members, providers, key, astray>>

UpdateRouteCommits(c) ==
  /\ CanCommit(c, "UpdateRoute")
  /\ tx[c].provider # route[tx[c].route].provider => Free(c, <<"provider", tx[c].provider>>)
  /\ route' = [route EXCEPT ![tx[c].route] = Written(tx[c])]
  /\ Ends(c) /\ UNCHANGED <<group, members, providers, key, astray>>

\* By its identifier, whatever its group and its provider are by now.
RouteRestored(c) ==
  /\ CanCommit(c, "Restore")
  /\ Free(c, <<"route", tx[c].route>>)
  /\ route' = [route EXCEPT ![tx[c].route].live = TRUE]
  /\ astray' = IF route[tx[c].route].group = tx[c].group THEN astray ELSE astray \cup {tx[c].route}
  /\ Ends(c) /\ UNCHANGED <<group, members, providers, key>>

DeleteRoute == \E r \in Routes :
  /\ Live(r) /\ \A c \in Connections : <<"route", r>> \notin tx[c].held
  /\ route' = [route EXCEPT ![r].live = FALSE]
  /\ UNCHANGED <<group, members, providers, key, astray, tx>>

-----------------------------------------------------------------------------
(* Providers, and models of the catalogue.                                  *)

DeleteProvider(c) == \E p \in providers :
  Begins(c, [op |-> "DeleteProvider", provider |-> p, todo |-> {}, held |-> {<<"provider", p>>}])

RoutesOf(p) == {r \in Routes : Live(r) /\ route[r].provider = p}

DeleteProviderCommits(c) ==
  /\ CanCommit(c, "DeleteProvider")
  /\ \A r \in RoutesOf(tx[c].provider) : Free(c, <<"route", r>>)
  /\ providers' = providers \ {tx[c].provider}
  /\ route' = [r \in Routes |-> IF r \in RoutesOf(tx[c].provider) THEN [route[r] EXCEPT !.live = FALSE] ELSE route[r]]
  /\ Ends(c) /\ UNCHANGED <<group, members, key, astray>>

-----------------------------------------------------------------------------
\* A refusal, an error, a deadlock, a lost connection.
Rollback(c) == tx[c] # Idle /\ Ends(c) /\ UNCHANGED tables

GroupStep(c) == CreateGroup(c) \/ UpdateGroup(c) \/ GroupCommits(c) \/ DeleteGroup(c) \/ DeleteGroupCommits(c)
KeyStep(c) == CreateKey(c) \/ CreateKeyCommits(c)
RouteStep(c) ==
  CreateRoute(c) \/ UpdateRoute(c) \/ Link(c) \/ RouteInserted(c) \/ UpdateRouteCommits(c) \/ RouteRestored(c)
ProviderStep(c) == DeleteProvider(c) \/ DeleteProviderCommits(c)

GroupsNext ==
  \/ \E c \in Connections :
       GroupStep(c) \/ KeyStep(c) \/ RouteStep(c) \/ ProviderStep(c) \/ LocksGroup(c) \/ Rollback(c)
  \/ RevokeKey \/ DeleteRoute

GroupsSpec == GroupsInit /\ [][GroupsNext]_groupsVars
-----------------------------------------------------------------------------
(* Properties.                                                              *)

\* Nothing in use loses its group (docs/data-model.md:117): the group of an
\* active key exists, and has members if it is composite; the group of a route
\* exists and is standard.  Neither deletion nor a change of kind slips in while
\* a key or a route is created, moved or linked.  Excepted are the routes that
\* Link has restored from a read older than its locks, into a group it had not
\* locked.
GroupsInUseRemain ==
  /\ \A k \in Keys : Active(k) => Exists(key[k]) /\ (group[key[k]] = "composite" => members[key[k]] # {})
  /\ \A r \in Routes \ astray : Live(r) => group[route[r].group] = "standard"

\* A composite group is made of standard groups that exist, one level deep,
\* however creations, updates and deletions of groups interleave
\* (docs/data-model.md:255); no other group has members.
CompositesAreFlat ==
  \A g \in Groups :
    /\ members[g] # {} <=> group[g] = "composite"
    /\ \A h \in members[g] : group[h] = "standard"

\* Keys that a user creates at the same time do not exceed the limit together.
KeyLimit == \A k \in Keys : Cardinality({l \in Keys : Owner[l] = Owner[k] /\ Active(l)}) <= MaxActive

\* docs/data-model.md:116 says that the routes of a provider, or of a model of
\* the catalogue, are deleted in the transaction that deletes it.
RouteReferencesAreLive == \A r \in Routes : Live(r) => route[r].provider \in providers
=============================================================================
