---------------------------- MODULE TopUpProofs -----------------------------
(* Top-ups: PaidIsPaidFor and PaidIsFinal for any orders, payments,         *)
(* reconciliations, merchant accounts, rates and bonus tiers, beside any    *)
(* calls of the billing store.                                              *)
EXTENDS TopUp, BillingProofs

\* What the theorems need to know of the tables.  The amount that is credited
\* may be any value, so that nothing is asked of the bonus tiers.
IsTable(f) == f = [o \in Orders |-> f[o]]

RowOf(credited, channel, account) ==
  [status : {"absent", "pending", "paid"}, amount : Nat, credited : {credited},
   channel : {channel}, trade : Trades \cup {NoTrade}, account : {account}]

Shape ==
  /\ IsTable(order) /\ IsTable(topUp) /\ IsTable(reward)
  /\ \A o \in Orders : \E credited, channel, account : order[o] \in RowOf(credited, channel, account)
  /\ payments \subseteq Payments
  /\ reconciling = [c \in Reconcilers |-> reconciling[c]]

\* Only a payment the provider has recorded is about to complete an order, an
\* order without a payment has no trade number, and PaidIsPaidFor.
AboutToComplete ==
  \A c \in Reconcilers : reconciling[c].stage = "completing" => reconciling[c].payment \in payments

UnpaidHasNoTrade == \A o \in Orders : order[o].status # "paid" => order[o].trade = NoTrade

IInv == Shape /\ AboutToComplete /\ UnpaidHasNoTrade /\ PaidIsPaidFor

-----------------------------------------------------------------------------
LEMMA PaymentFields ==
  ASSUME NEW p \in Payments
  PROVE  p.order \in Orders /\ p.trade \in Trades /\ p.amount \in TopUpAmounts
BY DEF Payments

(* What Complete does to the tables, whoever calls it.                      *)
LEMMA CompleteEffect ==
  ASSUME Shape, NEW p \in payments, Complete(p)
  PROVE  LET o == p.order IN
         /\ o \in Orders /\ p.trade \in Trades
         /\ order[o].status = "pending" /\ order[o].amount = p.amount
         /\ order'[o].status = "paid" /\ order'[o].trade = p.trade /\ order'[o].amount = p.amount
         /\ topUp'[o] = order[o].credited
         /\ \A other \in Orders \ {o} :
              /\ order[other].trade # p.trade
              /\ order'[other] = order[other] /\ topUp'[other] = topUp[other] /\ reward'[other] = reward[other]
         /\ IsTable(order)' /\ IsTable(topUp)' /\ IsTable(reward)'
         /\ \A q \in Orders : \E credited, channel, account : order'[q] \in RowOf(credited, channel, account)
<1> DEFINE o == p.order
<1> DEFINE row == [order[o] EXCEPT !.status = "paid", !.trade = p.trade]
<1>1. p \in Payments /\ o \in Orders /\ p.trade \in Trades
  BY PaymentFields DEF Shape
<1>2. /\ CreditAccepted(p)
      /\ order' = [order EXCEPT ![o] = row]
      /\ topUp' = [topUp EXCEPT ![o] = order[o].credited]
      /\ reward' = [reward EXCEPT ![o] = RewardFor(o)]
  BY DEF Complete
<1>3. order[o].status = "pending" /\ order[o].amount = p.amount
      /\ \A other \in Orders \ {o} : order[other].trade # p.trade
  BY <1>2 DEF CreditAccepted, Matches, TradeIsFree
<1>4. PICK credited, channel, account : order[o] \in RowOf(credited, channel, account)
  BY <1>1 DEF Shape
<1>5. row \in RowOf(credited, channel, account)
  BY <1>1, <1>4 DEF RowOf
<1>6. row.status = "paid" /\ row.trade = p.trade /\ row.amount = order[o].amount
  BY <1>4 DEF RowOf
<1> HIDE DEF row
<1>7. order'[o] = row /\ IsTable(order)' /\ \A other \in Orders \ {o} : order'[other] = order[other]
  BY <1>1, <1>2 DEF Shape, IsTable
<1>8. topUp'[o] = order[o].credited /\ IsTable(topUp)' /\ \A other \in Orders \ {o} : topUp'[other] = topUp[other]
  BY <1>1, <1>2 DEF Shape, IsTable
<1>9. IsTable(reward)' /\ \A other \in Orders \ {o} : reward'[other] = reward[other]
  BY <1>1, <1>2 DEF Shape, IsTable
<1>10. \A q \in Orders : \E y, z, a : order'[q] \in RowOf(y, z, a)
  BY <1>5, <1>7 DEF Shape
<1> QED BY <1>1, <1>3, <1>6, <1>7, <1>8, <1>9, <1>10

LEMMA CreateEffect ==
  ASSUME Shape, NEW o \in Orders, NEW amount \in TopUpAmounts, NEW channel \in Channels, Create(o, amount, channel)
  PROVE  /\ order[o].status = "absent" /\ order'[o].status = "pending" /\ order'[o].trade = NoTrade
         /\ \A other \in Orders \ {o} : order'[other] = order[other]
         /\ IsTable(order)'
         /\ \A q \in Orders : \E credited, ch, account : order'[q] \in RowOf(credited, ch, account)
<1> DEFINE credits == CreditedAmount(amount, config.tiers)
<1> DEFINE row == [status |-> "pending", amount |-> amount, credited |-> credits,
                   channel |-> channel, trade |-> NoTrade, account |-> config.account]
<1>1. order[o].status = "absent" /\ order' = [order EXCEPT ![o] = row]
  BY DEF Create
<1>2. amount \in Nat
  BY TopUpAssumption
<1> HIDE DEF credits
<1>3. row \in RowOf(credits, channel, config.account) /\ row.status = "pending" /\ row.trade = NoTrade
  BY <1>2 DEF RowOf
<1> HIDE DEF row
<1>4. order'[o] = row /\ IsTable(order)' /\ \A other \in Orders \ {o} : order'[other] = order[other]
  BY <1>1 DEF Shape, IsTable
<1>5. \A q \in Orders : \E y, z, a : order'[q] \in RowOf(y, z, a)
  BY <1>3, <1>4 DEF Shape
<1> QED BY <1>1, <1>3, <1>4, <1>5

-----------------------------------------------------------------------------
LEMMA IInvInit == TopUpInit => IInv
<1> SUFFICES ASSUME TopUpInit PROVE IInv
  OBVIOUS
<1>1. \A o \in Orders : order[o] = NoOrder
  BY DEF TopUpInit
<1>2. NoOrder.status = "absent" /\ NoOrder.trade = NoTrade
  BY DEF NoOrder
<1>3. NoOrder \in RowOf(0, CHOOSE c \in Channels : TRUE, CHOOSE a \in Accounts : TRUE)
  BY DEF NoOrder, RowOf
<1>4. IsTable(order) /\ IsTable(topUp) /\ IsTable(reward)
  BY DEF TopUpInit, IsTable
<1>5. Shape
  BY <1>1, <1>3, <1>4 DEF TopUpInit, Shape
<1>6. AboutToComplete
  BY DEF TopUpInit, AboutToComplete, IdleStage
<1> QED BY <1>1, <1>2, <1>5, <1>6 DEF IInv, UnpaidHasNoTrade, PaidIsPaidFor

LEMMA CompletePreserves ==
  ASSUME IInv, NEW p \in payments, Complete(p), UNCHANGED payments, (reconciling = [c \in Reconcilers |-> reconciling[c]])',
         AboutToComplete'
  PROVE  IInv'
<1> DEFINE o == p.order
<1> USE CompleteEffect DEF IInv
<1>1. Shape'
  BY DEF Shape
<1>2. UnpaidHasNoTrade'
  BY DEF UnpaidHasNoTrade
<1>3. \A q \in Orders \ {o} : order[q].status = "paid" => order[q].trade # p.trade
  OBVIOUS
<1>4. PaidIsPaidFor'
  <2> SUFFICES ASSUME NEW q \in Orders, order'[q].status = "paid"
               PROVE  /\ \E r \in payments : r.order = q /\ r.trade = order'[q].trade /\ r.amount = order'[q].amount
                      /\ \A other \in Orders \ {q} : order'[other].trade # order'[q].trade
    BY DEF PaidIsPaidFor
  <2>1. CASE q = o
    BY <2>1
  <2>2. CASE q # o
    BY <2>2 DEF PaidIsPaidFor
  <2> QED BY <2>1, <2>2
<1> QED BY <1>1, <1>2, <1>4

(* One step per action: those that change orders or payments, those of a    *)
(* reconciliation, and those that touch neither.                            *)
LEMMA IInvStep == IInv /\ [TopUpNext]_walletVars => IInv'
<1> SUFFICES ASSUME IInv, [TopUpNext]_walletVars PROVE IInv'
  OBVIOUS
<1>1. ASSUME NEW o \in Orders, NEW amount \in TopUpAmounts, NEW channel \in Channels, Create(o, amount, channel)
      PROVE  IInv'
  <2>0. UNCHANGED <<topUp, reward, payments, reconciling>>
    BY <1>1 DEF Create
  <2> USE <1>1, CreateEffect DEF IInv
  <2>1. Shape'
    BY <2>0 DEF Shape, IsTable
  <2>2. AboutToComplete' /\ UnpaidHasNoTrade'
    BY <2>0 DEF AboutToComplete, UnpaidHasNoTrade
  <2>3. \A q \in Orders : order[q].status = "paid" => order[q].trade # NoTrade
    <3>1. \A p \in payments : p.trade \in Trades
      BY PaymentFields DEF Shape
    <3> QED BY <3>1, TopUpAssumption DEF PaidIsPaidFor
  <2>4. PaidIsPaidFor'
    BY <2>0, <2>3 DEF PaidIsPaidFor
  <2> QED BY <2>1, <2>2, <2>4
<1>2. ASSUME NEW p \in Payments, Pay(p) PROVE IInv'
  <2>1. payments' = payments \cup {p} /\ UNCHANGED <<order, topUp, reward, reconciling>>
    BY <1>2 DEF Pay
  <2> QED BY <2>1 DEF IInv, Shape, IsTable, AboutToComplete, UnpaidHasNoTrade, PaidIsPaidFor
<1>3. ASSUME NEW p \in payments, HandleNotification(p) PROVE IInv'
  <2>1. Complete(p) /\ UNCHANGED <<payments, reconciling>>
    BY <1>3 DEF HandleNotification
  <2> QED BY <2>1, CompletePreserves DEF IInv, Shape, AboutToComplete
<1>4. ASSUME NEW c \in Reconcilers, NEW stage, Goes(c, stage),
             stage.stage = "completing" => stage.payment \in payments,
             UNCHANGED payments
      PROVE  (reconciling = [d \in Reconcilers |-> reconciling[d]])' /\ AboutToComplete'
  <2>1. /\ reconciling'[c] = stage
        /\ \A d \in Reconcilers \ {c} : reconciling'[d] = reconciling[d]
        /\ (reconciling = [d \in Reconcilers |-> reconciling[d]])'
    BY <1>4 DEF Goes, IInv, Shape
  <2> QED BY <1>4, <2>1 DEF IInv, AboutToComplete
<1>5. ASSUME NEW c \in Reconcilers, NEW stage, Goes(c, stage), OnlyReconciles,
             stage.stage = "completing" => stage.payment \in payments
      PROVE  IInv'
  <2>1. UNCHANGED <<order, topUp, reward, payments>>
    BY <1>5 DEF OnlyReconciles
  <2>2. (reconciling = [d \in Reconcilers |-> reconciling[d]])' /\ AboutToComplete'
    BY <1>4, <1>5, <2>1
  <2> QED BY <2>1, <2>2 DEF IInv, Shape, IsTable, UnpaidHasNoTrade, PaidIsPaidFor
<1>6. ASSUME NEW c \in Reconcilers, NEW o \in Orders, ReconcileReads(c, o) PROVE IInv'
  <2> DEFINE stage == [stage |-> "reading", order |-> o]
  <2>1. Goes(c, stage) /\ OnlyReconciles /\ stage.stage # "completing"
    BY <1>6 DEF ReconcileReads
  <2> HIDE DEF stage
  <2> QED BY <1>5, <2>1
<1>7. ASSUME NEW c \in Reconcilers, ReconcileAsks(c) PROVE IInv'
  <2> DEFINE stage == [stage |-> "querying", order |-> reconciling[c].order, account |-> config.account]
  <2>1. Goes(c, stage) /\ OnlyReconciles /\ stage.stage # "completing"
    BY <1>7 DEF ReconcileAsks
  <2> HIDE DEF stage
  <2> QED BY <1>5, <2>1
<1>8. ASSUME NEW c \in Reconcilers, NEW p \in payments, ReconcileAnswered(c, p) PROVE IInv'
  <2> DEFINE stage == [stage |-> "completing", payment |-> p]
  <2>1. Goes(c, stage) /\ OnlyReconciles /\ stage.payment = p
    BY <1>8 DEF ReconcileAnswered
  <2> HIDE DEF stage
  <2> QED BY <1>5, <2>1
<1>9. IdleStage.stage # "completing"
  BY DEF IdleStage
<1>10. ASSUME NEW c \in Reconcilers, ReconcileEnds(c) PROVE IInv'
  BY <1>5, <1>9, <1>10 DEF ReconcileEnds
<1>11. ASSUME NEW c \in Reconcilers, ReconcileCompletes(c) PROVE IInv'
  <2>1. /\ Complete(reconciling[c].payment) /\ Goes(c, IdleStage) /\ UNCHANGED payments
        /\ reconciling[c].payment \in payments
    BY <1>11 DEF ReconcileCompletes, IInv, AboutToComplete
  <2>2. (reconciling = [d \in Reconcilers |-> reconciling[d]])' /\ AboutToComplete'
    BY <1>4, <1>9, <2>1
  <2> QED BY <2>1, <2>2, CompletePreserves
<1>12. ASSUME UNCHANGED <<order, topUp, reward, payments, reconciling>> PROVE IInv'
  BY <1>12 DEF IInv, Shape, IsTable, AboutToComplete, UnpaidHasNoTrade, PaidIsPaidFor
<1>13. ASSUME NEW enabled, NEW tiers, NEW account, UpdateConfig(enabled, tiers, account) PROVE IInv'
  BY <1>12, <1>13 DEF UpdateConfig
<1>14. ASSUME NEW bps, SaveRewardBPS(bps) PROVE IInv'
  BY <1>12, <1>14 DEF SaveRewardBPS
<1>15. CASE TopUpStep
  BY <1>1, <1>2, <1>3, <1>6, <1>7, <1>8, <1>10, <1>11, <1>13, <1>14, <1>15 DEF TopUpStep
<1>16. CASE UNCHANGED topUpVars
  BY <1>12, <1>16 DEF topUpVars
<1> QED BY <1>15, <1>16 DEF TopUpNext, walletVars

(* Whatever is notified, reconciled or configured: an order is credited     *)
(* only for a payment of its amount, and a trade number pays one order.     *)
THEOREM PaidTheorem == TopUpSpec => []PaidIsPaidFor
<1>1. IInv => PaidIsPaidFor
  BY DEF IInv
<1> QED BY IInvInit, IInvStep, <1>1, PTL DEF TopUpSpec

-----------------------------------------------------------------------------
\* What a step may do to an order.
CreditedOnce(o) ==
  /\ order[o].status = "paid" => order'[o] = order[o] /\ topUp'[o] = topUp[o] /\ reward'[o] = reward[o]
  /\ topUp'[o] # topUp[o] \/ reward'[o] # reward[o] =>
       order'[o].status = "paid" /\ topUp'[o] = order[o].credited

LEMMA FinalStep ==
  ASSUME IInv, [TopUpNext]_walletVars, NEW o \in Orders
  PROVE  CreditedOnce(o)
<1>1. ASSUME NEW p \in payments, Complete(p) PROVE CreditedOnce(o)
  <2>1. CASE o = p.order
    BY <1>1, <2>1, CompleteEffect DEF IInv, CreditedOnce
  <2>2. CASE o # p.order
    BY <1>1, <2>2, CompleteEffect DEF IInv, CreditedOnce
  <2> QED BY <2>1, <2>2
<1>2. ASSUME NEW q \in Orders, NEW amount \in TopUpAmounts, NEW channel \in Channels, Create(q, amount, channel)
      PROVE  CreditedOnce(o)
  <2>1. UNCHANGED <<topUp, reward>>
    BY <1>2 DEF Create
  <2>2. q = o => order[o].status = "absent"
    BY <1>2 DEF Create
  <2>3. q # o => order'[o] = order[o]
    BY <1>2, CreateEffect DEF IInv
  <2> QED BY <2>1, <2>2, <2>3 DEF CreditedOnce
<1>3. ASSUME UNCHANGED <<order, topUp, reward>> PROVE CreditedOnce(o)
  BY <1>3 DEF CreditedOnce
<1>4. ASSUME NEW p \in payments, HandleNotification(p) PROVE CreditedOnce(o)
  BY <1>1, <1>4 DEF HandleNotification
<1>5. ASSUME NEW c \in Reconcilers, ReconcileCompletes(c) PROVE CreditedOnce(o)
  BY <1>1, <1>5 DEF ReconcileCompletes, IInv, AboutToComplete
<1>6. CASE TopUpStep
  <2>1. ASSUME NEW p \in Payments, Pay(p) PROVE CreditedOnce(o)
    BY <1>3, <2>1 DEF Pay
  <2>2. ASSUME NEW c \in Reconcilers, NEW q \in Orders, ReconcileReads(c, q) PROVE CreditedOnce(o)
    BY <1>3, <2>2 DEF ReconcileReads, OnlyReconciles
  <2>3. ASSUME NEW c \in Reconcilers, ReconcileAsks(c) \/ ReconcileEnds(c) PROVE CreditedOnce(o)
    BY <1>3, <2>3 DEF ReconcileAsks, ReconcileEnds, OnlyReconciles
  <2>4. ASSUME NEW c \in Reconcilers, NEW p \in payments, ReconcileAnswered(c, p) PROVE CreditedOnce(o)
    BY <1>3, <2>4 DEF ReconcileAnswered, OnlyReconciles
  <2>5. ASSUME NEW enabled, NEW tiers, NEW account, UpdateConfig(enabled, tiers, account) PROVE CreditedOnce(o)
    BY <1>3, <2>5 DEF UpdateConfig
  <2>6. ASSUME NEW bps, SaveRewardBPS(bps) PROVE CreditedOnce(o)
    BY <1>3, <2>6 DEF SaveRewardBPS
  <2> QED BY <1>2, <1>4, <1>5, <1>6, <2>1, <2>2, <2>3, <2>4, <2>5, <2>6 DEF TopUpStep
<1>7. CASE UNCHANGED topUpVars
  BY <1>3, <1>7 DEF topUpVars
<1> QED BY <1>6, <1>7 DEF TopUpNext, walletVars

(* A wallet is credited for an order when it is paid and at no other time,  *)
(* with the amount that was fixed when the order was made.                  *)
THEOREM FinalTheorem == TopUpSpec => PaidIsFinal
<1>1. IInv /\ [TopUpNext]_walletVars =>
        [\A o \in Orders : CreditedOnce(o)]_walletVars
  BY FinalStep
<1> QED BY IInvInit, IInvStep, <1>1, PTL DEF TopUpSpec, PaidIsFinal, CreditedOnce
-----------------------------------------------------------------------------
(***************************************************************************)
(* The wallets.  First the types, for which the credited amount has to be a *)
(* number: the highest tier that an amount reaches exists.                  *)
(***************************************************************************)
LEMMA GreatestNumber ==
  ASSUME NEW S \in SUBSET Nat, IsFiniteSet(S), S # {}
  PROVE  Max(S) \in S
<1> DEFINE Bad == {T \in SUBSET S : T # {} /\ ~\E x \in T : \A y \in T : x >= y}
<1>1. ASSUME NEW T \in Bad, \A x \in T : T \ {x} \notin Bad PROVE FALSE
  <2>1. PICK x \in T : TRUE
    OBVIOUS
  <2>2. T \ {x} # {}
    <3>1. ASSUME T = {x} PROVE FALSE
      <4>1. x >= x
        OBVIOUS
      <4> QED BY <3>1, <4>1
    <3> QED BY <2>1, <3>1
  <2>3. PICK m \in T \ {x} : \A y \in T \ {x} : m >= y
    BY <1>1, <2>1, <2>2
  <2>4. m \in Nat /\ x \in Nat
    OBVIOUS
  <2>5. CASE m >= x
    BY <2>3, <2>5
  <2>6. CASE x >= m
    <3>1. ASSUME NEW y \in T PROVE x >= y
      BY <2>3, <2>4, <2>6
    <3> QED BY <3>1
  <2> QED BY <2>4, <2>5, <2>6
<1>2. Bad = {}
  <2> HIDE DEF Bad
  <2>1. Bad \in SUBSET (SUBSET S)
    BY DEF Bad
  <2> QED BY <1>1, <2>1, MinimalSubset
<1>3. \E x \in S : \A y \in S : x >= y
  BY <1>2
<1> QED BY <1>3 DEF Max

LEMMA ShareIsNumber ==
  ASSUME NEW amount \in Nat, NEW bps \in Nat
  PROVE  Share(amount, bps) \in Nat
<1>1. amount * bps \in Nat
  OBVIOUS
<1> DEFINE product == amount * bps
<1> HIDE DEF product
<1>2. product \in Nat => product \div 10000 \in Nat
  OBVIOUS
<1> QED BY <1>1, <1>2 DEF Share, product

LEMMA CreditIsNumber ==
  ASSUME NEW amount \in Nat, NEW tiers \in Tiers
  PROVE  CreditedAmount(amount, tiers) \in Nat
<1> DEFINE reached == {threshold \in DOMAIN tiers : amount >= threshold}
<1>1. reached \in SUBSET Nat /\ IsFiniteSet(reached) /\ \A threshold \in reached : tiers[threshold] \in Nat
  <2>1. DOMAIN tiers \subseteq Nat /\ IsFiniteSet(DOMAIN tiers) /\ \A threshold \in DOMAIN tiers : tiers[threshold] \in Nat
    <3>1. ValidTiers(tiers)
      BY TopUpAssumption
    <3>2. \A share : ValidBonusBPS(share) => share \in Nat
      BY DEF ValidBonusBPS
    <3>3. DOMAIN tiers \subseteq Nat /\ IsFiniteSet(DOMAIN tiers)
      BY <3>1 DEF ValidTiers
    <3> QED BY <3>1, <3>2, <3>3 DEF ValidTiers
  <2>2. reached \subseteq DOMAIN tiers
    OBVIOUS
  <2> HIDE DEF reached
  <2>3. IsFiniteSet(reached)
    BY <2>1, <2>2, FS_Subset
  <2>4. ASSUME NEW threshold \in reached PROVE tiers[threshold] \in Nat
    <3>1. threshold \in DOMAIN tiers
      BY <2>2
    <3> QED BY <2>1, <3>1
  <2> QED BY <2>1, <2>2, <2>3, <2>4
<1> HIDE DEF reached
<1>2. reached # {} => Share(amount, tiers[Max(reached)]) \in Nat
  BY <1>1, GreatestNumber, ShareIsNumber
<1> QED BY <1>2 DEF CreditedAmount, reached

LEMMA RewardIsNumber ==
  ASSUME TopUpTypeOK, NEW o \in Orders
  PROVE  RewardFor(o) \in Nat
<1>1. order[o].amount \in Nat /\ ValidRewardBPS(rewardBPS)
  BY DEF TopUpTypeOK, OrderRows
<1>2. rewardBPS \in Nat
  BY <1>1 DEF ValidRewardBPS
<1> QED BY <1>1, <1>2, ShareIsNumber DEF RewardFor

\* An order brings its entries when it is paid, and is made of whole cents.
UnpaidHasNoEntry == \A o \in Orders : order[o].status # "paid" => topUp[o] = 0 /\ reward[o] = 0
OrdersAreCents == \A o \in Orders : WholeCents(order[o].amount)
OrdersInv == TopUpTypeOK /\ UnpaidHasNoEntry /\ OrdersAreCents

LEMMA OrdersStart == Init /\ TopUpInit => OrdersInv
<1> SUFFICES ASSUME Init, TopUpInit PROVE OrdersInv
  OBVIOUS
<1>1. NoOrder \in OrderRows /\ WholeCents(NoOrder.amount)
  BY TopUpAssumption DEF NoOrder, OrderRows, WholeCents
<1>2. TopUpTypeOK
  BY <1>1, InitInv DEF TopUpInit, TopUpTypeOK, Stages, IdleStage
<1>3. UnpaidHasNoEntry /\ OrdersAreCents
  BY <1>1 DEF TopUpInit, UnpaidHasNoEntry, OrdersAreCents
<1> QED BY <1>2, <1>3 DEF OrdersInv

(* What Complete does, with the numbers it adds.                            *)
LEMMA CompleteKeeps ==
  ASSUME OrdersInv, NEW p \in Payments, Complete(p)
  PROVE  /\ p.order \in Orders /\ topUp[p.order] = 0 /\ reward[p.order] = 0
         /\ order[p.order].credited \in Nat /\ RewardFor(p.order) \in Nat
         /\ balance' \in [Users -> Int] /\ order' \in [Orders -> OrderRows]
         /\ topUp' \in [Orders -> Nat] /\ reward' \in [Orders -> Nat]
         /\ UnpaidHasNoEntry' /\ OrdersAreCents'
<1> DEFINE o == p.order
           row == [order[o] EXCEPT !.status = "paid", !.trade = p.trade]
<1>0. TopUpTypeOK
  BY DEF OrdersInv
<1>1. o \in Orders /\ p.trade \in Trades
  BY DEF Payments
<1>2. order[o] \in OrderRows /\ order[o].status = "pending" /\ order[o].credited \in Nat /\ WholeCents(order[o].amount)
  <2>1. order[o] \in OrderRows /\ WholeCents(order[o].amount)
    BY <1>0, <1>1 DEF TopUpTypeOK, OrdersInv, OrdersAreCents
  <2>2. order[o].status = "pending"
    BY DEF Complete, CreditAccepted
  <2> QED BY <2>1, <2>2 DEF OrderRows
<1>3. row \in OrderRows /\ row.status = "paid" /\ row.amount = order[o].amount
  <2>1. ASSUME NEW this \in OrderRows, NEW trade \in Trades
        PROVE  LET paid == [this EXCEPT !.status = "paid", !.trade = trade]
               IN  paid \in OrderRows /\ paid.status = "paid" /\ paid.amount = this.amount
    BY DEF OrderRows
  <2> QED BY <1>1, <1>2, <2>1
<1>4. topUp[o] = 0 /\ reward[o] = 0
  BY <1>1, <1>2 DEF OrdersInv, UnpaidHasNoEntry
<1>5. RewardFor(o) \in Nat
  BY <1>0, <1>1, RewardIsNumber
<1>6. /\ order' = [order EXCEPT ![o] = row]
      /\ topUp' = [topUp EXCEPT ![o] = order[o].credited] /\ reward' = [reward EXCEPT ![o] = RewardFor(o)]
  BY DEF Complete
<1>7. balance' \in [Users -> Int]
  <2>1. \A u \in Users :
          balance[u] + (IF u = Payer[o] THEN order[o].credited ELSE 0) + (IF u = Referrer[Payer[o]] THEN RewardFor(o) ELSE 0) \in Int
    <3> HIDE DEF o
    <3> QED BY <1>0, <1>2, <1>5 DEF TopUpTypeOK, TypeOK
  <2> QED BY <2>1 DEF Complete
<1> HIDE DEF row
<1>8. order' \in [Orders -> OrderRows] /\ topUp' \in [Orders -> Nat] /\ reward' \in [Orders -> Nat]
  BY <1>0, <1>1, <1>2, <1>3, <1>5, <1>6 DEF TopUpTypeOK
<1>9. UnpaidHasNoEntry' /\ OrdersAreCents'
  <2>1. order'[o] = row /\ \A q \in Orders \ {o} : order'[q] = order[q] /\ topUp'[q] = topUp[q] /\ reward'[q] = reward[q]
    BY <1>0, <1>1, <1>6 DEF TopUpTypeOK
  <2>2. UnpaidHasNoEntry'
    BY <1>3, <2>1 DEF OrdersInv, UnpaidHasNoEntry
  <2>3. OrdersAreCents'
    BY <1>2, <1>3, <2>1 DEF OrdersInv, OrdersAreCents
  <2> QED BY <2>2, <2>3
<1> QED BY <1>1, <1>2, <1>4, <1>5, <1>7, <1>8, <1>9

LEMMA OrdersStep ==
  ASSUME OrdersInv, [TopUpNext]_walletVars
  PROVE  OrdersInv'
<1>0. TopUpTypeOK /\ TypeOK
  BY DEF OrdersInv, TopUpTypeOK
<1>1. CASE TopUpStep /\ UNCHANGED otherVars
  <2>1. balance' \in [Users -> Int] => TypeOK'
    BY <1>0, <1>1 DEF TypeOK, otherVars, entryVars
  <2>2. ASSUME NEW o \in Orders, NEW amount \in TopUpAmounts, NEW channel \in Channels, Create(o, amount, channel) PROVE OrdersInv'
    <3> DEFINE credits == CreditedAmount(amount, config.tiers)
               row == [status |-> "pending", amount |-> amount, credited |-> credits,
                       channel |-> channel, trade |-> NoTrade, account |-> config.account]
    <3>1. amount \in Nat /\ WholeCents(amount) /\ config.tiers \in Tiers /\ config.account \in Accounts
      BY <1>0, <2>2, TopUpAssumption DEF Create, TopUpTypeOK, Configs
    <3>2. credits \in Nat
      BY <3>1, CreditIsNumber
    <3>3. order' = [order EXCEPT ![o] = row] /\ order[o].status = "absent"
          /\ UNCHANGED <<balance, topUp, reward, config, rewardBPS, payments, reconciling>>
      BY <2>2 DEF Create
    <3> HIDE DEF credits
    <3>4. row \in OrderRows /\ row.status = "pending" /\ row.amount = amount
      BY <3>1, <3>2 DEF OrderRows
    <3> HIDE DEF row
    <3>5. TopUpTypeOK'
      BY <1>0, <2>1, <3>3, <3>4 DEF TopUpTypeOK, TypeOK
    <3>6. UnpaidHasNoEntry' /\ OrdersAreCents'
      BY <1>0, <3>1, <3>3, <3>4 DEF OrdersInv, UnpaidHasNoEntry, OrdersAreCents, TopUpTypeOK
    <3> QED BY <3>5, <3>6 DEF OrdersInv
  <2>3. ASSUME UNCHANGED <<balance, order, topUp, reward>>, config' \in Configs, ValidRewardBPS(rewardBPS'),
               payments' \subseteq Payments, reconciling' \in [Reconcilers -> Stages]
        PROVE  OrdersInv'
    <3>1. TypeOK'
      BY <1>0, <2>1, <2>3 DEF TypeOK
    <3>2. UnpaidHasNoEntry' /\ OrdersAreCents'
      BY <2>3 DEF OrdersInv, UnpaidHasNoEntry, OrdersAreCents
    <3>3. TopUpTypeOK'
      BY <1>0, <2>3, <3>1 DEF TopUpTypeOK
    <3> QED BY <3>2, <3>3 DEF OrdersInv
  <2>4. ASSUME NEW p \in Payments, Complete(p), UNCHANGED <<config, rewardBPS, payments>>, reconciling' \in [Reconcilers -> Stages]
        PROVE  OrdersInv'
    <3>1. TypeOK' /\ UnpaidHasNoEntry' /\ OrdersAreCents' /\ order' \in [Orders -> OrderRows]
          /\ topUp' \in [Orders -> Nat] /\ reward' \in [Orders -> Nat]
      BY <2>1, <2>4, CompleteKeeps
    <3>2. TopUpTypeOK'
      BY <1>0, <2>4, <3>1 DEF TopUpTypeOK
    <3> QED BY <3>1, <3>2 DEF OrdersInv
  <2>5. ASSUME NEW p \in Payments, Pay(p) PROVE OrdersInv'
    BY <1>0, <2>3, <2>5 DEF Pay, TopUpTypeOK
  <2>6. ASSUME NEW p \in payments, HandleNotification(p) PROVE OrdersInv'
    BY <1>0, <2>4, <2>6 DEF HandleNotification, TopUpTypeOK
  <2>7. ASSUME NEW c \in Reconcilers, NEW stage \in Stages, Goes(c, stage) PROVE reconciling' \in [Reconcilers -> Stages]
    BY <1>0, <2>7 DEF Goes, TopUpTypeOK
  <2>8. ASSUME NEW c \in Reconcilers, NEW stage \in Stages, Goes(c, stage), OnlyReconciles PROVE OrdersInv'
    BY <1>0, <2>3, <2>7, <2>8 DEF OnlyReconciles, TopUpTypeOK
  <2>9. ASSUME NEW c \in Reconcilers, NEW o \in Orders, ReconcileReads(c, o) PROVE OrdersInv'
    BY <2>8, <2>9 DEF ReconcileReads, Stages
  <2>10. ASSUME NEW c \in Reconcilers, ReconcileAsks(c) PROVE OrdersInv'
    <3>1. reconciling[c].order \in Orders /\ config.account \in Accounts
      BY <1>0, <2>10 DEF ReconcileAsks, TopUpTypeOK, Stages, Configs
    <3>2. [stage |-> "querying", order |-> reconciling[c].order, account |-> config.account] \in Stages
      BY <3>1 DEF Stages
    <3> QED BY <2>8, <2>10, <3>2 DEF ReconcileAsks
  <2>11. ASSUME NEW c \in Reconcilers, NEW p \in payments, ReconcileAnswered(c, p) PROVE OrdersInv'
    <3>1. [stage |-> "completing", payment |-> p] \in Stages
      BY <1>0 DEF Stages, TopUpTypeOK
    <3> QED BY <2>8, <2>11, <3>1 DEF ReconcileAnswered
  <2>12. IdleStage \in Stages
    BY DEF IdleStage, Stages
  <2>13. ASSUME NEW c \in Reconcilers, ReconcileEnds(c) PROVE OrdersInv'
    BY <2>8, <2>12, <2>13 DEF ReconcileEnds
  <2>14. ASSUME NEW c \in Reconcilers, ReconcileCompletes(c) PROVE OrdersInv'
    <3>1. reconciling[c].payment \in Payments
      BY <1>0, <2>14 DEF ReconcileCompletes, TopUpTypeOK, Stages
    <3> QED BY <2>4, <2>7, <2>12, <2>14, <3>1 DEF ReconcileCompletes
  <2>15. ASSUME NEW enabled \in BOOLEAN, NEW tiers \in Tiers, NEW account \in Accounts, UpdateConfig(enabled, tiers, account) PROVE OrdersInv'
    BY <1>0, <2>3, <2>15 DEF UpdateConfig, TopUpTypeOK, Configs
  <2>16. ASSUME NEW bps \in RewardRates, SaveRewardBPS(bps) PROVE OrdersInv'
    BY <1>0, <2>3, <2>16 DEF SaveRewardBPS, TopUpTypeOK
  <2> QED BY <1>1, <2>2, <2>5, <2>6, <2>9, <2>10, <2>11, <2>13, <2>14, <2>15, <2>16 DEF TopUpStep
<1>2. CASE [Next]_vars /\ UNCHANGED topUpVars
  <2>1. TypeOK'
    BY <1>0, <1>2, TypeStep
  <2>2. UNCHANGED <<order, topUp, reward, config, rewardBPS, payments, reconciling>>
    BY <1>2 DEF topUpVars
  <2>3. UnpaidHasNoEntry' /\ OrdersAreCents'
    BY <2>2 DEF OrdersInv, UnpaidHasNoEntry, OrdersAreCents
  <2>4. TopUpTypeOK'
    BY <1>0, <2>1, <2>2 DEF TopUpTypeOK
  <2> QED BY <2>3, <2>4 DEF OrdersInv
<1> QED BY <1>1, <1>2 DEF TopUpNext, walletVars

(* The tables of top-ups keep their types; the credited amount and the      *)
(* cashback are numbers for every table of tiers and every rate.            *)
THEOREM TopUpTypeCorrect == TopUpSpec => []TopUpTypeOK
<1>1. OrdersInv => TopUpTypeOK
  BY DEF OrdersInv
<1> QED BY <1>1, OrdersStart, OrdersStep, PTL DEF TopUpSpec

-----------------------------------------------------------------------------
(* The sums of a wallet with those of its orders.                           *)
PaidBy(u) == {o \in Orders : Payer[o] = u}
InvitedBy(u) == {o \in Orders : Referrer[Payer[o]] = u}

LEMMA OrderEntries ==
  ASSUME TopUpTypeOK, NEW u \in Users
  PROVE  /\ IsFiniteSet(PaidBy(u)) /\ IsFiniteSet(InvitedBy(u))
         /\ Numbers(topUp, PaidBy(u)) /\ Numbers(reward, InvitedBy(u))
         /\ ToppedUp(u) \in Int /\ Rewarded(u) \in Int
<1>1. IsFiniteSet(PaidBy(u)) /\ IsFiniteSet(InvitedBy(u))
  BY TopUpAssumption, FS_Subset DEF PaidBy, InvitedBy
<1>2. Numbers(topUp, PaidBy(u)) /\ Numbers(reward, InvitedBy(u))
  BY DEF TopUpTypeOK, Numbers, PaidBy, InvitedBy
<1>3. ToppedUp(u) \in Int /\ Rewarded(u) \in Int
  BY <1>1, <1>2, SumFacts DEF ToppedUp, Rewarded, PaidBy, InvitedBy
<1> QED BY <1>1, <1>2, <1>3

\* The balance moves with the entries of all kinds.
WalletMoves(u) ==
  balance'[u] - balance[u] =
    (AdjustedBy(u)' - AdjustedBy(u)) + (CompensatedTo(u)' - CompensatedTo(u)) - (DebitedFrom(u)' - DebitedFrom(u))
      + (ToppedUp(u)' - ToppedUp(u)) + (Rewarded(u)' - Rewarded(u))

(* A paid order adds its two entries, each to one wallet.                   *)
LEMMA CompleteMoves ==
  ASSUME OrdersInv, TopUpTypeOK', NEW p \in Payments, Complete(p), UNCHANGED otherVars, NEW u \in Users
  PROVE  WalletMoves(u)
<1>0. TopUpTypeOK /\ TypeOK
  BY DEF OrdersInv, TopUpTypeOK
<1>1. PICK o \in Orders, credits \in Nat, cashback \in Nat :
        o = p.order /\ credits = order[o].credited /\ cashback = RewardFor(o) /\ topUp[o] = 0 /\ reward[o] = 0
  BY CompleteKeeps
<1>2. /\ topUp' = [topUp EXCEPT ![o] = credits] /\ reward' = [reward EXCEPT ![o] = cashback]
      /\ balance'[u] = balance[u] + (IF u = Payer[o] THEN credits ELSE 0) + (IF u = Referrer[Payer[o]] THEN cashback ELSE 0)
  BY <1>1 DEF Complete
<1>3. /\ topUp'[o] = credits /\ reward'[o] = cashback
      /\ \A q \in Orders \ {o} : topUp[q] = topUp'[q] /\ reward[q] = reward'[q]
  BY <1>0, <1>2 DEF TopUpTypeOK
<1>4. Numbers(topUp', PaidBy(u)) /\ Numbers(reward', InvitedBy(u))
  BY DEF TopUpTypeOK, Numbers, PaidBy, InvitedBy
<1>5. ToppedUp(u)' = ToppedUp(u) + (IF u = Payer[o] THEN credits ELSE 0)
  <2>1. ToppedUp(u)' = SumOver(topUp', PaidBy(u)) /\ ToppedUp(u) = SumOver(topUp, PaidBy(u)) /\ ToppedUp(u) \in Int
    BY <1>0, OrderEntries DEF ToppedUp, PaidBy
  <2>2. CASE u = Payer[o]
    <3>1. o \in PaidBy(u) /\ \A q \in PaidBy(u) \ {o} : topUp[q] = topUp'[q]
      BY <1>3, <2>2 DEF PaidBy
    <3>2. SumOver(topUp', PaidBy(u)) = SumOver(topUp, PaidBy(u)) + topUp'[o] - topUp[o]
      BY <1>0, <1>4, <3>1, OrderEntries, SumMoves
    <3> QED BY <1>1, <1>3, <2>1, <2>2, <3>2
  <2>3. CASE u # Payer[o]
    <3>1. \A q \in PaidBy(u) : topUp[q] = topUp'[q]
      BY <1>3, <2>3 DEF PaidBy
    <3>2. SumOver(topUp, PaidBy(u)) = SumOver(topUp', PaidBy(u))
      BY <1>0, <3>1, OrderEntries, SumSame
    <3> QED BY <2>1, <2>3, <3>2
  <2> QED BY <2>2, <2>3
<1>6. Rewarded(u)' = Rewarded(u) + (IF u = Referrer[Payer[o]] THEN cashback ELSE 0)
  <2>1. Rewarded(u)' = SumOver(reward', InvitedBy(u)) /\ Rewarded(u) = SumOver(reward, InvitedBy(u)) /\ Rewarded(u) \in Int
    BY <1>0, OrderEntries DEF Rewarded, InvitedBy
  <2>2. CASE u = Referrer[Payer[o]]
    <3>1. o \in InvitedBy(u) /\ \A q \in InvitedBy(u) \ {o} : reward[q] = reward'[q]
      BY <1>3, <2>2 DEF InvitedBy
    <3>2. SumOver(reward', InvitedBy(u)) = SumOver(reward, InvitedBy(u)) + reward'[o] - reward[o]
      BY <1>0, <1>4, <3>1, OrderEntries, SumMoves
    <3> QED BY <1>1, <1>3, <2>1, <2>2, <3>2
  <2>3. CASE u # Referrer[Payer[o]]
    <3>1. \A q \in InvitedBy(u) : reward[q] = reward'[q]
      BY <1>3, <2>3 DEF InvitedBy
    <3>2. SumOver(reward, InvitedBy(u)) = SumOver(reward', InvitedBy(u))
      BY <1>0, <3>1, OrderEntries, SumSame
    <3> QED BY <2>1, <2>3, <3>2
  <2> QED BY <2>2, <2>3
<1>7. AdjustedBy(u)' = AdjustedBy(u) /\ CompensatedTo(u)' = CompensatedTo(u) /\ DebitedFrom(u)' = DebitedFrom(u)
  <2>1. UNCHANGED <<reservation, refund, settlement, adjustment, compensation>>
    BY DEF otherVars, entryVars
  <2>2. \A r : Debited(r)' = Debited(r)
    BY <2>1 DEF Debited
  <2> QED BY <1>0, <2>1, <2>2, EntriesStay
<1>8. balance[u] \in Int
  BY <1>0 DEF TypeOK
<1> QED BY <1>0, <1>2, <1>5, <1>6, <1>7, <1>8, Entries, OrderEntries DEF WalletMoves

(* What moves a balance with the entries of the gateway moves a wallet too. *)
LEMMA BesideOrders ==
  ASSUME TopUpTypeOK, TopUpTypeOK', NEW u \in Users, Moves(u), ToppedUp(u)' = ToppedUp(u), Rewarded(u)' = Rewarded(u)
  PROVE  WalletMoves(u)
<1>1. PICK toppedUp \in Int, rewarded \in Int : toppedUp = ToppedUp(u) /\ rewarded = Rewarded(u)
  BY OrderEntries
<1>2. toppedUp - toppedUp = 0 /\ rewarded - rewarded = 0
  OBVIOUS
<1>3. ToppedUp(u)' - ToppedUp(u) = 0 /\ Rewarded(u)' - Rewarded(u) = 0
  BY <1>1, <1>2
<1>4. PICK moved \in Int : moved = balance'[u] - balance[u]
  BY DEF TopUpTypeOK, TypeOK
<1>5. moved = (AdjustedBy(u)' - AdjustedBy(u)) + (CompensatedTo(u)' - CompensatedTo(u)) - (DebitedFrom(u)' - DebitedFrom(u))
  BY <1>4 DEF Moves
<1>6. moved = moved + 0 + 0
  OBVIOUS
<1> QED BY <1>3, <1>4, <1>5, <1>6 DEF WalletMoves

(* Steps that write neither a balance nor an entry.                         *)
LEMMA WalletRests ==
  ASSUME TopUpTypeOK, TopUpTypeOK', UNCHANGED <<balance, topUp, reward>>, UNCHANGED otherVars, NEW u \in Users
  PROVE  WalletMoves(u)
<1>0. TypeOK
  BY DEF TopUpTypeOK
<1>1. Moves(u)
  BY <1>0, NothingMoves DEF otherVars, entryVars
<1>2. ToppedUp(u)' = ToppedUp(u) /\ Rewarded(u)' = Rewarded(u)
  BY DEF ToppedUp, Rewarded
<1> QED BY <1>0, <1>1, <1>2, BesideOrders

LEMMA WalletStepMoves ==
  ASSUME OrdersInv, OrdersInv', LedgerInv, [TopUpNext]_walletVars, NEW u \in Users
  PROVE  WalletMoves(u)
<1>0. TopUpTypeOK /\ TopUpTypeOK' /\ TypeOK /\ TypeOK'
  <2>1. TopUpTypeOK /\ TopUpTypeOK'
    BY DEF OrdersInv
  <2>2. TypeOK
    BY <2>1 DEF TopUpTypeOK
  <2>3. TypeOK'
    BY <2>1 DEF TopUpTypeOK
  <2> QED BY <2>1, <2>2, <2>3
<1>1. CASE TopUpStep /\ UNCHANGED otherVars
  <2>1. CASE UNCHANGED <<balance, topUp, reward>>
    BY <1>0, <1>1, <2>1, WalletRests
  <2>2. ASSUME NEW p \in Payments, Complete(p) PROVE WalletMoves(u)
    BY <1>0, <1>1, <2>2, CompleteMoves
  <2>3. ASSUME NEW p \in payments, HandleNotification(p) PROVE WalletMoves(u)
    BY <1>0, <2>2, <2>3 DEF HandleNotification, TopUpTypeOK
  <2>4. ASSUME NEW c \in Reconcilers, ReconcileCompletes(c) PROVE WalletMoves(u)
    <3>1. reconciling[c].payment \in Payments
      BY <1>0, <2>4 DEF ReconcileCompletes, TopUpTypeOK, Stages
    <3> QED BY <2>2, <2>4, <3>1 DEF ReconcileCompletes
  <2> QED BY <1>1, <2>1, <2>3, <2>4 DEF TopUpStep, Create, Pay, ReconcileReads, ReconcileAsks, ReconcileEnds, ReconcileAnswered,
             OnlyReconciles, UpdateConfig, SaveRewardBPS
<1>2. CASE [Next]_vars /\ UNCHANGED topUpVars
  <2>1. Moves(u)
    BY <1>0, <1>2, BalanceMoves
  <2>2. topUp' = topUp /\ reward' = reward
    BY <1>2 DEF topUpVars
  <2>3. ToppedUp(u)' = ToppedUp(u) /\ Rewarded(u)' = Rewarded(u)
    BY <2>2 DEF ToppedUp, Rewarded
  <2> QED BY <1>0, <2>1, <2>3, BesideOrders
<1> QED BY <1>1, <1>2 DEF TopUpNext, walletVars

(* The ledger of the requests beside the top-ups: they do not touch it.     *)
LEMMA LedgerBesideTopUps ==
  ASSUME TypeOK, LedgerInv, [TopUpNext]_walletVars
  PROVE  LedgerInv'
<1>1. CASE UNCHANGED otherVars
  BY <1>1 DEF otherVars, entryVars, LedgerInv, RequestInv, Held, Charged, Released, HasSuccess
<1>2. CASE [Next]_vars
  BY <1>2, LedgerStep
<1> QED BY <1>1, <1>2 DEF TopUpNext, walletVars

\* The sums of a wallet are numbers.
WalletSums ==
  \A u \in Users : AdjustedBy(u) \in Int /\ CompensatedTo(u) \in Int /\ DebitedFrom(u) \in Int
    /\ ToppedUp(u) \in Int /\ Rewarded(u) \in Int /\ balance[u] \in Int

LEMMA WalletStarts ==
  ASSUME Init, TopUpInit
  PROVE  WalletIsSumOfEntries
<1> SUFFICES ASSUME NEW u \in Users
    PROVE  balance[u] = AdjustedBy(u) + CompensatedTo(u) - DebitedFrom(u) + ToppedUp(u) + Rewarded(u)
  BY DEF WalletIsSumOfEntries
<1>1. TopUpTypeOK /\ TypeOK
  BY OrdersStart DEF OrdersInv, TopUpTypeOK
<1>2. balance[u] = AdjustedBy(u) + CompensatedTo(u) - DebitedFrom(u)
  BY <1>1, BalanceStarts DEF BalanceIsSumOfEntries
<1>3. (\A o \in PaidBy(u) : topUp[o] = 0) /\ \A o \in InvitedBy(u) : reward[o] = 0
  BY DEF TopUpInit, PaidBy, InvitedBy
<1>4. ToppedUp(u) = 0 /\ Rewarded(u) = 0
  <2>1. SumOver(topUp, PaidBy(u)) = 0
    BY <1>1, <1>3, OrderEntries, SumZero
  <2>2. SumOver(reward, InvitedBy(u)) = 0
    BY <1>1, <1>3, OrderEntries, SumZero
  <2> QED BY <2>1, <2>2 DEF ToppedUp, Rewarded, PaidBy, InvitedBy
<1> QED BY <1>1, <1>2, <1>4, Entries

(* Both wallets of an order equal the sum of their entries, whatever the    *)
(* gateway, administrators and other orders do to them meanwhile.           *)
THEOREM WalletTheorem == TopUpSpec => []WalletIsSumOfEntries
<1> DEFINE WInv == OrdersInv /\ LedgerInv
<1>1. Init /\ TopUpInit => WInv /\ WalletIsSumOfEntries
  BY OrdersStart, InitInv, WalletStarts
<1>2. WInv /\ [TopUpNext]_walletVars => WInv'
  BY OrdersStep, LedgerBesideTopUps DEF OrdersInv, TopUpTypeOK
<1>3. WInv => WalletSums
  BY Entries, OrderEntries DEF WalletSums, OrdersInv, TopUpTypeOK, TypeOK
<1>4. WInv /\ WInv' /\ WalletSums /\ WalletSums' /\ WalletIsSumOfEntries /\ [TopUpNext]_walletVars => WalletIsSumOfEntries'
  <2> SUFFICES ASSUME WInv, WInv', WalletSums, WalletSums', WalletIsSumOfEntries, [TopUpNext]_walletVars, NEW u \in Users
      PROVE  balance'[u] = AdjustedBy(u)' + CompensatedTo(u)' - DebitedFrom(u)' + ToppedUp(u)' + Rewarded(u)'
    BY DEF WalletIsSumOfEntries
  <2>1. WalletMoves(u)
    BY WalletStepMoves
  <2>2. balance[u] = AdjustedBy(u) + CompensatedTo(u) - DebitedFrom(u) + ToppedUp(u) + Rewarded(u)
    BY DEF WalletIsSumOfEntries
  <2>3. PICK a \in Int, c \in Int, d \in Int, t \in Int, r \in Int, b \in Int :
          /\ a = AdjustedBy(u) /\ c = CompensatedTo(u) /\ d = DebitedFrom(u)
          /\ t = ToppedUp(u) /\ r = Rewarded(u) /\ b = balance[u]
    BY DEF WalletSums
  <2>4. PICK a1 \in Int, c1 \in Int, d1 \in Int, t1 \in Int, r1 \in Int, b1 \in Int :
          /\ a1 = AdjustedBy(u)' /\ c1 = CompensatedTo(u)' /\ d1 = DebitedFrom(u)'
          /\ t1 = ToppedUp(u)' /\ r1 = Rewarded(u)' /\ b1 = balance'[u]
    BY DEF WalletSums
  <2> HIDE DEF WInv
  <2>5. b1 - b = (a1 - a) + (c1 - c) - (d1 - d) + (t1 - t) + (r1 - r) /\ b = a + c - d + t + r
    BY <2>1, <2>2, <2>3, <2>4 DEF WalletMoves
  <2>6. b1 = a1 + c1 - d1 + t1 + r1
    BY <2>5
  <2> QED BY <2>4, <2>6
<1> QED BY <1>1, <1>2, <1>3, <1>4, PTL DEF TopUpSpec

-----------------------------------------------------------------------------
(* The cashback shown as pending: amounts are whole cents, so that a share  *)
(* of them is exact and the share of a sum is the sum of the shares.        *)
LEMMA ShareOfCents ==
  ASSUME NEW cents \in Int, NEW bps \in Int
  PROVE  Share(10000 * cents, bps) = cents * bps
<1>1. PICK product \in Int : product = cents * bps
  OBVIOUS
<1>2. (10000 * cents) * bps = 10000 * product
  BY <1>1
<1>3. (10000 * product) \div 10000 = product
  OBVIOUS
<1> QED BY <1>1, <1>2, <1>3 DEF Share

LEMMA SharesAdd ==
  ASSUME NEW S, IsFiniteSet(S), NEW bps \in Int, NEW amounts, NEW shares,
         \A x \in S : amounts[x] \in Nat /\ WholeCents(amounts[x]) /\ shares[x] = Share(amounts[x], bps)
  PROVE  Share(SumOver(amounts, S), bps) = SumOver(shares, S)
<1>1. ASSUME NEW x \in S PROVE \E c \in Int : amounts[x] = 10000 * c /\ shares[x] = c * bps
  <2>1. PICK c \in Int : amounts[x] = 10000 * c
    <3>1. \A n \in Nat : n % 10000 = 0 => n = 10000 * (n \div 10000) /\ n \div 10000 \in Int
      OBVIOUS
    <3> QED BY <3>1 DEF WholeCents
  <2>2. Share(10000 * c, bps) = c * bps
    BY ShareOfCents
  <2>3. shares[x] = Share(10000 * c, bps)
    BY <2>1
  <2> QED BY <2>1, <2>2, <2>3
<1>2. Numbers(amounts, S) /\ Numbers(shares, S)
  BY <1>1 DEF Numbers
<1> DEFINE Exact(T) == \E c \in Int : SumOver(amounts, T) = 10000 * c /\ SumOver(shares, T) = c * bps
           Bad == {T \in SUBSET S : ~Exact(T)}
<1>3. ASSUME NEW T \in Bad, \A x \in T : T \ {x} \notin Bad PROVE FALSE
  <2>0. IsFiniteSet(T) /\ Numbers(amounts, T) /\ Numbers(shares, T)
    BY <1>2, FS_Subset DEF Numbers
  <2>1. CASE T = {}
    <3>1. SumOver(amounts, T) = 0 /\ SumOver(shares, T) = 0
      BY <2>0, <2>1, SumZero
    <3>2. 0 \in Int /\ 0 = 10000 * 0 /\ 0 = 0 * bps
      OBVIOUS
    <3>3. Exact(T)
      BY <3>1, <3>2
    <3> QED BY <3>3
  <2>2. ASSUME NEW x \in T PROVE FALSE
    <3>1. PICK c \in Int : amounts[x] = 10000 * c /\ shares[x] = c * bps
      BY <1>1
    <3>2. PICK d \in Int : SumOver(amounts, T \ {x}) = 10000 * d /\ SumOver(shares, T \ {x}) = d * bps
      BY <1>3
    <3>3. SumOver(amounts, T) = 10000 * c + 10000 * d /\ SumOver(shares, T) = c * bps + d * bps
      BY <2>0, <3>1, <3>2, SumFacts
    <3>4. 10000 * c + 10000 * d = 10000 * (c + d) /\ c * bps + d * bps = (c + d) * bps /\ c + d \in Int
      OBVIOUS
    <3>5. SumOver(amounts, T) = 10000 * (c + d) /\ SumOver(shares, T) = (c + d) * bps
      BY <3>3, <3>4
    <3>6. PICK e \in Int : e = c + d
      BY <3>4
    <3>7. SumOver(amounts, T) = 10000 * e /\ SumOver(shares, T) = e * bps
      BY <3>5, <3>6
    <3> QED BY <1>3, <3>7
  <2> QED BY <2>1, <2>2
<1>4. Exact(S)
  <2>1. Bad \in SUBSET (SUBSET S)
    OBVIOUS
  <2> HIDE DEF Bad
  <2>2. Bad = {}
    BY <1>3, <2>1, MinimalSubset
  <2> QED BY <2>2 DEF Bad
<1>5. PICK c \in Int : SumOver(amounts, S) = 10000 * c /\ SumOver(shares, S) = c * bps
  BY <1>4
<1>6. Share(10000 * c, bps) = c * bps
  BY ShareOfCents
<1>7. Share(SumOver(amounts, S), bps) = Share(10000 * c, bps)
  BY <1>5
<1> QED BY <1>5, <1>6, <1>7

(* What an inviter is shown as pending is what the orders would bring one   *)
(* by one, for any orders, amounts and rate.                                *)
THEOREM PendingRewardTheorem == TopUpSpec => []PendingRewardIsExact
<1>1. OrdersInv => PendingRewardIsExact
  <2> SUFFICES ASSUME OrdersInv, NEW u \in Users
      PROVE  PendingRewardMicros(u) = SumOver([o \in Orders |-> RewardFor(o)], PendingOf(u))
    BY DEF PendingRewardIsExact
  <2> DEFINE amounts == [o \in Orders |-> order[o].amount]
             shares == [o \in Orders |-> RewardFor(o)]
  <2>1. TopUpTypeOK /\ rewardBPS \in Int /\ \A o \in Orders : order[o].amount \in Nat /\ WholeCents(order[o].amount)
    <3>1. TopUpTypeOK /\ OrdersAreCents
      BY DEF OrdersInv
    <3>2. ValidRewardBPS(rewardBPS) /\ order \in [Orders -> OrderRows]
      BY <3>1 DEF TopUpTypeOK
    <3>3. rewardBPS \in Int
      BY <3>2 DEF ValidRewardBPS
    <3>4. \A o \in Orders : order[o].amount \in Nat /\ WholeCents(order[o].amount)
      BY <3>1, <3>2 DEF OrderRows, OrdersAreCents
    <3> QED BY <3>1, <3>3, <3>4
  <2>2. IsFiniteSet(PendingOf(u)) /\ PendingOf(u) \subseteq Orders
    BY TopUpAssumption, FS_Subset DEF PendingOf
  <2>3. \A o \in PendingOf(u) : RewardFor(o) = Share(order[o].amount, rewardBPS)
    BY TopUpAssumption DEF PendingOf, RewardFor
  <2>4. \A o \in PendingOf(u) :
          amounts[o] \in Nat /\ WholeCents(amounts[o]) /\ shares[o] = Share(amounts[o], rewardBPS)
    BY <2>1, <2>2, <2>3
  <2> HIDE DEF amounts, shares
  <2>5. Share(SumOver(amounts, PendingOf(u)), rewardBPS) = SumOver(shares, PendingOf(u))
    BY <2>1, <2>2, <2>4, SharesAdd
  <2> QED BY <2>5 DEF PendingRewardMicros, amounts, shares
<1> QED BY <1>1, OrdersStart, OrdersStep, PTL DEF TopUpSpec
=============================================================================
