------------------------------- MODULE TopUp --------------------------------
(***************************************************************************)
(* Top-ups and the cashback of invitations (internal/payment and            *)
(* internal/referral), on the wallets of the billing store.  A user creates *)
(* an order and pays at the EPay provider; the provider's notifications,    *)
(* the redirect of the browser, the user and an administrator all ask the   *)
(* same transaction, Complete, to credit it.  Meanwhile administrators      *)
(* change the merchant account, the bonus tiers and the cashback rate, and  *)
(* the gateway moves money in the same wallets.                             *)
(*                                                                          *)
(* The provider is external: any order can be paid there, more than once,   *)
(* and what it reports of a payment is chosen freely.  A payment it has     *)
(* recorded can be reported any number of times, late, in any order, or     *)
(* never.                                                                   *)
(***************************************************************************)
EXTENDS Billing

CONSTANTS
  Orders,       \* top-up orders, by out_trade_no
  Payer,        \* the user of an order
  Referrer,     \* the user somebody was invited by, or Nobody
  Nobody,
  TopUpAmounts, \* amounts a user may ask for
  Channels,     \* payment methods
  Trades,       \* trade numbers of the provider
  NoTrade,
  Accounts,     \* merchant accounts: an id and its key
  Tiers,        \* bonus tiers: functions from thresholds to basis points
  RewardRates,  \* cashback rates, in basis points
  Reconcilers,  \* requests that ask the provider about an order
  MaxPayments   \* bound: payments the provider records

\* What normalizeConfig and the referral settings accept.
ValidBonusBPS(bps) == bps \in 1..10000
ValidTiers(tiers) ==
  /\ DOMAIN tiers \subseteq Nat /\ IsFiniteSet(DOMAIN tiers)
  /\ \A threshold \in DOMAIN tiers : ValidBonusBPS(tiers[threshold])
ValidRewardBPS(bps) == bps \in 0..10000

ASSUME TopUpAssumption ==
  /\ Payer \in [Orders -> Users] /\ Referrer \in [Users -> Users \cup {Nobody}] /\ Nobody \notin Users
  /\ \A u \in Users : Referrer[u] # u
  /\ TopUpAmounts \subseteq Nat \ {0} /\ RewardRates \subseteq Int /\ NoTrade \notin Trades
  /\ IsFiniteSet(Orders) /\ Channels # {} /\ Accounts # {}
  /\ \A tiers \in Tiers : ValidTiers(tiers)

VARIABLES
  order,       \* top_up_orders
  topUp,       \* top_up entries of the payer's wallet, by order
  reward,      \* referral_reward entries of the inviter's wallet, by order
  config,      \* payment_configs: the one row
  rewardBPS,   \* system_settings.referral_reward_bps, or its default
  payments,    \* what the provider has recorded
  reconciling  \* a reconciliation, between its steps

topUpVars == <<order, topUp, reward, config, rewardBPS, payments, reconciling>>
otherVars == <<entryVars, status, reserved, snapshot, failureCode, usage, adjustment, compensation>>
walletVars == <<vars, topUpVars>>

OrderRows == [status : {"absent", "pending", "paid"}, amount : Nat, credited : Nat, channel : Channels,
              trade : Trades \cup {NoTrade}, account : Accounts]
Payments == [order : Orders, trade : Trades, amount : TopUpAmounts, channel : Channels, account : Accounts]
Configs == [enabled : BOOLEAN, account : Accounts, tiers : Tiers]
Stages == [stage : {"idle"}] \cup [stage : {"reading"}, order : Orders]
  \cup [stage : {"querying"}, order : Orders, account : Accounts] \cup [stage : {"completing"}, payment : Payments]
IdleStage == [stage |-> "idle"]

TopUpTypeOK ==
  /\ TypeOK
  /\ order \in [Orders -> OrderRows]
  /\ topUp \in [Orders -> Nat] /\ reward \in [Orders -> Nat]
  /\ config \in Configs
  /\ ValidRewardBPS(rewardBPS)
  /\ payments \subseteq Payments
  /\ reconciling \in [Reconcilers -> Stages]

NoOrder ==
  [status |-> "absent", amount |-> 0, credited |-> 0, channel |-> CHOOSE c \in Channels : TRUE,
   trade |-> NoTrade, account |-> CHOOSE a \in Accounts : TRUE]

TopUpInit ==
  /\ order = [o \in Orders |-> NoOrder]
  /\ topUp = [o \in Orders |-> 0] /\ reward = [o \in Orders |-> 0]
  /\ config \in Configs
  /\ rewardBPS \in RewardRates /\ ValidRewardBPS(rewardBPS)
  /\ payments = {}
  /\ reconciling = [c \in Reconcilers |-> IdleStage]

-----------------------------------------------------------------------------
(* Orders.                                                                  *)

\* Basis points of an amount; the amounts are whole cents, 10,000 micros.
Share(amount, bps) == (amount * bps) \div 10000

\* The last tier, by threshold, that the amount reaches.
CreditedAmount(amount, tiers) ==
  LET reached == {threshold \in DOMAIN tiers : amount >= threshold}
  IN  amount + (IF reached = {} THEN 0 ELSE Share(amount, tiers[Max(reached)]))

\* A variant that takes any fraction of a cent.
AnyFraction(amount) == amount > 0

WholeCents(amount) == amount % 10000 = 0

\* What is credited is fixed here, with the tiers of this moment, and the form
\* the user pays with is signed for the account of this moment.
Create(o, amount, channel) ==
  /\ config.enabled
  /\ order[o].status = "absent"
  /\ WholeCents(amount)
  /\ order' = [order EXCEPT ![o] =
       [status |-> "pending", amount |-> amount, credited |-> CreditedAmount(amount, config.tiers),
        channel |-> channel, trade |-> NoTrade, account |-> config.account]]
  /\ UNCHANGED <<balance, topUp, reward, config, rewardBPS, payments, reconciling>>

\* The provider records a payment for the account the form was signed for.
Pay(p) ==
  /\ Cardinality(payments) < MaxPayments
  /\ order[p.order].status # "absent" /\ p.account = order[p.order].account
  /\ payments' = payments \cup {p}
  /\ UNCHANGED <<balance, order, topUp, reward, config, rewardBPS, reconciling>>

-----------------------------------------------------------------------------
(* Complete: one transaction that locks the order, then the payer's wallet, *)
(* then the inviter's.                                                      *)

Matches(p) == order[p.order].amount = p.amount /\ order[p.order].channel = p.channel
\* provider_trade_no is unique.
TradeIsFree(p) == \A o \in Orders \ {p.order} : order[o].trade # p.trade

RewardFor(o) == IF Referrer[Payer[o]] = Nobody THEN 0 ELSE Share(order[o].amount, rewardBPS)

\* A variant that does not look at what was paid.
AcceptedUnmatched(p) ==
  LET o == p.order IN
  /\ order[o].status = "pending" /\ TradeIsFree(p)
  /\ balance[Payer[o]] <= MaxInt64 - order[o].credited
  /\ RewardFor(o) > 0 => balance[Referrer[Payer[o]]] <= MaxInt64 - RewardFor(o)

CreditAccepted(p) ==
  LET o == p.order IN
  /\ Matches(p) /\ order[o].status = "pending" /\ TradeIsFree(p)
  /\ balance[Payer[o]] <= MaxInt64 - order[o].credited
  /\ RewardFor(o) > 0 => balance[Referrer[Payer[o]]] <= MaxInt64 - RewardFor(o)

\* A variant that adds the paid amount to the balance and records the credited one.
CompletePaidAmount(p) ==
  LET o == p.order IN
  /\ CreditAccepted(p)
  /\ balance' = [u \in Users |->
       IF u = Referrer[Payer[o]] THEN balance[u] + RewardFor(o)
       ELSE IF u = Payer[o] THEN balance[u] + order[o].amount ELSE balance[u]]
  /\ topUp' = [topUp EXCEPT ![o] = order[o].credited]
  /\ reward' = [reward EXCEPT ![o] = RewardFor(o)]
  /\ order' = [order EXCEPT ![o].status = "paid", ![o].trade = p.trade]

Complete(p) ==
  LET o == p.order IN
  /\ CreditAccepted(p)
  /\ balance' = [u \in Users |->
       balance[u] + (IF u = Payer[o] THEN order[o].credited ELSE 0) + (IF u = Referrer[Payer[o]] THEN RewardFor(o) ELSE 0)]
  /\ topUp' = [topUp EXCEPT ![o] = order[o].credited]
  /\ reward' = [reward EXCEPT ![o] = RewardFor(o)]
  /\ order' = [order EXCEPT ![o].status = "paid", ![o].trade = p.trade]

\* A variant that stops with the payments that are disabled.
NotificationWhileEnabled(p) ==
  /\ p \in payments /\ p.account = config.account /\ config.enabled
  /\ Complete(p)
  /\ UNCHANGED <<config, rewardBPS, payments, reconciling>>

\* HandleNotification: also when new payments are disabled, but only for the
\* account that is configured now; epayReturn takes the same way.
HandleNotification(p) ==
  /\ p \in payments /\ p.account = config.account
  /\ Complete(p)
  /\ UNCHANGED <<config, rewardBPS, payments, reconciling>>

-----------------------------------------------------------------------------
(* Reconcile: reads the order, then the configuration, asks the provider,   *)
(* and completes the order with the answer.                                 *)

Goes(c, stage) == reconciling' = [reconciling EXCEPT ![c] = stage]
OnlyReconciles == UNCHANGED <<balance, order, topUp, reward, config, rewardBPS, payments>>

ReconcileReads(c, o) ==
  /\ reconciling[c].stage = "idle" /\ order[o].status = "pending"
  /\ Goes(c, [stage |-> "reading", order |-> o])
  /\ OnlyReconciles

ReconcileAsks(c) ==
  /\ reconciling[c].stage = "reading"
  /\ Goes(c, [stage |-> "querying", order |-> reconciling[c].order, account |-> config.account])
  /\ OnlyReconciles

ReconcileAnswered(c, p) ==
  /\ reconciling[c].stage = "querying"
  /\ p \in payments /\ p.order = reconciling[c].order /\ p.account = reconciling[c].account
  /\ Goes(c, [stage |-> "completing", payment |-> p])
  /\ OnlyReconciles

\* The provider knows of no payment or does not answer, Complete refuses or
\* has been done before, or the request is gone.
ReconcileEnds(c) ==
  /\ reconciling[c].stage # "idle"
  /\ Goes(c, IdleStage)
  /\ OnlyReconciles

ReconcileCompletes(c) ==
  /\ reconciling[c].stage = "completing"
  /\ Complete(reconciling[c].payment)
  /\ Goes(c, IdleStage)
  /\ UNCHANGED <<config, rewardBPS, payments>>

-----------------------------------------------------------------------------
(* Administrators.  UpdateConfig reads the row and writes it back as a       *)
(* whole, so that it may undo an update it has not seen: any configuration  *)
(* can follow any other.                                                    *)

UpdateConfig(enabled, tiers, account) ==
  /\ config' = [enabled |-> enabled, tiers |-> tiers, account |-> account]
  /\ UNCHANGED <<balance, order, topUp, reward, rewardBPS, payments, reconciling>>

SaveRewardBPS(bps) ==
  /\ ValidRewardBPS(bps)
  /\ rewardBPS' = bps
  /\ UNCHANGED <<balance, order, topUp, reward, config, payments, reconciling>>

-----------------------------------------------------------------------------
TopUpStep ==
  \/ \E o \in Orders, amount \in TopUpAmounts, channel \in Channels : Create(o, amount, channel)
  \/ \E p \in Payments : Pay(p)
  \/ \E p \in payments : HandleNotification(p)
  \/ \E c \in Reconcilers :
       \/ \E o \in Orders : ReconcileReads(c, o)
       \/ ReconcileAsks(c) \/ ReconcileEnds(c) \/ ReconcileCompletes(c)
       \/ \E p \in payments : ReconcileAnswered(c, p)
  \/ \E enabled \in BOOLEAN, tiers \in Tiers, account \in Accounts : UpdateConfig(enabled, tiers, account)
  \/ \E bps \in RewardRates : SaveRewardBPS(bps)

TopUpNext == (TopUpStep /\ UNCHANGED otherVars) \/ (Next /\ UNCHANGED topUpVars)
TopUpSpec == Init /\ TopUpInit /\ [][TopUpNext]_walletVars

(* Somebody asks again: the provider repeats its notification until it is   *)
(* answered with success, or the user or an administrator reconciles.       *)
Reported(p) == HandleNotification(p) /\ UNCHANGED otherVars
FairTopUpSpec == TopUpSpec /\ \A p \in Payments : SF_walletVars(Reported(p))
-----------------------------------------------------------------------------
(* Properties.                                                              *)

\* An order is credited only for a payment of its amount that the provider has
\* recorded for it, and one trade number pays one order, whichever of the
\* notifications, redirects and reconciliations comes first.
PaidIsPaidFor ==
  \A o \in Orders : order[o].status = "paid" =>
    /\ \E p \in payments :
         p.order = o /\ p.trade = order[o].trade /\ p.amount = order[o].amount
    /\ \A other \in Orders \ {o} : order[other].trade # order[o].trade

\* Both wallets equal the sum of their entries, with reservations, refunds and
\* adjustments of the same wallets going on: the credit, the cashback and the
\* order are one transaction (docs/api.md:319).
ToppedUp(u) == SumOver(topUp, {o \in Orders : Payer[o] = u})
Rewarded(u) == SumOver(reward, {o \in Orders : Referrer[Payer[o]] = u})
WalletIsSumOfEntries ==
  \A u \in Users :
    balance[u] = AdjustedBy(u) + CompensatedTo(u) - DebitedFrom(u) + ToppedUp(u) + Rewarded(u)

\* A wallet is credited for an order when it is paid and at no other time: the
\* entries of an order, the rate they were computed with and the trade number
\* stay what they were, whatever is reported or configured later.
PaidIsFinal ==
  [][\A o \in Orders :
       /\ order[o].status = "paid" => order'[o] = order[o] /\ topUp'[o] = topUp[o] /\ reward'[o] = reward[o]
       /\ topUp'[o] # topUp[o] \/ reward'[o] # reward[o] =>
            order'[o].status = "paid" /\ topUp'[o] = order[o].credited]_walletVars

\* The cashback an inviter is shown as pending (Stats, computed from the sum of
\* the amounts) is what the orders would bring one by one at the same rate.
PendingOf(u) == {o \in Orders : Referrer[Payer[o]] = u /\ order[o].status = "pending"}
PendingRewardMicros(u) == Share(SumOver([o \in Orders |-> order[o].amount], PendingOf(u)), rewardBPS)
PendingRewardIsExact ==
  \A u \in Users : PendingRewardMicros(u) = SumOver([o \in Orders |-> RewardFor(o)], PendingOf(u))

\* Who has paid what was asked gets it: if the account that was paid stays
\* configured in the end and the trade number is not taken by another order,
\* the order becomes paid.
PaymentArrives ==
  \A p \in Payments :
    <>[](config.account = p.account /\ TradeIsFree(p)) =>
      (p \in payments /\ Matches(p) ~> order[p.order].status = "paid")
=============================================================================
