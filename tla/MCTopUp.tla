------------------------------ MODULE MCTopUp -------------------------------
(* An invited user with two orders, the inviter, and one request of the     *)
(* gateway in the invited user's wallet.  Amounts are in micros, 10,000 to  *)
(* the cent, and one of them is no whole number of cents.                   *)
EXTENDS TopUp, TLC

CONSTANTS inviter, user, r1, k1, d1, c1, a1, o1, o2, alipay, wxpay, t1, t2, m1, m2, q1

MCRequests == {r1}
MCOwner == r1 :> user
MCIdemKey == r1 :> k1
MCDigest == r1 :> d1
NoLegacyUsage == [l \in {} |-> 0]
MCPayer == [o \in {o1, o2} |-> user]
MCReferrer == user :> inviter @@ inviter :> Nobody
MCTiers == {20000 :> 1000}
NoRequests == [r \in {} |-> user]
MCMinInt64 == -10000
=============================================================================
