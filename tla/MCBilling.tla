----------------------------- MODULE MCBilling -----------------------------
(* A small instance of Billing: one wallet is shared by three requests, two *)
(* of which carry the same idempotency key with different bodies.           *)
EXTENDS Billing, TLC

CONSTANTS u1, r1, r2, r3, k1, k2, d1, d2, c1, c2, a1, l1

MCUsers == {u1}
MCRequests == {r1, r2, r3}
MCOwner == [r \in MCRequests |-> u1]
MCIdemKey == r1 :> k1 @@ r2 :> k1 @@ r3 :> k2
MCDigest == r1 :> d1 @@ r2 :> d2 @@ r3 :> d1
MCAmounts == {0, 1, 2}
MCFailureCodes == {c1, c2}
MCAdjustRefs == {a1}
MCAdjustAmounts == {-1, 3}
MCMinInt64 == -1
LegacyRow(u, estimated, version) ==
  [user |-> u, success |-> TRUE, estimated |-> estimated, version |-> version, cost |-> 1]
MCLegacyUsage == l1 :> LegacyRow(u1, TRUE, "token-v2")
=============================================================================
