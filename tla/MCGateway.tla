----------------------------- MODULE MCGateway ------------------------------
(* Requests that compete for one wallet, and requests that carry one        *)
(* idempotency key, as a client that repeats its call sends them.  A cost   *)
(* can be at the reservation or beyond it and beyond the wallet.            *)
EXTENDS Gateway, TLC

CONSTANTS u1, r1, r2, r3, a1

MCUsers == {u1}
TwoRequests == {r1, r2}
ThreeRequests == {r1, r2, r3}
MCOwner == [r \in Requests |-> u1]
OwnKeys == [r \in Requests |-> r]
SharedKey == [r \in Requests |-> 1]
MCDigest == [r \in Requests |-> IF r = r3 THEN 2 ELSE 1]
MCAmounts == {1, 3}
OneAmount == {1}
MCEstimate == [r \in Requests |-> 1]
MCFailureCodes == {ResultUnknown, StreamIncomplete, IntentUnavailable, CallFailed}
MCAdjustRefs == {a1}
MCAdjustAmounts == {2}
MCMinInt64 == -9
MCLegacyUsage == <<>>
MCUnreadable == {}
=============================================================================
