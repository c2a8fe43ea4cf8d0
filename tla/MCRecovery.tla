----------------------------- MODULE MCRecovery -----------------------------
(* Two operations of one wallet under unconstrained callers, who may also   *)
(* leave a failed usage row under an operation, so that it cannot settle.   *)
EXTENDS Recovery, TLC

CONSTANTS u1, r1, r2, c1, a1

MCUsers == {u1}
MCRequests == {r1, r2}
MCOwner == [r \in MCRequests |-> u1]
MCIdemKey == [r \in MCRequests |-> r]
MCDigest == [r \in MCRequests |-> r]
MCAmounts == {1, 2}
MCFailureCodes == {c1}
MCAdjustRefs == {a1}
MCAdjustAmounts == {3}
MCMinInt64 == -5
MCLegacyUsage == <<>>
NoneUnreadable == {}
OneUnreadable == {r1}
=============================================================================
