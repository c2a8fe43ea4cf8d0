------------------------------ MODULE MCStream ------------------------------
(* Every pair of protocols.                                                 *)
EXTENDS StreamConversion

CONSTANTS n1, n2, call

MCConversions == {c \in Protocols \X Protocols : c[1] # c[2]}
MCToResponses == {<<"messages", "responses">>}
MCSymmetry == Permutations({n1, n2})
=============================================================================
