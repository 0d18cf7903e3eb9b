---------------------------- MODULE MCAdminLogin ----------------------------
(* AdminLogin with two policies that differ in everything they decide.     *)
EXTENDS AdminLogin, TLC

CONSTANTS r1, r2, r3, k1, k2, k3

\* One failure locks out for longer than a window; two for less, without a token.
MCStrict == [protect |-> TRUE, max |-> 1, lockout |-> 3, rpm |-> 1, sso |-> FALSE]
MCOpen == [protect |-> FALSE, max |-> 2, lockout |-> 1, rpm |-> 2, sso |-> TRUE]
MCPolicies == {MCStrict, MCOpen}
MCEnv == [protect |-> TRUE, max |-> 2, lockout |-> 3, rpm |-> 2, sso |-> FALSE]

LoginSymmetry == Permutations({r1, r2, r3}) \cup Permutations({k1, k2, k3})
=============================================================================
