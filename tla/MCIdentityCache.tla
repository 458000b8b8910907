-------------------------- MODULE MCIdentityCache --------------------------
(***************************************************************************)
(* Two identity keys; a friend with two names, and an account whose        *)
(* fingerprint collides with the peer's.  The journal holds three names.   *)
(***************************************************************************)
EXTENDS IdentityCache, TLC

CONSTANTS k1, k2, peer, double, friend, alias

MCKeys        == {k1, k2}
MCUsers       == {peer, double, friend, alias}
MCFingerprint == (peer :> 1) @@ (double :> 1) @@ (friend :> 2) @@ (alias :> 3)
MCAliases     == {<<friend, alias>>, <<double>>}

\* A saturated journal refuses every token: no need for all the rest as well.
QuietWhenSaturated ==
    log.generation = MAX_GENERATION => flush.pc = "idle" /\ read.pc = "idle"

Symmetry == Permutations(MCKeys)
=============================================================================
