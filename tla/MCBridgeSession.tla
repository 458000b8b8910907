-------------------------- MODULE MCBridgeSession ---------------------------
EXTENDS BridgeSession

\* Bound on the ciphertexts returned.  The last chain is there to archive and
\* evict the others, and encrypts at most once.
MaxSent == 1
FewSent ==
    /\ Cardinality(wire) <= MaxSent
    /\ \A r \in {obj.cache, row} : r.cur.chain = MaxChains => r.cur.idx = 0
=============================================================================
