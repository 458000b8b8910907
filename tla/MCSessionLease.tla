--------------------------- MODULE MCSessionLease ---------------------------
EXTENDS SessionLease

\* Bound on the ciphertexts ever produced.  Four exhaust one chain, or spend
\* from three and cross a batch in one of them.
MaxSent == 4
FewSent == Cardinality(outbox \cup wire) <= MaxSent
=============================================================================
