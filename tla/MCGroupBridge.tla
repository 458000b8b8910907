--------------------------- MODULE MCGroupBridge ---------------------------
EXTENDS GroupBridge

\* Once the key has been rotated, each chain carries one message, and joiners
\* at the iterations around it and past a reload's lease.
FewAfterRotation ==
    nextChain > 2 =>
        /\ \A m \in net : m.iter = 0
        /\ \A d \in skdms : d.iter <= BATCH
=============================================================================
