--------------------------- MODULE MCSignalCache ----------------------------
EXTENDS SignalCache, TLC

\* The tasks are interchangeable, and the properties are safety properties.
TaskSymmetry == Permutations(Tasks)

\* Bound on the activities under way at once, among the tasks, the flush and
\* the clear.  Once the memory was lost, a flush runs beside the clear or alone.
MaxBusy == 2
FewBusy ==
    LET tasks == Cardinality({t \in Tasks : task[t].pc # "idle"})
        flushes == IF flush.pc # "idle" THEN 1 ELSE 0
        clears  == IF clearing # "no" THEN 1 ELSE 0
    IN  /\ tasks + flushes + clears <= MaxBusy
        /\ losses > 0 => tasks * flushes = 0
=============================================================================
