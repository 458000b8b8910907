---------------------------- MODULE SessionStore ----------------------------
(***************************************************************************)
(* What a session store promises to its users for one address: a register  *)
(* with one owner at a time.  A commit extends the value that its owner    *)
(* checked out, a deletion ends the ownership, and only a loss of memory   *)
(* may take the register back.                                             *)
(***************************************************************************)
EXTENDS SessionRecord

CONSTANTS Tasks, NoTask

VARIABLES
    value,      \* the record, EmptyRecord when there is none
    owner,      \* who has it checked out, or NoTask
    losses      \* how often the memory was lost

vars == <<value, owner, losses>>

Init ==
    /\ value = EmptyRecord
    /\ owner = NoTask
    /\ losses = 0

Acquire ==
    /\ owner = NoTask
    /\ owner' \in Tasks
    /\ UNCHANGED <<value, losses>>

Commit ==
    /\ owner # NoTask
    /\ owner' = NoTask
    /\ Extends(value, value')
    /\ UNCHANGED losses

Delete ==
    /\ owner' = NoTask
    /\ value' = EmptyRecord
    /\ UNCHANGED losses

Lose ==
    /\ owner' = NoTask
    /\ losses' = losses + 1

Next == Acquire \/ Commit \/ Delete \/ Lose

Spec == Init /\ [][Next]_vars
=============================================================================
