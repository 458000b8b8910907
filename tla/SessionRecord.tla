--------------------------- MODULE SessionRecord ---------------------------
(***************************************************************************)
(* The sending half of a session record and its counter lease, as pure     *)
(* operators: libsignal protocol/state/session.rs and counter_lease.rs.    *)
(*                                                                         *)
(* A session state is reduced to its sender chain: the identity of the     *)
(* chain (two chains with the same identity derive the same message keys)  *)
(* and the index of the next message key.  A record is the current state,  *)
(* the archived states (newest first) and the exclusive ceiling of the     *)
(* counters that a durable snapshot may already have published.            *)
(***************************************************************************)
EXTENDS Integers, Sequences

CONSTANTS
    BATCH,            \* SENDER_CHAIN_RESERVATION_BATCH
    MAX_FORWARD,      \* MAX_RESERVATION_FAST_FORWARD
    ARCHIVED_MAX,     \* ARCHIVED_STATES_MAX_LENGTH
    MAX_COUNTER       \* u32::MAX

ASSUME LeaseAssumption ==
    /\ BATCH \in Nat \ {0}
    /\ MAX_FORWARD \in Nat
    /\ BATCH <= MAX_FORWARD
    /\ ARCHIVED_MAX \in Nat \ {0}
    /\ MAX_COUNTER \in Nat

\* `sender_chain = None`: such a state can neither encrypt nor ratchet.
NoChain == 0

Counter == 0 .. MAX_COUNTER
State   == [chain : Nat, idx : Counter]
Record  == [cur : State, prev : Seq(State), ceil : Counter]

HasChain(st) == st.chain # NoChain

\* A chain from a fresh random ephemeral key; its identity is new.
FreshState(c) == [chain |-> c, idx |-> 0]
DroppedState  == [chain |-> NoChain, idx |-> 0]

\* A record that covers nothing: what stands in a slot that holds no record.
EmptyRecord == [cur |-> DroppedState, prev |-> <<>>, ceil |-> 0]

----------------------------------------------------------------------------
\* saturating_sub, saturating_add and min on u32
SatSub(a, b) == IF a > b THEN a - b ELSE 0
SatAdd(a, b) == IF a + b > MAX_COUNTER THEN MAX_COUNTER ELSE a + b
Min2(a, b)   == IF a < b THEN a ELSE b

\* fast_forward_sender_chain refuses a target too far ahead of the chain.
FastForwardFails(st, target) ==
    HasChain(st) /\ SatSub(target, st.idx) > MAX_FORWARD

FastForward(st, target) ==
    IF HasChain(st) /\ st.idx < target THEN [st EXCEPT !.idx = target] ELSE st

FastForwardOrDrop(st, target) ==
    IF FastForwardFails(st, target) THEN DroppedState ELSE FastForward(st, target)

----------------------------------------------------------------------------
\* archive_current_state_inner: the oldest archived state makes room.
Archive(prev, st) ==
    <<st>> \o (IF Len(prev) >= ARCHIVED_MAX
               THEN SubSeq(prev, 1, Len(prev) - 1) ELSE prev)

\* take_previous_session
Without(prev, i) == SubSeq(prev, 1, i - 1) \o SubSeq(prev, i + 1, Len(prev))

\* CounterLease::reserve, and whether it raises the pending flag
MustReserve(r, spent) == spent >= r.ceil
ReserveUnsaturated(r, spent) ==     \* mutant of Reserve
    IF MustReserve(r, spent) THEN [r EXCEPT !.ceil = spent + BATCH] ELSE r
Reserve(r, spent) ==
    IF MustReserve(r, spent) THEN [r EXCEPT !.ceil = SatAdd(spent, BATCH)] ELSE r

\* message_encrypt_inner on a loaded record: advance the chain, then lease.
\* next_chain_key's checked_add refuses the last index.
CanEncrypt(r) == HasChain(r.cur) /\ r.cur.idx < MAX_COUNTER
Encrypted(r)  == Reserve([r EXCEPT !.cur.idx = @ + 1], r.cur.idx)

\* A DH ratchet replaces the current sender chain and rebases the lease.
RatchetedKeepingLease(r, c) == [r EXCEPT !.cur = FreshState(c)]  \* mutant
Ratcheted(r, c) ==
    [cur |-> FreshState(c), prev |-> r.prev, ceil |-> Min2(r.ceil, BATCH)]

\* promote_state: archive the current state as it is, burn the lease into the
\* promoted one.  A ceiling of zero burns nothing.
PromoteStateUnburned(r, st) ==      \* mutant of PromoteState
    [cur |-> st, prev |-> Archive(r.prev, r.cur), ceil |-> r.ceil]
PromoteState(r, st) ==
    [cur  |-> FastForwardOrDrop(st, r.ceil),
     prev |-> Archive(r.prev, r.cur),
     ceil |-> r.ceil]

\* promote_fresh_state: burn the lease into the state being archived, then
\* drop it.
PromoteFreshState(r, st) ==
    [cur  |-> st,
     prev |-> Archive(r.prev, FastForwardOrDrop(r.cur, r.ceil)),
     ceil |-> 0]

\* A new session on chain c, in a new record when there was none
Renewed(r, c) ==
    IF r = EmptyRecord THEN [EmptyRecord EXCEPT !.cur = FreshState(c)]
    ELSE PromoteFreshState(r, FreshState(c))

\* deserialize_inner: only an untrusted snapshot is advanced past its lease,
\* and only in its current state.
ReloadFails(r) == FastForwardFails(r.cur, r.ceil)
ReloadedAsIs(r) == r                \* mutant of Reloaded
Reloaded(r)    == [r EXCEPT !.cur = FastForward(@, r.ceil)]

\* q is what one operation of a session store's user makes of the record r:
\* nothing new for its sender chain, an encrypt, or a new session.
Extends(r, q) ==
    \/ q = r
    \/ CanEncrypt(r) /\ q = Encrypted(r)
    \/ HasChain(q.cur) /\ q = Renewed(r, q.cur.chain)

----------------------------------------------------------------------------
(* What the invariants say of a record.                                     *)

\* No state of r would encrypt under a key of S.
Unused(r, S) ==
    /\ <<r.cur.chain, r.cur.idx>> \notin S
    /\ \A i \in 1 .. Len(r.prev) : <<r.prev[i].chain, r.prev[i].idx>> \notin S

\* Every chain of the record was created before, and is named once in it.
Known(r, n) ==
    /\ r.cur.chain < n
    /\ \A i \in 1 .. Len(r.prev) : r.prev[i].chain < n

Distinct(r) ==
    \A i \in 1 .. Len(r.prev) : HasChain(r.prev[i]) =>
        /\ r.prev[i].chain # r.cur.chain
        /\ \A j \in 1 .. Len(r.prev) : r.prev[j].chain = r.prev[i].chain => i = j

\* The lease runs at most one batch ahead of the live chain.
WithinBatch(r) == HasChain(r.cur) => r.ceil <= r.cur.idx + BATCH

WellFormed(r, n) == Known(r, n) /\ Distinct(r) /\ WithinBatch(r)

\* No state of the record would repeat one of the messages in S.
Exact(r, S) ==
    \A m \in S :
        /\ m[1] = r.cur.chain => m[2] < r.cur.idx
        /\ \A i \in 1 .. Len(r.prev) : m[1] = r.prev[i].chain => m[2] < r.prev[i].idx

\* The same, once the record is recovered: the current chain skips its lease.
Covers(r, m) ==
    /\ m[1] = r.cur.chain => m[2] < r.cur.idx \/ m[2] < r.ceil
    /\ \A i \in 1 .. Len(r.prev) : m[1] = r.prev[i].chain => m[2] < r.prev[i].idx
=============================================================================
