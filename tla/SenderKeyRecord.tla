-------------------------- MODULE SenderKeyRecord --------------------------
(***************************************************************************)
(* Group sender keys as pure operators: libsignal protocol/sender_keys.rs  *)
(* and the chain logic of protocol/group_cipher.rs.                        *)
(*                                                                         *)
(* A state is one sender chain: its id (which here also stands for the     *)
(* signing key and the seed, both drawn with it), the iteration of the     *)
(* next message key, the skipped iterations still buffered and, as a       *)
(* history variable, the iteration it was installed at.  A record is its   *)
(* states, newest first, and the ceiling of the iterations it has leased.  *)
(***************************************************************************)
EXTENDS Integers, Sequences, FiniteSets, SequencesExt

CONSTANTS
    MAX_FORWARD_JUMPS,      \* how far ahead of its chain a message may be
    MAX_MESSAGE_KEYS,       \* skipped keys a chain keeps after a prune
    PRUNE_THRESHOLD,        \* MESSAGE_KEY_PRUNE_THRESHOLD
    MAX_SENDER_KEY_STATES,
    BATCH,                  \* SENDER_CHAIN_RESERVATION_BATCH
    MAX_FORWARD,            \* MAX_RESERVATION_FAST_FORWARD
    MAX_ITERATION           \* u32::MAX

ASSUME SenderKeyAssumption ==
    /\ MAX_FORWARD_JUMPS \in Nat
    /\ MAX_MESSAGE_KEYS \in Nat
    /\ PRUNE_THRESHOLD \in Nat
    /\ MAX_SENDER_KEY_STATES \in Nat \ {0}
    /\ BATCH \in Nat \ {0}
    /\ MAX_FORWARD \in Nat
    /\ BATCH <= MAX_FORWARD
    /\ MAX_ITERATION \in Nat

Iteration == 0 .. MAX_ITERATION
State     == [chain : Nat \ {0}, iter : Iteration, skipped : SUBSET Iteration, from : Iteration]
Record    == [states : Seq(State), ceil : Iteration]

\* No record: what load_sender_key returns as None.  A stored record always
\* has a state.
NoRecord == [states |-> <<>>, ceil |-> 0]

HasChain(r, c) == \E i \in DOMAIN r.states : r.states[i].chain = c
IndexOf(r, c)  == CHOOSE i \in DOMAIN r.states : r.states[i].chain = c
ChainOf(r, c)  == r.states[IndexOf(r, c)]

----------------------------------------------------------------------------
\* add_sender_key_state: a state already known under this chain id and key is
\* kept as it is and moved to the front, the oldest states make room, and the
\* lease is dropped.
MakeRoom(states) ==
    IF Len(states) < MAX_SENDER_KEY_STATES THEN states
    ELSE SubSeq(states, 1, MAX_SENDER_KEY_STATES - 1)

NewState(c, n) == [chain |-> c, iter |-> n, skipped |-> {}, from |-> n]


AddState(r, c, n) ==
    LET rest == SelectSeq(r.states, LAMBDA st : st.chain # c)
        st   == IF HasChain(r, c) THEN ChainOf(r, c) ELSE NewState(c, n)
    IN  [states |-> <<st>> \o MakeRoom(rest),
         ceil   |-> 0]

----------------------------------------------------------------------------
\* add_skipped_message_key: buffer, then drop the oldest when well over the
\* limit.
StoreSkipped(keys, n) ==
    LET all    == keys \cup {n}
        excess == Cardinality(all) - MAX_MESSAGE_KEYS
    IN  IF excess > PRUNE_THRESHOLD
        THEN {k \in all : Cardinality({j \in all : j < k}) >= excess} ELSE all

SkipTo(keys, from, to) ==
    LET stored[n \in from .. to] ==
            IF n = from THEN keys ELSE StoreSkipped(stored[n - 1], n - 1)
    IN  stored[to]

\* get_sender_key: whether the state yields the key of iteration n, and the
\* state afterwards.
KeyVerdict(st, n) ==
    IF n < st.iter THEN IF n \in st.skipped THEN "ok" ELSE "duplicate"
    ELSE IF n - st.iter > MAX_FORWARD_JUMPS \/ n = MAX_ITERATION THEN "invalid" ELSE "ok"

UseKeyKeepingIt(st, n) ==           \* mutant of UseKey: a late key stays
    IF n < st.iter THEN st
    ELSE [st EXCEPT !.skipped = SkipTo(@, st.iter, n), !.iter = n + 1]

UseKey(st, n) ==
    IF n < st.iter THEN [st EXCEPT !.skipped = @ \ {n}]
    ELSE [st EXCEPT !.skipped = SkipTo(@, st.iter, n), !.iter = n + 1]

\* group_decrypt on a loaded record; a chain id it does not know is refused.
DecryptVerdict(r, m) ==
    IF HasChain(r, m.chain) THEN KeyVerdict(ChainOf(r, m.chain), m.iter) ELSE "nostate"

Decrypted(r, m) ==
    [r EXCEPT !.states[IndexOf(r, m.chain)] = UseKey(@, m.iter)]

----------------------------------------------------------------------------
SatSub(a, b) == IF a > b THEN a - b ELSE 0
SatAdd(a, b) == IF a + b > MAX_ITERATION THEN MAX_ITERATION ELSE a + b

\* group_encrypt on a loaded record: step the newest chain, then lease
\* (reserve_iterations).  The step's checked_add refuses the last iteration.
CanEncrypt(r) == r.states # <<>> /\ r.states[1].iter < MAX_ITERATION
EncryptedUnsaturated(r) ==          \* mutant of Encrypted
    LET n == r.states[1].iter
    IN  [states |-> [r.states EXCEPT ![1].iter = n + 1],
         ceil   |-> IF n >= r.ceil THEN n + BATCH ELSE r.ceil]
Encrypted(r) ==
    LET n == r.states[1].iter
    IN  [states |-> [r.states EXCEPT ![1].iter = n + 1],
         ceil   |-> IF n >= r.ceil THEN SatAdd(n, BATCH) ELSE r.ceil]

\* deserialize_inner on an untrusted snapshot: the newest chain skips what the
\* lease may have spent.
ReloadFails(r) == r.states # <<>> /\ SatSub(r.ceil, r.states[1].iter) > MAX_FORWARD
Reloaded(r) ==
    IF r.states # <<>> /\ r.states[1].iter < r.ceil
    THEN [r EXCEPT !.states[1].iter = r.ceil] ELSE r
=============================================================================
