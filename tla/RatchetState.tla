---------------------------- MODULE RatchetState ----------------------------
(***************************************************************************)
(* The receiving half of a session record as pure operators: libsignal's   *)
(* decrypt path (protocol/session_cipher.rs, state/session.rs, ratchet.rs).*)
(*                                                                         *)
(* Keys are symbolic.  A key pair is a number; a root or chain key is the  *)
(* sequence of agreements it was derived from, so that two keys are equal  *)
(* exactly when their derivations are, and a message authenticates under a *)
(* key exactly when it was made with it.  A record is a sequence of states *)
(* whose head is the current one and whose tail is the archive.            *)
(***************************************************************************)
EXTENDS Integers, Sequences, FiniteSets, SequencesExt, FiniteSetsExt

CONSTANTS
    MAX_FORWARD_JUMPS,    \* how far ahead of its chain a message may be
    MAX_MESSAGE_KEYS,     \* skipped keys a chain keeps after a prune
    PRUNE_THRESHOLD,      \* MESSAGE_KEY_PRUNE_THRESHOLD
    MAX_RECEIVER_CHAINS,
    ARCHIVED_MAX          \* ARCHIVED_STATES_MAX_LENGTH

ASSUME RatchetAssumption ==
    /\ MAX_FORWARD_JUMPS \in Nat
    /\ MAX_MESSAGE_KEYS \in Nat
    /\ PRUNE_THRESHOLD \in Nat
    /\ MAX_RECEIVER_CHAINS \in Nat \ {0}
    /\ ARCHIVED_MAX \in Nat \ {0}

\* derive_keys over the X3DH agreements: the initiator's base key is fresh,
\* so it names them.
X3DH(base) == <<{base}>>

\* RootKey::create_chain: the new root and the new chain key.
CreateChain(root, k1, k2) == Append(root, {k1, k2})

\* initialize_alice_session: the peer's signed pre-key is its first ratchet key.
AliceSession(base, eph, spk, pending) ==
    LET chain == CreateChain(X3DH(base), spk, eph)
    IN  [base |-> base, root |-> chain, eph |-> eph, chain |-> chain, idx |-> 0,
         recv |-> <<[eph |-> spk, chain |-> X3DH(base), idx |-> 0, skipped |-> {}]>>,
         pending |-> pending]

\* initialize_bob_session: everything is derived from the message's base key.
BobSession(base, spk) ==
    [base |-> base, root |-> X3DH(base), eph |-> spk, chain |-> X3DH(base), idx |-> 0,
     recv |-> <<>>, pending |-> "none"]

----------------------------------------------------------------------------
\* set_message_keys: prune the lowest counters when well over the limit, then
\* store one more.
StoreSkipped(keys, ctr) ==
    LET excess == Cardinality(keys) - MAX_MESSAGE_KEYS
        kept   == {k \in keys : Cardinality({j \in keys : j < k}) >= excess}
    IN  (IF excess > PRUNE_THRESHOLD THEN kept ELSE keys) \cup {ctr}

SkipTo(keys, from, to) ==
    LET stored[n \in from .. to] ==
            IF n = from THEN keys ELSE StoreSkipped(stored[n - 1], n - 1)
    IN  stored[to]

\* receiver_chain_state, get_or_create_chain_key: the chain of the message's
\* ratchet key, or the one that a DH ratchet step would add.
HasReceiverChain(st, m) == \E i \in DOMAIN st.recv : st.recv[i].eph = m.eph

ReceiverChain(st, m) ==
    IF HasReceiverChain(st, m)
    THEN st.recv[CHOOSE i \in DOMAIN st.recv : st.recv[i].eph = m.eph]
    ELSE [eph |-> m.eph, chain |-> CreateChain(st.root, m.eph, st.eph),
          idx |-> 0, skipped |-> {}]

\* get_or_create_message_key: whether the chain yields a key, and what is left.
KeyVerdict(c, ctr) ==
    IF ctr < c.idx THEN IF ctr \in c.skipped THEN "ok" ELSE "duplicate"
    ELSE IF ctr - c.idx > MAX_FORWARD_JUMPS THEN "invalid" ELSE "ok"

UseKey(c, ctr) ==
    IF ctr < c.idx THEN [c EXCEPT !.skipped = @ \ {ctr}]
    ELSE [c EXCEPT !.skipped = SkipTo(@, c.idx, ctr), !.idx = ctr + 1]

\* add_receiver_chain: the oldest chains make room.
AddReceiverChainUntrimmed(recv, c) == Append(recv, c)     \* mutant
AddReceiverChain(recv, c) ==
    LET all == Append(recv, c)
    IN  IF Len(all) > MAX_RECEIVER_CHAINS
        THEN SubSeq(all, Len(all) - MAX_RECEIVER_CHAINS + 1, Len(all)) ELSE all

\* decrypt_message_with_state: what it answers; anything but "ok" leaves the
\* state as it was.
StateVerdict(st, m) ==
    LET c == ReceiverChain(st, m)
        v == KeyVerdict(c, m.ctr)
    IN  IF v = "ok" /\ c.chain # m.chain THEN "badmac" ELSE v

\* The state after a successful decrypt; fresh is the ephemeral key a ratchet
\* step draws.
ReceivedUnratcheted(st, m, fresh) ==    \* mutant: no new sender chain
    LET c == UseKey(ReceiverChain(st, m), m.ctr)
        i == CHOOSE j \in DOMAIN st.recv : st.recv[j].eph = m.eph
    IN  IF HasReceiverChain(st, m)
        THEN [st EXCEPT !.recv[i] = c, !.pending = "none"]
        ELSE [st EXCEPT !.recv = AddReceiverChain(@, c), !.pending = "none"]

Received(st, m, fresh) ==
    LET c    == UseKey(ReceiverChain(st, m), m.ctr)
        root == CreateChain(c.chain, m.eph, fresh)
        i    == CHOOSE j \in DOMAIN st.recv : st.recv[j].eph = m.eph
    IN  IF HasReceiverChain(st, m)
        THEN [st EXCEPT !.recv[i] = c, !.pending = "none"]
        ELSE [base |-> st.base, root |-> root, eph |-> fresh, chain |-> root, idx |-> 0,
              recv |-> AddReceiverChain(st.recv, c), pending |-> "none"]

----------------------------------------------------------------------------
\* archive_current_state_inner, then the new current state.
PromoteDiscarding(rec, st) ==       \* mutant: the current state is lost
    <<st>> \o (IF rec = <<>> THEN <<>> ELSE Tail(rec))

Promote(rec, st) ==
    LET archived == IF rec = <<>> THEN <<>>
                    ELSE <<[rec[1] EXCEPT !.pending = "none"]>> \o Tail(rec)
        all      == <<st>> \o archived
    IN  IF Len(all) > ARCHIVED_MAX + 1 THEN Front(all) ELSE all

\* take_previous_session and promote_state; the current state stays.
MakeCurrentCopy(rec, i) == IF i = 1 THEN rec ELSE Promote(rec, rec[i])  \* mutant
MakeCurrent(rec, i) == IF i = 1 THEN rec ELSE Promote(RemoveAt(rec, i), rec[i])

\* decrypt_message_with_record for a whisper message: the states are tried in
\* order; a duplicate in one does not end the search.
Openers(rec, m) == {i \in DOMAIN rec : StateVerdict(rec[i], m) = "ok"}

WhisperVerdict(rec, m) ==
    IF Openers(rec, m) # {} THEN "ok"
    ELSE IF \E i \in DOMAIN rec : StateVerdict(rec[i], m) = "duplicate" THEN "duplicate"
    ELSE "invalid"

AfterWhisper(rec, m, fresh) ==
    [MakeCurrent(rec, Min(Openers(rec, m))) EXCEPT ![1] = Received(@, m, fresh)]

\* process_prekey: promote_matching_session, else a new session.
Matching(rec, m) == {i \in DOMAIN rec : rec[i].base = m.base}

PreparedAnew(rec, m, spk) == Promote(rec, BobSession(m.base, spk))   \* mutant

Prepared(rec, m, spk) ==
    IF Matching(rec, m) # {} THEN MakeCurrent(rec, Min(Matching(rec, m)))
    ELSE Promote(rec, BobSession(m.base, spk))

\* message_decrypt_prekey: only the session the message names is tried.  A
\* one-time pre-key that is gone ends a new session before it starts.
PreKeyVerdictUnchecked(rec, m, spk, gone) ==    \* mutant: gone is ignored
    StateVerdict(Prepared(rec, m, spk)[1], m)

PreKeyVerdict(rec, m, spk, gone) ==
    IF Matching(rec, m) = {} /\ m.pre = "otp" /\ m.base \in gone THEN "invalid"
    ELSE StateVerdict(Prepared(rec, m, spk)[1], m)

AfterPreKey(rec, m, spk, fresh) ==
    [Prepared(rec, m, spk) EXCEPT ![1] = Received(@, m, fresh)]
=============================================================================
