---------------------------- MODULE BridgeSession ----------------------------
(***************************************************************************)
(* The session of one peer behind the bridge: SessionCipher and            *)
(* SessionBuilder objects over the application's storage.  An object keeps *)
(* the record in a cache of its own, which takes a new record before the   *)
(* storage has it; a call awaits the storage between its steps, and the    *)
(* object refuses another call meanwhile.  The application uses one object *)
(* at a time for the peer, for one call or for many.  A store or a pre-key *)
(* removal may fail, with or without effect, and the process may restart   *)
(* between any two steps.                                                  *)
(*                                                                         *)
(* A record is its sending half (SessionRecord).  Which session a chain    *)
(* belongs to is kept in base: a session that the peer opened is known by  *)
(* the base key of its pre-key messages.                                   *)
(***************************************************************************)
EXTENDS SessionRecord, FiniteSets

CONSTANTS
    Sessions,      \* the sessions that the peer opens with pre-key messages
    OneTime,       \* those whose messages name a one-time pre-key, each its own
    OwnSession,    \* any session that this device opened
    MaxChains      \* bound on the chains ever created

ASSUME BridgeAssumption ==
    /\ OneTime \subseteq Sessions
    /\ OwnSession \notin Sessions
    /\ MaxChains \in Nat

VARIABLES
    row,          \* the stored record, EmptyRecord when there is none
    keys,         \* the one-time pre-keys in the storage, named by their session
    obj,          \* the object in use
    base,         \* the session of each chain
    opened,       \* the sessions of which a message decrypted
    wire,         \* ciphertexts returned to the application: <<chain, counter>>
    nextChain     \* identity of the next fresh chain

vars == <<row, keys, obj, base, opened, wire, nextChain>>

NoMessage == <<NoChain, 0>>

\* What a call does, the session of its message, and the ciphertext or the
\* pre-key it has to hand out or to remove once its record is stored.
Call == [kind : {"none", "encrypt", "prekey", "whisper", "bundle", "query"},
         sess : Sessions \cup {OwnSession},
         out : Nat \X Counter,
         consumed : BOOLEAN]
NoCall == [kind |-> "none", sess |-> OwnSession, out |-> NoMessage, consumed |-> FALSE]

Gone == [pc |-> "gone", class |-> "none", cache |-> EmptyRecord, call |-> NoCall]

TypeOK ==
    /\ row \in Record
    /\ keys \subseteq OneTime
    /\ obj \in [pc : {"gone", "idle", "loaded", "storing", "removing"},
                class : {"none", "cipher", "builder"}, cache : Record, call : Call]
    /\ base \in [1 .. MaxChains -> Sessions \cup {OwnSession}]
    /\ opened \subseteq Sessions
    /\ wire \subseteq Nat \X Counter
    /\ nextChain \in 1 .. MaxChains + 1

Init ==
    /\ row = EmptyRecord
    /\ keys = OneTime
    /\ obj = Gone
    /\ base = [c \in 1 .. MaxChains |-> OwnSession]
    /\ opened = {}
    /\ wire = {}
    /\ nextChain = 1

----------------------------------------------------------------------------
\* new SessionCipher, new SessionBuilder
Open(class) ==
    /\ obj.pc = "gone"
    /\ obj' = [Gone EXCEPT !.pc = "idle", !.class = class]
    /\ UNCHANGED <<row, keys, base, opened, wire, nextChain>>

\* The application drops the object.
Close ==
    /\ obj.pc = "idle"
    /\ obj' = Gone
    /\ UNCHANGED <<row, keys, base, opened, wire, nextChain>>

\* The process restarts.
Restart ==
    /\ obj.pc # "gone"
    /\ obj' = Gone
    /\ UNCHANGED <<row, keys, base, opened, wire, nextChain>>

Serves(class) ==
    IF class = "builder" THEN {"bundle"} ELSE {"encrypt", "prekey", "whisper", "query"}

\* A call up to the end of load_session, which prefers the cache.
Begin(kind, s) ==
    /\ obj.pc = "idle"
    /\ kind \in Serves(obj.class)
    /\ obj.cache # EmptyRecord \/ ~ReloadFails(row)
    /\ obj' = [obj EXCEPT !.pc    = "loaded",
                          !.cache = IF @ # EmptyRecord THEN @ ELSE Reloaded(row),
                          !.call  = [NoCall EXCEPT !.kind = kind, !.sess = s]]
    /\ UNCHANGED <<row, keys, base, opened, wire, nextChain>>

Loaded(kind) == obj.pc = "loaded" /\ obj.call.kind = kind

Idle == [obj EXCEPT !.pc = "idle", !.call = NoCall]

\* store_session up to its await: the cache takes the record first.
Storing(r, out, consumed) ==
    [obj EXCEPT !.pc = "storing", !.cache = r, !.call.out = out, !.call.consumed = consumed]

\* The call stores the record r; it has made the chain nextChain of session s.
StoreFresh(r, s, consumed) ==
    /\ nextChain <= MaxChains
    /\ obj' = Storing(r, NoMessage, consumed)
    /\ base' = [base EXCEPT ![nextChain] = s]
    /\ nextChain' = nextChain + 1

\* The call stores a record that has no new chain.
StoreSame(r) ==
    /\ obj' = Storing(r, NoMessage, FALSE)
    /\ UNCHANGED <<base, nextChain>>

----------------------------------------------------------------------------
\* mutant of Encrypt: the ciphertext is returned before the store
EncryptUnawaited ==
    /\ Loaded("encrypt")
    /\ CanEncrypt(obj.cache)
    /\ obj' = Storing(Encrypted(obj.cache), NoMessage, FALSE)
    /\ wire' = wire \cup {<<obj.cache.cur.chain, obj.cache.cur.idx>>}
    /\ UNCHANGED <<row, keys, base, opened, nextChain>>

\* message_encrypt
Encrypt ==
    /\ Loaded("encrypt")
    /\ CanEncrypt(obj.cache)
    /\ obj' = Storing(Encrypted(obj.cache), <<obj.cache.cur.chain, obj.cache.cur.idx>>, FALSE)
    /\ UNCHANGED <<row, keys, base, opened, wire, nextChain>>

\* process_prekey_bundle
Bundle ==
    /\ Loaded("bundle")
    /\ StoreFresh(Renewed(obj.cache, nextChain), OwnSession, FALSE)
    /\ UNCHANGED <<row, keys, opened, wire>>

\* What a decrypt through the current state of r, of session s, leaves to
\* store: the same chain, or the one that a DH ratchet step made.
DecryptCurrent(r, s) ==
    \/ StoreSame(r)
    \/ HasChain(r.cur) /\ StoreFresh(Ratcheted(r, nextChain), s, FALSE)

SessionOf(st) == IF HasChain(st) THEN base[st.chain] ELSE OwnSession

\* The states of r that a message of session s may belong to.  A state that
\* lost its sender chain still has its base key, which the model does not keep.
Matches(st, s)  == HasChain(st) => base[st.chain] = s
Archived(r, s)  == {i \in 1 .. Len(r.prev) : Matches(r.prev[i], s)}
Knows(r, s)     == \E st \in {r.cur} \cup {r.prev[i] : i \in 1 .. Len(r.prev)} :
                       HasChain(st) /\ base[st.chain] = s
Taken(r, i)     == [r EXCEPT !.prev = Without(@, i)]

\* message_decrypt_signal: the message opens in the current state, or in an
\* archived one, which becomes current.
DecryptSignal ==
    LET r == obj.cache
    IN  /\ Loaded("whisper")
        /\ r # EmptyRecord
        /\ \/ DecryptCurrent(r, SessionOf(r.cur))
           \/ \E i \in 1 .. Len(r.prev) :
                 \/ StoreSame(PromoteState(Taken(r, i), r.prev[i]))
                 \/ /\ HasChain(r.prev[i])
                    /\ StoreFresh(PromoteFreshState(Taken(r, i), FreshState(nextChain)),
                                  base[r.prev[i].chain], FALSE)
        /\ UNCHANGED <<row, keys, opened, wire>>

\* message_decrypt_prekey, of a session that the record has: it is made
\* current first (promote_matching_session).
DecryptKnown ==
    LET r == obj.cache
        s == obj.call.sess
    IN  /\ Loaded("prekey")
        /\ r # EmptyRecord
        /\ \/ Matches(r.cur, s) /\ DecryptCurrent(r, s)
           \/ /\ HasChain(r.cur) => base[r.cur.chain] # s
              /\ \E i \in Archived(r, s) :
                    DecryptCurrent(PromoteState(Taken(r, i), r.prev[i]), s)
        /\ opened' = opened \cup {s}
        /\ UNCHANGED <<row, keys, wire>>

\* and of a new one, which needs its pre-key.
DecryptNew ==
    LET s == obj.call.sess
    IN  /\ Loaded("prekey")
        /\ ~Knows(obj.cache, s)
        /\ s \in OneTime => s \in keys
        /\ StoreFresh(Renewed(obj.cache, nextChain), s, s \in OneTime)
        /\ opened' = opened \cup {s}
        /\ UNCHANGED <<row, keys, wire>>

\* mutant of Refuse: a pre-key message that does not decrypt is committed
RefuseCommitted ==
    /\ obj.pc = "loaded"
    /\ \/ Loaded("prekey") /\ StoreFresh(Renewed(obj.cache, nextChain), obj.call.sess, FALSE)
       \/ obj.cache # EmptyRecord /\ obj.call.kind # "query" /\ StoreSame(obj.cache)
       \/ /\ obj.cache = EmptyRecord \/ obj.call.kind = "query"
          /\ obj' = Idle
          /\ UNCHANGED <<base, nextChain>>
    /\ UNCHANGED <<row, keys, opened, wire>>

\* A call that fails before it has anything to return: an identity that is not
\* trusted, a message that does not open, no session, the last counter.  A
\* record that there was is stored as it was loaded, by encrypt and
\* decryptWhisperMessage ("Always restore"), by the rollback of a pre-key
\* message and by a bundle; without one the fresh record is discarded.
\* hasOpenSession ends the same way, and stores nothing.
Refuse ==
    /\ obj.pc = "loaded"
    /\ \/ obj.cache # EmptyRecord /\ obj.call.kind # "query" /\ StoreSame(obj.cache)
       \/ /\ obj.cache = EmptyRecord \/ obj.call.kind = "query"
          /\ obj' = Idle
          /\ UNCHANGED <<base, nextChain>>
    /\ UNCHANGED <<row, keys, opened, wire>>

\* The storage has the record.  encrypt returns its ciphertext;
\* decryptPreKeyWhisperMessage removes the pre-key it consumed first.
Stored ==
    /\ obj.pc = "storing"
    /\ row' = obj.cache
    /\ wire' = IF obj.call.out = NoMessage THEN wire ELSE wire \cup {obj.call.out}
    /\ obj' = IF obj.call.consumed THEN [obj EXCEPT !.pc = "removing"] ELSE Idle
    /\ UNCHANGED <<keys, base, opened, nextChain>>

\* mutant of StoreFailed: the pre-key is removed whatever the storage says
StoreFailedIgnored ==
    /\ obj.pc = "storing"
    /\ row' \in {row, obj.cache}
    /\ obj' = IF obj.call.consumed THEN [obj EXCEPT !.pc = "removing"] ELSE Idle
    /\ UNCHANGED <<keys, base, opened, wire, nextChain>>

\* The storage rejects, having written the record or not: the call fails, and
\* the object goes on from its cache.
StoreFailed ==
    /\ obj.pc = "storing"
    /\ row' \in {row, obj.cache}
    /\ obj' = Idle
    /\ UNCHANGED <<keys, base, opened, wire, nextChain>>

\* remove_pre_key, which may fail: then the plaintext is lost to the caller.
RemovePrekey ==
    /\ obj.pc = "removing"
    /\ keys' \in {keys, keys \ {obj.call.sess}}
    /\ obj' = Idle
    /\ UNCHANGED <<row, base, opened, wire, nextChain>>

Next ==
    \/ \E class \in {"cipher", "builder"} : Open(class)
    \/ Close
    \/ Restart
    \/ \E kind \in {"encrypt", "whisper", "bundle", "query"} : Begin(kind, OwnSession)
    \/ \E s \in Sessions : Begin("prekey", s)
    \/ Encrypt
    \/ Bundle
    \/ DecryptSignal
    \/ DecryptKnown
    \/ DecryptNew
    \/ Refuse
    \/ Stored
    \/ StoreFailed
    \/ RemovePrekey

Spec == Init /\ [][Next]_vars

----------------------------------------------------------------------------
\* No message key is used twice: neither the live object nor one opened on the
\* row would encrypt, in its current session or in one that a message makes
\* current, under a key of a ciphertext that the application has.  A failed
\* store leaves the cache ahead of the row, and a restart drops the cache.
BridgeKeysUnused == \A r \in {obj.cache, Reloaded(row)} : Unused(r, wire)

\* A new object never refuses the row, so that the peer is not cut off: each
\* reload skips what is left of one lease, whatever was stored by whom.
RowReloads == ~ReloadFails(row)

\* "the caller must remove it now that the promoted session is stored"
\* (session_cipher.rs): when a one-time pre-key goes, the session that consumed
\* it is the current one of the stored record.
PrekeyAfterSession ==
    [][\A k \in keys \ keys' : HasChain(row.cur) /\ base[row.cur.chain] = k]_vars

\* "A prekey promotion must not survive" (traits.rs) a message that fails: the
\* sessions of the cache and of the row are the device's own, and ones of which
\* a message decrypted.
OnlyOpenedSessions ==
    \A r \in {obj.cache, row} :
        \A st \in {r.cur} \cup {r.prev[i] : i \in 1 .. Len(r.prev)} :
            HasChain(st) => base[st.chain] \in opened \cup {OwnSession}

----------------------------------------------------------------------------
(* The inductive invariant.                                                *)

\* What the application has, or gets if the store succeeds
Sent == wire \cup IF obj.call.out = NoMessage THEN {} ELSE {obj.call.out}

\* The row accounts for every ciphertext that was returned, and the cache for
\* the one under way as well.
BridgeInv ==
    /\ TypeOK
    /\ \A m \in Sent : m[1] # NoChain /\ m[1] < nextChain
    /\ WellFormed(row, nextChain) /\ Exact(row, wire)
    /\ WellFormed(obj.cache, nextChain) /\ Exact(obj.cache, Sent)
    /\ obj.call.kind = "prekey" => obj.call.sess \in Sessions
    /\ obj.call.out # NoMessage => obj.pc = "storing"
    /\ obj.call.consumed =>
         /\ obj.pc \in {"storing", "removing"} /\ obj.call.out = NoMessage
         /\ HasChain(obj.cache.cur)
         /\ base[obj.cache.cur.chain] = obj.call.sess
    /\ obj.pc = "removing" => row = obj.cache /\ obj.call.consumed
=============================================================================
