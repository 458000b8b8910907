------------------------ MODULE BridgeSessionProofs -------------------------
(***************************************************************************)
(* Proofs about BridgeSession for every set of sessions, batch size,       *)
(* fast-forward limit, archive length, counter width and number of chains. *)
(***************************************************************************)
EXTENDS BridgeSession, SessionRecordProofs

USE Constants

----------------------------------------------------------------------------
(* The state.                                                              *)

\* The parts of a state of the invariant, in the form the provers use.
LEMMA BridgeTypes ==
    ASSUME BridgeInv
    PROVE  /\ row \in Record /\ obj.cache \in Record /\ obj.call \in Call
           /\ obj = [pc |-> obj.pc, class |-> obj.class, cache |-> obj.cache, call |-> obj.call]
           /\ obj.call = [kind |-> obj.call.kind, sess |-> obj.call.sess, out |-> obj.call.out,
                          consumed |-> obj.call.consumed]
           /\ obj.pc \in {"gone", "idle", "loaded", "storing", "removing"}
           /\ obj.class \in {"none", "cipher", "builder"}
           /\ nextChain \in Nat \ {0} /\ nextChain \in Nat /\ MaxChains \in Nat
           /\ Messages(Sent, nextChain) /\ Messages(wire, nextChain)
<1>1. /\ row \in Record /\ obj.cache \in Record /\ obj.call \in Call
      /\ obj = [pc |-> obj.pc, class |-> obj.class, cache |-> obj.cache, call |-> obj.call]
      /\ obj.pc \in {"gone", "idle", "loaded", "storing", "removing"}
      /\ obj.class \in {"none", "cipher", "builder"}
  BY DEF BridgeInv, TypeOK
<1>2. /\ obj.call.out \in Nat \X Counter
      /\ obj.call = [kind |-> obj.call.kind, sess |-> obj.call.sess, out |-> obj.call.out,
                     consumed |-> obj.call.consumed]
  BY <1>1 DEF Call
<1>3. MaxChains \in Nat /\ nextChain \in Nat \ {0} /\ nextChain \in Nat
  BY BridgeAssumption DEF BridgeInv, TypeOK
<1>4. wire \subseteq Sent /\ Sent \subseteq Nat \X Counter
  BY <1>2 DEF Sent, BridgeInv, TypeOK
<1>5. \A m \in Sent : m[1] # NoChain /\ m[1] < nextChain
  BY DEF BridgeInv
<1> QED
  BY <1>1, <1>2, <1>3, <1>4, <1>5 DEF Messages

\* The fields of the objects that the actions leave.
LEMMA Objects ==
    /\ Gone.pc = "gone" /\ Gone.cache = EmptyRecord /\ Gone.call = NoCall /\ Gone.class = "none"
    /\ NoCall \in Call /\ NoCall.kind = "none" /\ NoCall.out = NoMessage /\ NoCall.consumed = FALSE
    /\ NoMessage \in Nat \X Counter /\ EmptyRecord \in Record
    /\ NoCall = [kind |-> "none", sess |-> OwnSession, out |-> NoMessage, consumed |-> FALSE]
<1>1. NoMessage \in Nat \X Counter
  BY DEF NoMessage, NoChain, Counter
<1>2. NoCall \in Call
  BY <1>1 DEF NoCall, Call
<1> QED
  BY <1>1, <1>2, EmptyFacts DEF Gone, NoCall

\* A step that ends a call, or the object, keeps the invariant: what the cache
\* accounts for, it accounts for without a ciphertext under way.
LEMMA EndKeeps ==
    ASSUME BridgeInv,
           obj' \in [pc : {"gone", "idle", "loaded"}, class : {"none", "cipher", "builder"},
                     cache : Record, call : Call],
           obj'.call.out = NoMessage, obj'.call.consumed = FALSE,
           obj'.call.kind = "prekey" => obj'.call.sess \in Sessions,
           WellFormed(obj'.cache, nextChain), Exact(obj'.cache, wire'),
           row' \in Record, WellFormed(row', nextChain), Exact(row', wire'),
           wire' \subseteq Sent,
           keys' \subseteq keys, UNCHANGED <<base, opened, nextChain>>
    PROVE  BridgeInv'
<1> USE BridgeTypes
<1>1. Sent' = wire'
  BY DEF Sent
<1>2. TypeOK'
  BY DEF BridgeInv, TypeOK, Messages
<1>3. obj'.pc \in {"gone", "idle", "loaded"}
  OBVIOUS
<1>4. \A m \in wire' : m[1] # NoChain /\ m[1] < nextChain'
  BY DEF Messages
<1> QED
  BY <1>1, <1>2, <1>3, <1>4 DEF BridgeInv

\* store_session up to its await keeps the invariant, if the record that the
\* cache takes accounts for what was returned.
LEMMA StoringKeeps ==
    ASSUME BridgeInv, obj.pc = "loaded", NEW r \in Record, NEW consumed \in BOOLEAN,
           obj' = Storing(r, NoMessage, consumed),
           nextChain' \in 1 .. MaxChains + 1, nextChain <= nextChain',
           WellFormed(row, nextChain'), WellFormed(r, nextChain'), Exact(r, wire),
           base' \in [1 .. MaxChains -> Sessions \cup {OwnSession}],
           consumed => HasChain(r.cur) /\ base'[r.cur.chain] = obj.call.sess,
           opened' \subseteq Sessions, UNCHANGED <<row, keys, wire>>
    PROVE  BridgeInv'
<1> USE BridgeTypes, Objects
<1>1. /\ obj' \in [pc : {"storing"}, class : {"none", "cipher", "builder"}, cache : Record, call : Call]
      /\ obj'.pc = "storing" /\ obj'.cache = r
      /\ obj'.call.out = NoMessage /\ obj'.call.consumed = consumed
      /\ obj'.call.sess = obj.call.sess /\ obj'.call.kind = obj.call.kind
  BY DEF Storing, Call
<1>2. Sent' = wire
  BY <1>1 DEF Sent
<1>3. TypeOK'
  BY <1>1 DEF BridgeInv, TypeOK
<1>4. \A m \in wire : m[1] # NoChain /\ m[1] < nextChain'
  BY DEF Messages
<1> QED
  BY <1>1, <1>2, <1>3, <1>4 DEF BridgeInv

\* A new session, in a new record or on top of the old one, accounts for what
\* the old record did.
LEMMA RenewedRecord ==
    ASSUME NEW r \in Record, NEW c \in Nat \ {0}, NEW S,
           WellFormed(r, c), Messages(S, c), Exact(r, S)
    PROVE  LET q == Renewed(r, c)
           IN  /\ q \in Record
               /\ WellFormed(q, c + 1)
               /\ Exact(q, S)
               /\ q.cur.chain = c
<1>1. CASE r # EmptyRecord
  BY <1>1, PromotedFreshRecord DEF Renewed
<1>2. CASE r = EmptyRecord
  <2> DEFINE q == Renewed(r, c)
  <2>1. q = [cur |-> [chain |-> c, idx |-> 0], prev |-> <<>>, ceil |-> 0]
    BY <1>2 DEF Renewed, EmptyRecord, FreshState
  <2>2. /\ q.cur = [chain |-> c, idx |-> 0] /\ q.cur.chain = c /\ q.cur.idx = 0
        /\ q.ceil = 0 /\ Len(q.prev) = 0
    BY <2>1
  <2>3. q \in Record
    BY <2>1 DEF Record, State, Counter
  <2> HIDE DEF q
  <2>4. WellFormed(q, c + 1)
    BY <2>2 DEF WellFormed, Known, Distinct, WithinBatch
  <2>5. Exact(q, S)
    BY <2>2 DEF Exact, Messages
  <2> QED
    BY <2>2, <2>3, <2>4, <2>5 DEF q
<1> QED
  BY <1>1, <1>2

----------------------------------------------------------------------------
(* The steps.                                                              *)

\* A record without a new chain is stored.
LEMMA StoreSameKeeps ==
    ASSUME BridgeInv, obj.pc = "loaded", NEW r \in Record, StoreSame(r),
           WellFormed(r, nextChain), Exact(r, wire),
           opened' \subseteq Sessions, UNCHANGED <<row, keys, wire>>
    PROVE  BridgeInv'
<1> USE BridgeTypes
<1>1. /\ nextChain' \in 1 .. MaxChains + 1 /\ nextChain <= nextChain'
      /\ base' \in [1 .. MaxChains -> Sessions \cup {OwnSession}]
      /\ WellFormed(row, nextChain') /\ WellFormed(r, nextChain')
  BY DEF StoreSame, BridgeInv, TypeOK
<1> QED
  BY <1>1, StoringKeeps DEF StoreSame

\* A record with a new chain is stored.
LEMMA StoreFreshKeeps ==
    ASSUME BridgeInv, obj.pc = "loaded", NEW r \in Record,
           NEW s \in Sessions \cup {OwnSession}, NEW consumed \in BOOLEAN,
           StoreFresh(r, s, consumed),
           WellFormed(r, nextChain + 1), Exact(r, wire), r.cur.chain = nextChain,
           consumed => s = obj.call.sess,
           opened' \subseteq Sessions, UNCHANGED <<row, keys, wire>>
    PROVE  BridgeInv'
<1> USE BridgeTypes
<1>1. /\ nextChain \in 1 .. MaxChains /\ nextChain' = nextChain + 1
      /\ base \in [1 .. MaxChains -> Sessions \cup {OwnSession}]
      /\ base' = [base EXCEPT ![nextChain] = s]
  BY DEF StoreFresh, BridgeInv, TypeOK
<1>2. /\ base' \in [1 .. MaxChains -> Sessions \cup {OwnSession}]
      /\ base'[nextChain] = s
  BY <1>1
<1>3. WellFormed(row, nextChain')
  BY <1>1, WellFormedGrows DEF BridgeInv
<1>4. HasChain(r.cur)
  BY DEF HasChain, NoChain
<1>5. nextChain' \in 1 .. MaxChains + 1 /\ nextChain <= nextChain' /\ WellFormed(r, nextChain')
  BY <1>1
<1> QED
  BY <1>2, <1>3, <1>4, <1>5, StoringKeeps DEF StoreFresh

\* The archived state that a message makes current: the record without it, and
\* the record with it promoted.
LEMMA PromotedArchived ==
    ASSUME NEW r \in Record, NEW n \in Nat, NEW S, NEW i \in 1 .. Len(r.prev),
           WellFormed(r, n), Messages(S, n), Exact(r, S)
    PROVE  /\ Taken(r, i) \in Record /\ WellFormed(Taken(r, i), n) /\ Exact(Taken(r, i), S)
           /\ PromoteState(Taken(r, i), r.prev[i]) \in Record
           /\ WellFormed(PromoteState(Taken(r, i), r.prev[i]), n)
           /\ Exact(PromoteState(Taken(r, i), r.prev[i]), S)
<1> DEFINE t == Taken(r, i)
           st == r.prev[i]
<1>1. /\ t \in Record /\ WellFormed(t, n) /\ Exact(t, S)
      /\ st \in State /\ st.chain < n /\ Apart(st, t)
      /\ \A m \in S : m[1] = st.chain => m[2] < st.idx
  BY TakenRecord DEF Taken
<1> HIDE DEF t, st
<1>2. /\ PromoteState(t, st) \in Record
      /\ WellFormed(PromoteState(t, st), n)
      /\ Exact(PromoteState(t, st), S)
  BY <1>1, PromotedRecord
<1> QED
  BY <1>1, <1>2 DEF t, st

\* A decrypt through the current state of r, loaded or just promoted.
LEMMA DecryptCurrentKeeps ==
    ASSUME BridgeInv, obj.pc = "loaded", NEW r \in Record,
           NEW s \in Sessions \cup {OwnSession}, DecryptCurrent(r, s),
           WellFormed(r, nextChain), Exact(r, wire),
           opened' \subseteq Sessions, UNCHANGED <<row, keys, wire>>
    PROVE  BridgeInv'
<1> USE BridgeTypes
<1>1. CASE StoreSame(r)
  BY <1>1, StoreSameKeeps
<1>2. CASE StoreFresh(Ratcheted(r, nextChain), s, FALSE)
  BY <1>2, RatchetedRecord, StoreFreshKeeps
<1> QED
  BY <1>1, <1>2 DEF DecryptCurrent

\* In a state of the invariant the cache of a loaded object accounts for what
\* was returned, and the session of a message is a session.
LEMMA LoadedFacts ==
    ASSUME BridgeInv, obj.pc = "loaded"
    PROVE  /\ Exact(obj.cache, wire) /\ WellFormed(obj.cache, nextChain)
           /\ obj.call.sess \in Sessions \cup {OwnSession}
           /\ opened \subseteq Sessions
           /\ \A i \in 1 .. Len(obj.cache.prev) :
                 HasChain(obj.cache.prev[i]) =>
                     base[obj.cache.prev[i].chain] \in Sessions \cup {OwnSession}
           /\ SessionOf(obj.cache.cur) \in Sessions \cup {OwnSession}
<1> USE BridgeTypes
<1>1. Sent = wire /\ obj.call.sess \in Sessions \cup {OwnSession}
  BY DEF BridgeInv, Sent, Call
<1>2. \A st \in State : HasChain(st) /\ st.chain < nextChain =>
          base[st.chain] \in Sessions \cup {OwnSession}
  BY DEF BridgeInv, TypeOK, State, HasChain, NoChain
<1>3. /\ obj.cache.cur \in State /\ obj.cache.cur.chain < nextChain
      /\ \A i \in 1 .. Len(obj.cache.prev) :
             obj.cache.prev[i] \in State /\ obj.cache.prev[i].chain < nextChain
  BY DEF BridgeInv, WellFormed, Known, Record
<1> QED
  BY <1>1, <1>2, <1>3 DEF BridgeInv, TypeOK, SessionOf

\* encrypt: the ciphertext under way is accounted for by the cache alone.
LEMMA EncryptKeeps ==
    ASSUME BridgeInv, Encrypt
    PROVE  BridgeInv'
<1> USE BridgeTypes
<1> DEFINE m == <<obj.cache.cur.chain, obj.cache.cur.idx>>
           q == Encrypted(obj.cache)
<1>1. obj.pc = "loaded" /\ CanEncrypt(obj.cache) /\ obj' = Storing(q, m, FALSE)
      /\ UNCHANGED <<row, keys, base, opened, wire, nextChain>>
  BY DEF Encrypt, Loaded
<1>2. Exact(obj.cache, wire) /\ WellFormed(obj.cache, nextChain)
  BY <1>1, LoadedFacts
<1>3. q \in Record /\ WellFormed(q, nextChain) /\ Exact(q, wire \cup {m})
  BY <1>1, <1>2, EncryptedRecord
<1>4. obj.cache.cur \in State /\ HasChain(obj.cache.cur) /\ obj.cache.cur.chain < nextChain
  BY <1>1, <1>2 DEF Record, CanEncrypt, WellFormed, Known
<1>5. m \in Nat \X Counter /\ m[1] # NoChain /\ m[1] < nextChain /\ m # NoMessage
  BY <1>4 DEF State, HasChain, NoMessage, NoChain
<1> HIDE DEF m, q
<1>6. /\ obj' \in [pc : {"storing"}, class : {"none", "cipher", "builder"}, cache : Record, call : Call]
      /\ obj'.pc = "storing" /\ obj'.cache = q
      /\ obj'.call.out = m /\ obj'.call.consumed = FALSE
      /\ obj'.call.sess = obj.call.sess /\ obj'.call.kind = obj.call.kind
  BY <1>1, <1>3, <1>5 DEF Storing, Call
<1>7. Sent' = wire \cup {m}
  BY <1>1, <1>5, <1>6 DEF Sent
<1>8. TypeOK'
  BY <1>1, <1>6 DEF BridgeInv, TypeOK
<1>9. \A x \in Sent' : x[1] # NoChain /\ x[1] < nextChain'
  BY <1>1, <1>5, <1>7 DEF Messages
<1> QED
  BY <1>1, <1>3, <1>6, <1>7, <1>8, <1>9 DEF BridgeInv

\* The other calls, up to their store.
LEMMA CallKeeps ==
    ASSUME BridgeInv, Bundle \/ DecryptSignal \/ DecryptKnown \/ DecryptNew \/ Refuse
    PROVE  BridgeInv'
<1> USE BridgeTypes
<1> DEFINE r == obj.cache
           n == nextChain
<1>1. obj.pc = "loaded" /\ UNCHANGED <<row, keys, wire>>
  BY DEF Bundle, DecryptSignal, DecryptKnown, DecryptNew, Refuse, Loaded
<1>2. /\ r \in Record /\ Exact(r, wire) /\ WellFormed(r, n)
      /\ obj.call.sess \in Sessions \cup {OwnSession}
      /\ opened \subseteq Sessions
      /\ \A i \in 1 .. Len(r.prev) :
             HasChain(r.prev[i]) => base[r.prev[i].chain] \in Sessions \cup {OwnSession}
      /\ SessionOf(r.cur) \in Sessions \cup {OwnSession}
  BY <1>1, LoadedFacts
<1>3. /\ Renewed(r, n) \in Record /\ WellFormed(Renewed(r, n), n + 1)
      /\ Exact(Renewed(r, n), wire) /\ Renewed(r, n).cur.chain = n
  BY <1>2, RenewedRecord
<1>4. CASE Bundle
  <2>1. opened' \subseteq Sessions /\ StoreFresh(Renewed(r, n), OwnSession, FALSE)
    BY <1>2, <1>4 DEF Bundle
  <2> QED
    BY <1>1, <1>3, <2>1, StoreFreshKeeps
<1>5. CASE DecryptSignal
  <2>1. opened' \subseteq Sessions
    BY <1>2, <1>5 DEF DecryptSignal
  <2>2. CASE DecryptCurrent(r, SessionOf(r.cur))
    BY <1>1, <1>2, <2>1, <2>2, DecryptCurrentKeeps
  <2>3. CASE \E i \in 1 .. Len(r.prev) : StoreSame(PromoteState(Taken(r, i), r.prev[i]))
    BY <1>1, <1>2, <2>1, <2>3, PromotedArchived, StoreSameKeeps
  <2>4. ASSUME NEW i \in 1 .. Len(r.prev), HasChain(r.prev[i]),
               StoreFresh(PromoteFreshState(Taken(r, i), FreshState(n)), base[r.prev[i].chain], FALSE)
        PROVE  BridgeInv'
    <3>1. Taken(r, i) \in Record /\ WellFormed(Taken(r, i), n) /\ Exact(Taken(r, i), wire)
      BY <1>2, PromotedArchived
    <3>2. LET q == PromoteFreshState(Taken(r, i), FreshState(n))
          IN  q \in Record /\ WellFormed(q, n + 1) /\ Exact(q, wire) /\ q.cur.chain = n
      BY <3>1, PromotedFreshRecord
    <3>3. base[r.prev[i].chain] \in Sessions \cup {OwnSession}
      BY <1>2, <2>4
    <3> QED
      BY <1>1, <2>1, <2>4, <3>2, <3>3, StoreFreshKeeps
  <2> QED
    BY <1>5, <2>2, <2>3, <2>4 DEF DecryptSignal
<1>6. CASE DecryptKnown
  <2> DEFINE s == obj.call.sess
  <2>0. s \in Sessions \cup {OwnSession} /\ opened' = opened \cup {s}
    BY <1>2, <1>6 DEF DecryptKnown
  <2>1. CASE opened' \subseteq Sessions
    <3>1. CASE DecryptCurrent(r, s)
      BY <1>1, <1>2, <2>0, <2>1, <3>1, DecryptCurrentKeeps
    <3>2. ASSUME NEW i \in Archived(r, s), DecryptCurrent(PromoteState(Taken(r, i), r.prev[i]), s)
          PROVE  BridgeInv'
      <4>1. i \in 1 .. Len(r.prev)
        BY DEF Archived
      <4>2. /\ PromoteState(Taken(r, i), r.prev[i]) \in Record
            /\ WellFormed(PromoteState(Taken(r, i), r.prev[i]), n)
            /\ Exact(PromoteState(Taken(r, i), r.prev[i]), wire)
        BY <1>2, <4>1, PromotedArchived
      <4> QED
        BY <1>1, <2>0, <2>1, <3>2, <4>2, DecryptCurrentKeeps
    <3> QED
      BY <1>6, <3>1, <3>2 DEF DecryptKnown
  <2>2. opened' \subseteq Sessions
    BY <1>2, <1>6, <2>0 DEF DecryptKnown, Loaded, BridgeInv
  <2> QED
    BY <2>1, <2>2
<1>7. CASE DecryptNew
  <2>1. opened' \subseteq Sessions
    BY <1>2, <1>7 DEF DecryptNew, Loaded, BridgeInv
  <2>2. StoreFresh(Renewed(r, n), obj.call.sess, obj.call.sess \in OneTime)
    BY <1>7 DEF DecryptNew
  <2> DEFINE consumed == obj.call.sess \in OneTime
  <2>3. consumed \in BOOLEAN /\ StoreFresh(Renewed(r, n), obj.call.sess, consumed)
    BY <2>2
  <2> HIDE DEF consumed
  <2> QED
    BY <1>1, <1>2, <1>3, <2>1, <2>3, StoreFreshKeeps
<1>8. CASE Refuse
  <2>1. opened' \subseteq Sessions
    BY <1>2, <1>8 DEF Refuse
  <2>2. CASE StoreSame(r)
    BY <1>1, <1>2, <2>1, <2>2, StoreSameKeeps
  <2>3. CASE obj' = Idle /\ UNCHANGED <<base, nextChain>>
    <3>1. /\ obj' \in [pc : {"gone", "idle", "loaded"}, class : {"none", "cipher", "builder"},
                       cache : Record, call : Call]
          /\ obj'.cache = r /\ obj'.call = NoCall
      BY <2>3, Objects DEF Idle
    <3>2. UNCHANGED <<keys, base, opened, nextChain, wire, row>> /\ wire' \subseteq Sent
      BY <1>1, <1>8, <2>3 DEF Refuse, Sent
    <3>3. row' \in Record /\ WellFormed(row', nextChain) /\ Exact(row', wire')
      BY <3>2 DEF BridgeInv
    <3>4. /\ obj'.call.out = NoMessage /\ obj'.call.consumed = FALSE
          /\ obj'.call.kind = "prekey" => obj'.call.sess \in Sessions
      BY <3>1, Objects
    <3> QED
      BY <1>2, <3>1, <3>2, <3>3, <3>4, EndKeeps
  <2> QED
    BY <1>8, <2>2, <2>3 DEF Refuse
<1> QED
  BY <1>4, <1>5, <1>6, <1>7, <1>8

\* The object comes, goes or starts a call.
LEMMA ObjectKeeps ==
    ASSUME BridgeInv,
           \/ \E class \in {"cipher", "builder"} : Open(class)
           \/ Close \/ Restart
           \/ \E kind \in {"encrypt", "whisper", "bundle", "query"} : Begin(kind, OwnSession)
           \/ \E s \in Sessions : Begin("prekey", s)
    PROVE  BridgeInv'
<1> USE BridgeTypes, Objects
<1>1. /\ UNCHANGED <<row, keys, base, opened, wire, nextChain>>
      /\ wire' \subseteq Sent
      /\ row' \in Record /\ WellFormed(row', nextChain) /\ Exact(row', wire')
  BY DEF Open, Close, Restart, Begin, BridgeInv, Sent
<1>2. CASE \/ \E class \in {"cipher", "builder"} : Open(class)
           \/ Close \/ Restart
  <2>1. /\ obj' \in [pc : {"gone", "idle", "loaded"}, class : {"none", "cipher", "builder"},
                     cache : Record, call : Call]
        /\ obj'.cache = EmptyRecord /\ obj'.call = NoCall
    BY <1>2 DEF Open, Close, Restart, Gone
  <2>2. WellFormed(EmptyRecord, nextChain) /\ Exact(EmptyRecord, wire')
    BY <1>1, EmptyFacts
  <2> QED
    BY <1>1, <2>1, <2>2, EndKeeps
<1>3. ASSUME NEW kind \in {"encrypt", "whisper", "bundle", "query", "prekey"},
             NEW s \in Sessions \cup {OwnSession}, Begin(kind, s),
             kind = "prekey" => s \in Sessions
      PROVE  BridgeInv'
  <2> DEFINE q == IF obj.cache # EmptyRecord THEN obj.cache ELSE Reloaded(row)
             call == [NoCall EXCEPT !.kind = kind, !.sess = s]
  <2>1. obj.pc = "idle" /\ obj' = [obj EXCEPT !.pc = "loaded", !.cache = q, !.call = call]
    BY <1>3 DEF Begin
  <2>2. Sent = wire
    BY <2>1 DEF BridgeInv, Sent
  <2>3. q \in Record /\ WellFormed(q, nextChain) /\ Exact(q, wire')
    <3>1. CASE obj.cache # EmptyRecord
      BY <1>1, <2>2, <3>1 DEF BridgeInv
    <3>2. /\ Reloaded(row) \in Record /\ WellFormed(Reloaded(row), nextChain)
          /\ Exact(Reloaded(row), wire)
      BY ExactCovers, ReloadedRecord DEF BridgeInv
    <3> QED
      BY <1>1, <3>1, <3>2
  <2>4. call \in Call /\ call.out = NoMessage /\ call.consumed = FALSE
        /\ (call.kind = "prekey" => call.sess \in Sessions)
    BY <1>3 DEF Call
  <2> HIDE DEF q, call
  <2>5. /\ obj' \in [pc : {"gone", "idle", "loaded"}, class : {"none", "cipher", "builder"},
                     cache : Record, call : Call]
        /\ obj'.cache = q /\ obj'.call = call
    BY <2>1, <2>3, <2>4
  <2> QED
    BY <1>1, <2>3, <2>4, <2>5, EndKeeps
<1> QED
  BY <1>2, <1>3

\* The storage answers.
LEMMA AnswerKeeps ==
    ASSUME BridgeInv, Stored \/ StoreFailed \/ RemovePrekey
    PROVE  BridgeInv'
<1> USE BridgeTypes, Objects
<1>1. obj.call.kind = "prekey" => obj.call.sess \in Sessions
  BY DEF BridgeInv
<1>2. /\ Idle \in [pc : {"gone", "idle", "loaded"}, class : {"none", "cipher", "builder"},
                   cache : Record, call : Call]
      /\ Idle.cache = obj.cache /\ Idle.call = NoCall
  BY DEF Idle
<1>3. /\ WellFormed(obj.cache, nextChain) /\ Exact(obj.cache, Sent) /\ Exact(obj.cache, wire)
      /\ WellFormed(row, nextChain) /\ Exact(row, wire) /\ wire \subseteq Sent
  BY DEF BridgeInv, Sent, Exact
<1>4. CASE Stored
  <2>1. row' = obj.cache /\ wire' = Sent /\ UNCHANGED <<keys, base, opened, nextChain>>
    BY <1>4 DEF Stored, Sent
  <2>2. CASE ~obj.call.consumed
    BY <1>2, <1>3, <1>4, <2>1, <2>2, EndKeeps DEF Stored
  <2>3. CASE obj.call.consumed
    <3>1. obj.pc = "storing" /\ obj' = [obj EXCEPT !.pc = "removing"]
      BY <1>4, <2>3 DEF Stored
    <3>2. /\ obj' \in [pc : {"removing"}, class : {"none", "cipher", "builder"},
                       cache : Record, call : Call]
          /\ obj'.pc = "removing" /\ obj'.cache = obj.cache /\ obj'.call = obj.call
      BY <3>1
    <3>3. obj.call.out = NoMessage
      BY <2>3, <3>1 DEF BridgeInv
    <3>4. Sent = wire /\ Sent' = wire
      BY <2>1, <3>2, <3>3 DEF Sent
    <3>5. TypeOK'
      BY <1>3, <2>1, <3>2, <3>4 DEF BridgeInv, TypeOK
    <3>6. HasChain(obj'.cache.cur) /\ base'[obj'.cache.cur.chain] = obj'.call.sess
      BY <2>1, <2>3, <3>2 DEF BridgeInv
    <3> QED
      BY <1>1, <1>3, <2>1, <2>3, <3>2, <3>3, <3>4, <3>5, <3>6 DEF BridgeInv, Messages
  <2> QED
    BY <2>2, <2>3
<1>5. CASE StoreFailed
  BY <1>2, <1>3, <1>5, EndKeeps DEF StoreFailed
<1>6. CASE RemovePrekey
  BY <1>2, <1>3, <1>6, EndKeeps DEF RemovePrekey
<1> QED
  BY <1>4, <1>5, <1>6

----------------------------------------------------------------------------
(* The theorems.                                                           *)

\* Every step of the bridge keeps the invariant.
LEMMA BridgeStep ==
    ASSUME BridgeInv, [Next]_vars
    PROVE  BridgeInv'
<1>1. CASE Next
  BY <1>1, EncryptKeeps, CallKeeps, ObjectKeeps, AnswerKeeps DEF Next
<1>2. CASE UNCHANGED vars
  BY <1>2 DEF vars, BridgeInv, TypeOK, Sent
<1> QED
  BY <1>1, <1>2

\* The row of the storage accounts for every ciphertext that encrypt returned,
\* and the cache of the object in use for the one it is storing, whatever
\* stores fail and wherever the process restarts.
THEOREM BridgeInvariance == Spec => []BridgeInv
<1>1. Init => BridgeInv
  <2> SUFFICES ASSUME Init PROVE BridgeInv
    OBVIOUS
  <2> USE Objects, EmptyFacts
  <2>1. obj.call = NoCall /\ obj.cache = EmptyRecord /\ obj.pc = "gone" /\ row = EmptyRecord
    BY DEF Init
  <2>2. Sent = {} /\ wire = {} /\ nextChain = 1
    BY <2>1 DEF Init, Sent
  <2>3. TypeOK
    BY BridgeAssumption DEF Init, TypeOK, Gone
  <2>4. WellFormed(EmptyRecord, 1) /\ Exact(EmptyRecord, {})
    BY DEF Exact
  <2> QED
    BY <2>1, <2>2, <2>3, <2>4 DEF BridgeInv
<1> QED
  BY <1>1, BridgeStep, PTL DEF Spec

\* A record that accounts for the messages of S would use none of their keys.
LEMMA ExactUnused ==
    ASSUME NEW r \in Record, NEW S, NEW n \in Nat, Messages(S, n), Exact(r, S)
    PROVE  Unused(r, S)
<1>1. /\ r.cur \in State /\ r.cur.idx \in Nat
      /\ \A i \in 1 .. Len(r.prev) : r.prev[i] \in State /\ r.prev[i].idx \in Nat
  <2>1. r.cur \in State /\ r.prev \in Seq(State)
    BY DEF Record
  <2>2. \A i \in 1 .. Len(r.prev) : r.prev[i] \in State
    BY <2>1
  <2>3. \A st \in State : st.idx \in Nat
    BY DEF State, Counter
  <2> QED
    BY <2>1, <2>2, <2>3
<1>2. ASSUME NEW st \in State, st.idx \in Nat, <<st.chain, st.idx>> \in S,
             \A m \in S : m[1] = st.chain => m[2] < st.idx
      PROVE  FALSE
  BY <1>2
<1> QED
  BY <1>1, <1>2 DEF Unused, Exact

\* No message key is used twice through the bridge, by the object in use or by
\* one opened later on the stored row.
THEOREM BridgeNoKeyReuse == Spec => []BridgeKeysUnused
<1>1. BridgeInv => BridgeKeysUnused
  <2> SUFFICES ASSUME BridgeInv PROVE BridgeKeysUnused
    OBVIOUS
  <2> USE BridgeTypes
  <2>1. Exact(obj.cache, wire)
    BY DEF BridgeInv, Sent, Exact
  <2>2. Reloaded(row) \in Record /\ Exact(Reloaded(row), wire)
    BY ExactCovers, ReloadedRecord DEF BridgeInv
  <2> QED
    BY <2>1, <2>2, ExactUnused DEF BridgeKeysUnused
<1> QED
  BY <1>1, BridgeInvariance, PTL

\* A stored row is never refused by the object that loads it.
THEOREM RowAlwaysReloads == Spec => []RowReloads
<1>1. BridgeInv => RowReloads
  BY BridgeTypes, ExactCovers, ReloadedRecord DEF BridgeInv, RowReloads
<1> QED
  BY <1>1, BridgeInvariance, PTL

\* A one-time pre-key leaves the storage only when the stored record has the
\* session that consumed it as its current one.
THEOREM PrekeyOutlivesStore == Spec => PrekeyAfterSession
<1>1. BridgeInv /\ [Next]_vars
          => [\A k \in keys \ keys' : HasChain(row.cur) /\ base[row.cur.chain] = k]_vars
  <2> SUFFICES ASSUME BridgeInv, Next, NEW k \in keys \ keys'
               PROVE  HasChain(row.cur) /\ base[row.cur.chain] = k
    OBVIOUS
  <2>1. RemovePrekey
    BY DEF Next, Open, Close, Restart, Begin, Encrypt, Bundle, DecryptSignal, DecryptKnown,
           DecryptNew, Refuse, Stored, StoreFailed
  <2>2. k = obj.call.sess /\ obj.pc = "removing"
    BY <2>1 DEF RemovePrekey
  <2> QED
    BY <2>2 DEF BridgeInv
<1> QED
  BY <1>1, BridgeInvariance, PTL DEF Spec, PrekeyAfterSession

----------------------------------------------------------------------------
(* Which sessions a record has.                                            *)

\* The chains of a record, and that q has no others than r, and c.
Chains(r) == {r.cur.chain} \cup {r.prev[i].chain : i \in 1 .. Len(r.prev)}
From(q, r, c) == Chains(q) \subseteq Chains(r) \cup {c, NoChain}

\* Neither promotion brings a chain of its own into the record.
LEMMA PromotionFrom ==
    ASSUME NEW r \in Record, NEW st \in State
    PROVE  /\ From(PromoteState(r, st), r, st.chain)
           /\ From(PromoteFreshState(r, st), r, st.chain)
<1>1. r.cur \in State /\ r.prev \in Seq(State) /\ r.ceil \in Counter
  BY DEF Record
<1>2. ASSUME NEW x \in State, NEW y, NEW k,
             y.prev = Archive(r.prev, x), x.chain \in {r.cur.chain, NoChain},
             y.cur.chain \in {k, NoChain}
      PROVE  From(y, r, k)
  <2> DEFINE a == Archive(r.prev, x)
  <2>0. /\ a \in Seq(State) /\ Len(a) - 1 \in 0 .. Len(r.prev)
        /\ a[1] = x /\ \A k2 \in 2 .. Len(a) : a[k2] = r.prev[k2 - 1]
    BY <1>1, ArchiveElements
  <2> HIDE DEF a
  <2>1. \A i \in 1 .. Len(a) : a[i] = x \/ \E j \in 1 .. Len(r.prev) : a[i] = r.prev[j]
    <3> SUFFICES ASSUME NEW i \in 1 .. Len(a), i # 1
                 PROVE  \E j \in 1 .. Len(r.prev) : a[i] = r.prev[j]
      BY <2>0
    <3>1. i \in 2 .. Len(a) /\ i - 1 \in 1 .. Len(r.prev)
      BY <1>1, <2>0
    <3> QED
      BY <2>0, <3>1
  <2> QED
    BY <1>2, <2>1 DEF From, Chains, a
<1>3. /\ FastForwardOrDrop(st, r.ceil).chain \in {st.chain, NoChain}
      /\ FastForwardOrDrop(r.cur, r.ceil) \in State
      /\ FastForwardOrDrop(r.cur, r.ceil).chain \in {r.cur.chain, NoChain}
  BY <1>1, BurnedState
<1>4. From(PromoteState(r, st), r, st.chain)
  BY <1>1, <1>2, <1>3 DEF PromoteState
<1>5. From(PromoteFreshState(r, st), r, st.chain)
  BY <1>1, <1>2, <1>3 DEF PromoteFreshState
<1> QED
  BY <1>4, <1>5

\* Nor does taking an archived state out.
LEMMA TakenFrom ==
    ASSUME NEW r \in Record, NEW i \in 1 .. Len(r.prev)
    PROVE  Taken(r, i) \in Record /\ r.prev[i] \in State
           /\ From(Taken(r, i), r, NoChain) /\ r.prev[i].chain \in Chains(r)
<1>1. r.prev \in Seq(State) /\ Taken(r, i).cur = r.cur /\ Taken(r, i).prev = Without(r.prev, i)
  BY DEF Record, Taken
<1>2. /\ Without(r.prev, i) \in Seq(State) /\ Len(Without(r.prev, i)) = Len(r.prev) - 1
      /\ \A k \in 1 .. Len(r.prev) - 1 :
             Without(r.prev, i)[k] = IF k < i THEN r.prev[k] ELSE r.prev[k + 1]
  BY <1>1, WithoutElements
<1>3. \A k \in 1 .. Len(Without(r.prev, i)) :
          \E j \in 1 .. Len(r.prev) : Without(r.prev, i)[k] = r.prev[j]
  BY <1>1, <1>2
<1>4. Taken(r, i) \in Record
  BY <1>2 DEF Taken, Record
<1>5. r.prev[i] \in State /\ r.prev[i].chain \in Chains(r)
  BY <1>1 DEF Chains
<1> QED
  BY <1>1, <1>3, <1>4, <1>5 DEF From, Chains

\* What each operation leaves of the chains of a record.
LEMMA OperationsFrom ==
    ASSUME NEW r \in Record, NEW c \in Nat
    PROVE  /\ From(r, r, c) /\ From(Encrypted(r), r, c) /\ From(Reloaded(r), r, c)
           /\ From(Ratcheted(r, c), r, c) /\ From(Renewed(r, c), r, c)
           /\ Chains(EmptyRecord) = {NoChain}
<1>1. /\ r.cur \in State /\ r.prev \in Seq(State) /\ r.ceil \in Counter
      /\ r = [cur |-> r.cur, prev |-> r.prev, ceil |-> r.ceil]
      /\ r.cur = [chain |-> r.cur.chain, idx |-> r.cur.idx]
  BY DEF Record, State
<1>2. FreshState(c) \in State /\ FreshState(c).chain = c
  BY DEF FreshState, State, Counter
<1>3. Encrypted(r).cur.chain = r.cur.chain /\ Encrypted(r).prev = r.prev
  BY <1>1 DEF Encrypted, Reserve
<1>4. Reloaded(r).cur.chain = r.cur.chain /\ Reloaded(r).prev = r.prev
  BY <1>1 DEF Reloaded, FastForward
<1>5. Ratcheted(r, c).cur.chain = c /\ Ratcheted(r, c).prev = r.prev
  BY <1>2 DEF Ratcheted
<1>6. /\ EmptyRecord.cur.chain = NoChain /\ Len(EmptyRecord.prev) = 0
      /\ EmptyRecord = [cur |-> EmptyRecord.cur, prev |-> EmptyRecord.prev, ceil |-> 0]
  BY DEF EmptyRecord, DroppedState
<1>7. From(Renewed(r, c), r, c)
  <2>1. CASE r = EmptyRecord
    <3>1. Renewed(r, c).cur.chain = c /\ Len(Renewed(r, c).prev) = 0
      BY <1>2, <1>6, <2>1 DEF Renewed
    <3> QED
      BY <3>1 DEF From, Chains
  <2>2. CASE r # EmptyRecord
    BY <1>2, <2>2, PromotionFrom DEF Renewed
  <2> QED
    BY <2>1, <2>2
<1> QED
  BY <1>3, <1>4, <1>5, <1>6, <1>7 DEF From, Chains
\* The sessions of r, by b, are the device's own and those of o.
Owned(r, b, o) == \A c \in Chains(r) : c # NoChain => b[c] \in o \cup {OwnSession}

\* OnlyOpenedSessions by chains.
LEMMA OpenedChains ==
    OnlyOpenedSessions <=> Owned(obj.cache, base, opened) /\ Owned(row, base, opened)
BY DEF OnlyOpenedSessions, Owned, Chains, HasChain

\* A record made from an owned one and at most the new chain is owned.
LEMMA OwnedFrom ==
    ASSUME BridgeInv, NEW r \in Record, NEW q, NEW c, WellFormed(r, nextChain),
           Owned(r, base, opened), From(q, r, c), opened \subseteq opened',
           \/ base' = base /\ c \in Chains(r) \cup {NoChain}
           \/ \E s \in opened' \cup {OwnSession} :
                 /\ nextChain <= MaxChains /\ base' = [base EXCEPT ![nextChain] = s]
                 /\ c \in Chains(r) \cup {nextChain, NoChain}
    PROVE  Owned(q, base', opened')
<1> USE BridgeTypes
<1>1. \A d \in Chains(r) : d < nextChain
  BY DEF WellFormed, Known, Chains
<1>2. /\ base \in [1 .. MaxChains -> Sessions \cup {OwnSession}]
      /\ Chains(r) \subseteq Nat
  <2>1. r.cur \in State /\ r.prev \in Seq(State)
    BY DEF Record
  <2>2. \A i \in 1 .. Len(r.prev) : r.prev[i] \in State
    BY <2>1
  <2>3. \A st \in State : st.chain \in Nat
    BY DEF State
  <2>4. Chains(r) \subseteq Nat
    BY ONLY <2>1, <2>2, <2>3 DEF Chains
  <2> QED
    BY <2>4 DEF BridgeInv, TypeOK
<1>3. CASE base' = base /\ c \in Chains(r) \cup {NoChain}
  BY <1>3 DEF Owned, From
<1>4. ASSUME NEW s \in opened' \cup {OwnSession}, nextChain <= MaxChains,
             base' = [base EXCEPT ![nextChain] = s],
             c \in Chains(r) \cup {nextChain, NoChain}
      PROVE  Owned(q, base', opened')
  <2>1. base'[nextChain] = s /\ \A d \in 1 .. MaxChains : d # nextChain => base'[d] = base[d]
    BY <1>2, <1>4
  <2>2. \A d \in Chains(r) : d # NoChain => base'[d] = base[d]
    BY <1>1, <1>2, <1>4, <2>1 DEF NoChain
  <2> QED
    BY <1>4, <2>1, <2>2 DEF Owned, From
<1> QED
  BY <1>3, <1>4

\* What a call leaves to store is owned, once the session of a new chain is.
LEMMA StoreOwned ==
    ASSUME BridgeInv, OnlyOpenedSessions, NEW r, NEW c, From(r, obj.cache, c),
           opened \subseteq opened', row' = row,
           \/ c \in Chains(obj.cache) \cup {NoChain} /\ StoreSame(r)
           \/ c \in Chains(obj.cache) \cup {nextChain, NoChain}
              /\ \E s \in opened' \cup {OwnSession} : \E consumed : StoreFresh(r, s, consumed)
    PROVE  OnlyOpenedSessions'
<1> USE BridgeTypes
<1>1. obj'.cache = r
  BY DEF StoreSame, StoreFresh, Storing
<1>2. \/ base' = base /\ c \in Chains(obj.cache) \cup {NoChain}
      \/ \E s \in opened' \cup {OwnSession} :
            /\ nextChain <= MaxChains /\ base' = [base EXCEPT ![nextChain] = s]
            /\ c \in Chains(obj.cache) \cup {nextChain, NoChain}
  BY DEF StoreSame, StoreFresh
<1>3. Owned(obj.cache, base, opened) /\ Owned(row, base, opened)
  BY OpenedChains
<1>4. Owned(r, base', opened')
  BY <1>2, <1>3, OwnedFrom DEF BridgeInv
<1>5. Owned(row, base', opened')
  <2>1. From(row, row, NoChain)
    BY DEF From
  <2>2. \/ base' = base /\ NoChain \in Chains(row) \cup {NoChain}
        \/ \E s \in opened' \cup {OwnSession} :
              /\ nextChain <= MaxChains /\ base' = [base EXCEPT ![nextChain] = s]
              /\ NoChain \in Chains(row) \cup {nextChain, NoChain}
    BY <1>2
  <2> QED
    BY <1>3, <2>1, <2>2, OwnedFrom DEF BridgeInv
<1> QED
  BY <1>1, <1>4, <1>5, OpenedChains DEF OnlyOpenedSessions, Owned, Chains, HasChain
\* Every step keeps OnlyOpenedSessions.
LEMMA OpenedStep ==
    ASSUME BridgeInv, OnlyOpenedSessions, [Next]_vars
    PROVE  OnlyOpenedSessions'
<1> USE BridgeTypes
<1> DEFINE r == obj.cache
           n == nextChain
<1>1. Owned(r, base, opened) /\ Owned(row, base, opened)
  BY OpenedChains
<1>2. ASSUME UNCHANGED <<base, opened>>, row' \in {row, r},
             \E q \in {row, r} : From(obj'.cache, q, NoChain)
      PROVE  OnlyOpenedSessions'
  <2>1. Owned(row', base', opened')
    BY <1>1, <1>2
  <2>2. Owned(obj'.cache, base', opened')
    BY <1>1, <1>2 DEF Owned, From
  <2> QED
    BY <2>1, <2>2 DEF OnlyOpenedSessions, Owned, Chains, HasChain
<1>3. /\ From(r, r, NoChain) /\ From(row, row, NoChain) /\ From(Reloaded(row), row, NoChain)
      /\ From(Encrypted(r), r, NoChain) /\ From(EmptyRecord, r, NoChain)
      /\ From(Renewed(r, n), r, n)
  <2>1. NoChain \in Nat
    BY DEF NoChain
  <2> QED
    BY <2>1, OperationsFrom DEF From
<1>4. CASE \/ \E class \in {"cipher", "builder"} : Open(class)
           \/ Close \/ Restart
  <2>1. obj'.cache = EmptyRecord /\ UNCHANGED <<base, opened, row>>
    <3>1. \A class : [Gone EXCEPT !.pc = "idle", !.class = class].cache = EmptyRecord
      BY DEF Gone
    <3>2. CASE \E class \in {"cipher", "builder"} : Open(class)
      BY <3>1, <3>2 DEF Open
    <3>3. CASE Close \/ Restart
      BY <3>3, Objects DEF Close, Restart
    <3> QED
      BY <1>4, <3>2, <3>3
  <2> QED
    BY <1>2, <1>3, <2>1
<1>5. CASE \/ \E kind \in {"encrypt", "whisper", "bundle", "query"} : Begin(kind, OwnSession)
           \/ \E s \in Sessions : Begin("prekey", s)
  <2>1. obj'.cache \in {r, Reloaded(row)} /\ UNCHANGED <<base, opened, row>>
    BY <1>5 DEF Begin
  <2> QED
    BY <1>2, <1>3, <2>1
<1>6. CASE Encrypt
  <2>1. obj'.cache = Encrypted(r) /\ UNCHANGED <<base, opened, row>>
    BY <1>6 DEF Encrypt, Storing
  <2> QED
    BY <1>2, <1>3, <2>1
<1>7. CASE Stored \/ StoreFailed \/ RemovePrekey
  <2>1. obj'.cache = r /\ UNCHANGED <<base, opened>> /\ row' \in {row, r}
    BY <1>7 DEF Stored, StoreFailed, RemovePrekey, Idle
  <2> QED
    BY <1>2, <1>3, <2>1
<1>8. CASE Refuse
  <2>1. obj'.cache = r /\ UNCHANGED <<base, opened, row>>
    BY <1>8 DEF Refuse, Idle, StoreSame, Storing
  <2> QED
    BY <1>2, <1>3, <2>1
<1>9. CASE Bundle
  BY <1>3, <1>9, StoreOwned DEF Bundle
<1>10. CASE DecryptNew
  <2>1. opened' = opened \cup {obj.call.sess} /\ row' = row
        /\ StoreFresh(Renewed(r, n), obj.call.sess, obj.call.sess \in OneTime)
    BY <1>10 DEF DecryptNew
  <2>2. \E consumed : StoreFresh(Renewed(r, n), obj.call.sess, consumed)
    BY <2>1
  <2> QED
    BY <1>3, <2>1, <2>2, StoreOwned
<1>11. ASSUME NEW q \in Record, NEW c \in Chains(r) \cup {NoChain}, From(q, r, c),
              NEW s, DecryptCurrent(q, s), HasChain(q.cur) => s \in opened' \cup {OwnSession},
              opened \subseteq opened', row' = row
       PROVE  OnlyOpenedSessions'
  <2>1. CASE StoreSame(q)
    BY <1>11, <2>1, StoreOwned
  <2>2. CASE HasChain(q.cur) /\ StoreFresh(Ratcheted(q, n), s, FALSE)
    <3>1. From(Ratcheted(q, n), q, n)
      BY OperationsFrom
    <3>2. From(Ratcheted(q, n), r, n)
      BY <1>11, <3>1 DEF From
    <3> QED
      BY <1>11, <2>2, <3>2, StoreOwned
  <2> QED
    BY <1>11, <2>1, <2>2 DEF DecryptCurrent
<1>12. \A i \in 1 .. Len(r.prev) :
          /\ PromoteState(Taken(r, i), r.prev[i]) \in Record
          /\ From(PromoteState(Taken(r, i), r.prev[i]), r, r.prev[i].chain)
          /\ From(PromoteFreshState(Taken(r, i), FreshState(n)), r, n)
          /\ r.prev[i].chain \in Chains(r)
  <2> SUFFICES ASSUME NEW i \in 1 .. Len(r.prev)
               PROVE  /\ PromoteState(Taken(r, i), r.prev[i]) \in Record
                      /\ From(PromoteState(Taken(r, i), r.prev[i]), r, r.prev[i].chain)
                      /\ From(PromoteFreshState(Taken(r, i), FreshState(n)), r, n)
                      /\ r.prev[i].chain \in Chains(r)
    OBVIOUS
  <2>1. Taken(r, i) \in Record /\ r.prev[i] \in State
        /\ From(Taken(r, i), r, NoChain) /\ r.prev[i].chain \in Chains(r)
    BY TakenFrom
  <2>2. PromoteState(Taken(r, i), r.prev[i]) \in Record
    BY PromotedArchived DEF BridgeInv
  <2>3. From(PromoteState(Taken(r, i), r.prev[i]), Taken(r, i), r.prev[i].chain)
    BY <2>1, PromotionFrom
  <2>4. From(PromoteFreshState(Taken(r, i), FreshState(n)), Taken(r, i), n)
    <3>1. FreshState(n) \in State /\ FreshState(n).chain = n
      BY DEF FreshState, State, Counter
    <3> QED
      BY <2>1, <3>1, PromotionFrom
  <2> QED
    BY <2>1, <2>2, <2>3, <2>4 DEF From
<1>13. CASE DecryptSignal
  <2>1. opened' = opened /\ row' = row
    BY <1>13 DEF DecryptSignal
  <2>2. CASE DecryptCurrent(r, SessionOf(r.cur))
    <3>1. SessionOf(r.cur) \in opened' \cup {OwnSession}
      BY <1>1, <2>1 DEF SessionOf, Owned, Chains, HasChain
    <3> QED
      BY <1>3, <1>11, <2>1, <2>2, <3>1
  <2>3. ASSUME NEW i \in 1 .. Len(r.prev), StoreSame(PromoteState(Taken(r, i), r.prev[i]))
        PROVE  OnlyOpenedSessions'
    BY <1>12, <2>1, <2>3, StoreOwned
  <2>4. ASSUME NEW i \in 1 .. Len(r.prev), HasChain(r.prev[i]),
               StoreFresh(PromoteFreshState(Taken(r, i), FreshState(n)), base[r.prev[i].chain], FALSE)
        PROVE  OnlyOpenedSessions'
    <3>1. base[r.prev[i].chain] \in opened' \cup {OwnSession}
      BY <1>1, <1>12, <2>1, <2>4 DEF Owned, HasChain
    <3> QED
      BY <1>12, <2>1, <2>4, <3>1, StoreOwned
  <2> QED
    BY <1>13, <2>2, <2>3, <2>4 DEF DecryptSignal
<1>14. CASE DecryptKnown
  <2> DEFINE s == obj.call.sess
  <2>1. opened' = opened \cup {s} /\ row' = row
    BY <1>14 DEF DecryptKnown
  <2>2. CASE DecryptCurrent(r, s)
    BY <1>3, <1>11, <2>1, <2>2
  <2>3. ASSUME NEW i \in Archived(r, s), DecryptCurrent(PromoteState(Taken(r, i), r.prev[i]), s)
        PROVE  OnlyOpenedSessions'
    <3>1. i \in 1 .. Len(r.prev)
      BY DEF Archived
    <3> QED
      BY <1>11, <1>12, <2>1, <2>3, <3>1
  <2> QED
    BY <1>14, <2>2, <2>3 DEF DecryptKnown
<1>15. CASE UNCHANGED vars
  BY <1>2, <1>3, <1>15 DEF vars
<1> QED
  BY <1>4, <1>5, <1>6, <1>7, <1>8, <1>9, <1>10, <1>13, <1>14, <1>15 DEF Next

\* A pre-key message that fails leaves no session behind, in the cache or in
\* the storage: SessionCheckout's rollback, for every order of the calls.
THEOREM NoUnopenedSession == Spec => []OnlyOpenedSessions
<1>1. Init => OnlyOpenedSessions
  <2> SUFFICES ASSUME Init PROVE OnlyOpenedSessions
    OBVIOUS
  <2>1. obj.cache = EmptyRecord /\ row = EmptyRecord
    BY Objects DEF Init
  <2>2. Chains(EmptyRecord) = {NoChain}
    BY EmptyFacts, OperationsFrom
  <2> QED
    BY <2>1, <2>2, OpenedChains DEF Owned
<1> QED
  BY <1>1, OpenedStep, BridgeInvariance, PTL DEF Spec
=============================================================================
