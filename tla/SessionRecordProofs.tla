------------------------ MODULE SessionRecordProofs -------------------------
(***************************************************************************)
(* What the operators of SessionRecord preserve: a record that accounts    *)
(* for a set of messages still does after an encrypt, a ratchet, a         *)
(* promotion, a new session and a reload.                                  *)
(***************************************************************************)
EXTENDS SessionRecord, SequenceTheorems, TLAPS

\* What the constants are, in the form the provers use.
LEMMA Constants ==
    /\ BATCH \in Nat /\ 0 < BATCH
    /\ MAX_FORWARD \in Nat /\ BATCH <= MAX_FORWARD
    /\ ARCHIVED_MAX \in Nat /\ 0 < ARCHIVED_MAX
    /\ MAX_COUNTER \in Nat
BY LeaseAssumption

USE Constants

----------------------------------------------------------------------------
(* The record operators.                                                   *)

\* Archiving puts the state first and keeps archived states only: the list
\* that archive_current_state_inner leaves has no other members.
LEMMA ArchiveElements ==
    ASSUME NEW prev \in Seq(State), NEW st \in State
    PROVE  /\ Archive(prev, st) \in Seq(State)
           /\ Len(Archive(prev, st)) - 1 \in 0 .. Len(prev)
           /\ Archive(prev, st)[1] = st
           /\ \A k \in 2 .. Len(Archive(prev, st)) : Archive(prev, st)[k] = prev[k - 1]
<1> DEFINE kept == IF Len(prev) >= ARCHIVED_MAX
                   THEN SubSeq(prev, 1, Len(prev) - 1) ELSE prev
<1>1. /\ kept \in Seq(State)
      /\ Len(kept) \in 0 .. Len(prev)
      /\ \A k \in 1 .. Len(kept) : kept[k] = prev[k]
  OBVIOUS
<1>2. Archive(prev, st) = <<st>> \o kept
  BY DEF Archive
<1> HIDE DEF kept
<1>3. <<st>> \in Seq(State) /\ Len(<<st>>) = 1 /\ <<st>>[1] = st
  OBVIOUS
<1> QED
  BY <1>1, <1>2, <1>3

\* Taking a state out of the archive keeps the others in order
\* (take_previous_session).
LEMMA WithoutElements ==
    ASSUME NEW prev \in Seq(State), NEW i \in 1 .. Len(prev)
    PROVE  /\ Without(prev, i) \in Seq(State)
           /\ Len(Without(prev, i)) = Len(prev) - 1
           /\ \A k \in 1 .. Len(prev) - 1 :
                  Without(prev, i)[k] = IF k < i THEN prev[k] ELSE prev[k + 1]
<1> DEFINE a == SubSeq(prev, 1, i - 1)
           b == SubSeq(prev, i + 1, Len(prev))
<1>1. /\ a \in Seq(State) /\ Len(a) = i - 1
      /\ \A k \in 1 .. i - 1 : a[k] = prev[k]
  OBVIOUS
<1>2. /\ b \in Seq(State) /\ Len(b) = Len(prev) - i
      /\ \A k \in 1 .. Len(prev) - i : b[k] = prev[k + i]
  OBVIOUS
<1>3. Without(prev, i) = a \o b
  BY DEF Without
<1> HIDE DEF a, b
<1>4. a \o b \in Seq(State) /\ Len(a \o b) = Len(prev) - 1
  <2>1. a \o b \in Seq(State) /\ Len(a \o b) = Len(a) + Len(b)
    BY <1>1, <1>2, ConcatProperties
  <2> QED
    BY <1>1, <1>2, <2>1
<1>5. ASSUME NEW k \in 1 .. Len(prev) - 1
      PROVE  (a \o b)[k] = IF k < i THEN prev[k] ELSE prev[k + 1]
  <2>1. (a \o b)[k] = IF k <= Len(a) THEN a[k] ELSE b[k - Len(a)]
    BY <1>1, <1>2
  <2>2. CASE k < i
    BY <1>1, <2>1, <2>2
  <2>3. CASE ~(k < i)
    <3>1. k - (i - 1) \in 1 .. Len(prev) - i
      BY <2>3
    <3> QED
      BY <1>1, <1>2, <2>1, <2>3, <3>1
  <2> QED
    BY <2>2, <2>3
<1> QED
  BY <1>3, <1>4, <1>5

\* A state that was burned to a target, and kept its chain, is past the
\* target and past where it was (fast_forward_sender_chain_or_drop).
LEMMA BurnedState ==
    ASSUME NEW st \in State, NEW t \in Counter
    PROVE  LET b == FastForwardOrDrop(st, t)
           IN  /\ b \in State
               /\ HasChain(b) => b.chain = st.chain /\ st.idx <= b.idx /\ t <= b.idx
               /\ ~HasChain(b) => b.chain = NoChain
BY DEF State, Counter, FastForwardOrDrop, FastForward, FastForwardFails, HasChain,
       DroppedState, NoChain, SatSub

\* The state st names a chain that the record r does not.
Apart(st, r) ==
    HasChain(st) => /\ st.chain # r.cur.chain
                    /\ \A k \in 1 .. Len(r.prev) : r.prev[k].chain # st.chain

\* Messages with a counter below MAX_COUNTER on chains that exist.
Messages(S, n) ==
    /\ S \subseteq Nat \X Counter
    /\ \A m \in S : m[1] # NoChain /\ m[1] < n

\* Encrypting keeps the record well formed, and exact for the message it
\* produced as well (message_encrypt_inner).
LEMMA EncryptedRecord ==
    ASSUME NEW r \in Record, NEW n \in Nat, NEW S,
           WellFormed(r, n), Messages(S, n), Exact(r, S), CanEncrypt(r)
    PROVE  /\ Encrypted(r) \in Record
           /\ WellFormed(Encrypted(r), n)
           /\ Exact(Encrypted(r), S \cup {<<r.cur.chain, r.cur.idx>>})
           /\ Encrypted(r).cur.chain = r.cur.chain
           /\ Encrypted(r).cur.idx = r.cur.idx + 1
           /\ Encrypted(r).prev = r.prev
           /\ ~MustReserve(r, r.cur.idx) => Encrypted(r).ceil = r.ceil
<1> DEFINE q == Encrypted(r)
<1>1. /\ r.cur \in State /\ r.prev \in Seq(State) /\ r.ceil \in Counter
      /\ r.cur.idx \in Counter /\ r.cur.chain \in Nat
      /\ r.cur.idx + 1 \in Counter
  BY DEF Record, State, CanEncrypt, Counter
<1>2. /\ q.cur = [chain |-> r.cur.chain, idx |-> r.cur.idx + 1]
      /\ q.prev = r.prev
      /\ q.ceil = IF r.cur.idx >= r.ceil THEN SatAdd(r.cur.idx, BATCH) ELSE r.ceil
      /\ q = [cur |-> q.cur, prev |-> q.prev, ceil |-> q.ceil]
      /\ q.cur.chain = r.cur.chain /\ q.cur.idx = r.cur.idx + 1
  BY <1>1 DEF Encrypted, Reserve, MustReserve, Record, State
<1> HIDE DEF q
<1>3. /\ q.ceil \in Counter
      /\ q.ceil <= r.cur.idx + 1 + BATCH
  <2>1. r.ceil <= r.cur.idx + BATCH
    BY DEF WellFormed, WithinBatch, CanEncrypt
  <2>2. /\ SatAdd(r.cur.idx, BATCH) \in Counter
        /\ SatAdd(r.cur.idx, BATCH) <= r.cur.idx + 1 + BATCH
    <3>1. r.cur.idx \in Nat /\ r.cur.idx <= MAX_COUNTER
      BY <1>1 DEF Counter
    <3> QED
      BY <3>1 DEF SatAdd, Counter
  <2>3. CASE r.cur.idx >= r.ceil
    <3>1. q.ceil = SatAdd(r.cur.idx, BATCH)
      BY <1>2, <2>3
    <3> QED
      BY <2>2, <3>1
  <2>4. CASE ~(r.cur.idx >= r.ceil)
    <3>1. q.ceil = r.ceil
      BY <1>2, <2>4
    <3>2. r.cur.idx \in Nat /\ r.ceil \in Nat
      BY <1>1 DEF Counter
    <3> QED
      BY <1>1, <2>1, <3>1, <3>2
  <2> QED
    BY <2>3, <2>4
<1>4. q \in Record
  BY <1>1, <1>2, <1>3 DEF Record, State
<1>5. WellFormed(q, n)
  BY <1>1, <1>2, <1>3 DEF WellFormed, Known, Distinct, WithinBatch
<1>6. Exact(q, S \cup {<<r.cur.chain, r.cur.idx>>})
  <2> SUFFICES ASSUME NEW m \in S \cup {<<r.cur.chain, r.cur.idx>>}
               PROVE  /\ m[1] = q.cur.chain => m[2] < q.cur.idx
                      /\ \A i \in 1 .. Len(q.prev) :
                             m[1] = q.prev[i].chain => m[2] < q.prev[i].idx
    BY DEF Exact
  <2>1. CASE m \in S
    <3>1. m[1] \in Nat /\ m[2] \in Counter
      BY <2>1 DEF Messages
    <3>2. /\ m[1] = r.cur.chain => m[2] < r.cur.idx
          /\ \A i \in 1 .. Len(r.prev) : m[1] = r.prev[i].chain => m[2] < r.prev[i].idx
      BY <2>1 DEF Exact
    <3> QED
      BY <1>1, <1>2, <3>1, <3>2 DEF Counter
  <2>2. CASE m = <<r.cur.chain, r.cur.idx>>
    <3>1. m[1] = r.cur.chain /\ m[2] = r.cur.idx
      BY <2>2
    <3>2. ASSUME NEW i \in 1 .. Len(r.prev), r.prev[i].chain = r.cur.chain
          PROVE  FALSE
      BY <3>2 DEF WellFormed, Distinct, HasChain, CanEncrypt
    <3> QED
      BY <1>1, <1>2, <3>1, <3>2 DEF Counter
  <2> QED
    BY <2>1, <2>2
<1> QED
  BY <1>2, <1>4, <1>5, <1>6 DEF MustReserve, q

\* A ratchet step gives the record a chain nobody has sent on, leased for at
\* most one batch (rebase_lease_after_sender_chain_reset).
LEMMA RatchetedRecord ==
    ASSUME NEW r \in Record, NEW c \in Nat \ {0}, NEW S,
           WellFormed(r, c), Messages(S, c), Exact(r, S)
    PROVE  /\ Ratcheted(r, c) \in Record
           /\ WellFormed(Ratcheted(r, c), c + 1)
           /\ Exact(Ratcheted(r, c), S)
           /\ Ratcheted(r, c).cur.chain = c
<1> DEFINE q == Ratcheted(r, c)
<1>1. r.cur \in State /\ r.prev \in Seq(State) /\ r.ceil \in Counter
  BY DEF Record
<1>2. /\ q = [cur |-> [chain |-> c, idx |-> 0], prev |-> r.prev, ceil |-> Min2(r.ceil, BATCH)]
      /\ q.cur.chain = c /\ q.cur.idx = 0 /\ q.prev = r.prev
  <2>1. q = [cur |-> [chain |-> c, idx |-> 0], prev |-> r.prev, ceil |-> Min2(r.ceil, BATCH)]
    BY DEF Ratcheted, FreshState
  <2> QED
    BY <2>1
<1>3. q.ceil \in Counter /\ q.ceil <= BATCH
  BY <1>1, <1>2 DEF Min2, Counter
<1>4. \A i \in 1 .. Len(r.prev) : r.prev[i] \in State /\ r.prev[i].chain \in Nat
  <2>1. \A i \in 1 .. Len(r.prev) : r.prev[i] \in State
    BY <1>1
  <2> QED
    BY <2>1 DEF State
<1> HIDE DEF q
<1>5. q \in Record
  BY <1>1, <1>2, <1>3 DEF Record, State, Counter
<1>6. WellFormed(q, c + 1)
  <2>1. Known(q, c + 1)
    BY <1>2, <1>4 DEF WellFormed, Known
  <2>2. Distinct(q)
    BY <1>2, <1>4 DEF WellFormed, Known, Distinct
  <2>3. WithinBatch(q)
    BY <1>2, <1>3 DEF WithinBatch, Counter
  <2> QED
    BY <2>1, <2>2, <2>3 DEF WellFormed
<1>7. Exact(q, S)
  BY <1>2 DEF Exact, Messages
<1> QED
  BY <1>2, <1>5, <1>6, <1>7 DEF q

\* Taking an archived state out leaves a well-formed record that no longer
\* names its chain.
LEMMA TakenRecord ==
    ASSUME NEW r \in Record, NEW n \in Nat, NEW S, NEW i \in 1 .. Len(r.prev),
           WellFormed(r, n), Messages(S, n), Exact(r, S)
    PROVE  LET q  == [r EXCEPT !.prev = Without(@, i)]
               st == r.prev[i]
           IN  /\ q \in Record
               /\ WellFormed(q, n)
               /\ Exact(q, S)
               /\ st \in State
               /\ st.chain < n
               /\ \A m \in S : m[1] = st.chain => m[2] < st.idx
               /\ Apart(st, q)
<1> DEFINE q  == [r EXCEPT !.prev = Without(@, i)]
           w  == Without(r.prev, i)
           at(k) == IF k < i THEN k ELSE k + 1
<1>1. r.cur \in State /\ r.prev \in Seq(State) /\ r.ceil \in Counter
  BY DEF Record
<1>2. /\ q = [cur |-> r.cur, prev |-> w, ceil |-> r.ceil]
      /\ q.cur = r.cur /\ q.prev = w /\ q.ceil = r.ceil
  BY DEF Record
<1>3. /\ w \in Seq(State)
      /\ Len(w) = Len(r.prev) - 1
      /\ \A k \in 1 .. Len(w) : w[k] = r.prev[at(k)]
  <2>1. /\ w \in Seq(State)
        /\ Len(w) = Len(r.prev) - 1
        /\ \A k \in 1 .. Len(r.prev) - 1 :
               w[k] = IF k < i THEN r.prev[k] ELSE r.prev[k + 1]
    BY <1>1, WithoutElements
  <2> HIDE DEF w
  <2> QED
    BY <2>1
<1>4. /\ Len(r.prev) \in Nat
      /\ \A k \in 1 .. Len(w) : at(k) \in 1 .. Len(r.prev) /\ at(k) # i
      /\ \A j, k \in 1 .. Len(w) : at(j) = at(k) => j = k
  BY <1>1, <1>3
<1>5. r.prev[i] \in State
  BY <1>1
<1> HIDE DEF q, w, at
<1>6. q \in Record
  BY <1>1, <1>2, <1>3 DEF Record
<1>7. WellFormed(q, n)
  <2>1. Known(q, n) /\ WithinBatch(q)
    BY <1>2, <1>3, <1>4 DEF WellFormed, Known, WithinBatch
  <2>2. ASSUME NEW k \in 1 .. Len(w), HasChain(w[k])
        PROVE  /\ w[k].chain # r.cur.chain
               /\ \A j \in 1 .. Len(w) : w[j].chain = w[k].chain => k = j
    <3>1. /\ r.prev[at(k)].chain # r.cur.chain
          /\ \A j \in 1 .. Len(r.prev) :
                 r.prev[j].chain = r.prev[at(k)].chain => at(k) = j
      BY <1>3, <1>4, <2>2 DEF WellFormed, Distinct
    <3> QED
      BY <1>3, <1>4, <3>1
  <2>3. Distinct(q)
    BY <1>2, <2>2 DEF Distinct
  <2> QED
    BY <2>1, <2>3 DEF WellFormed
<1>8. Exact(q, S)
  BY <1>2, <1>3, <1>4 DEF Exact
<1>9. /\ r.prev[i].chain < n
      /\ \A m \in S : m[1] = r.prev[i].chain => m[2] < r.prev[i].idx
  BY DEF WellFormed, Known, Exact
<1>10. Apart(r.prev[i], q)
  BY <1>2, <1>3, <1>4 DEF WellFormed, Distinct, Apart
<1> QED
  BY <1>5, <1>6, <1>7, <1>8, <1>9, <1>10 DEF q

\* Archiving a state that the archive does not name keeps every fact about
\* the members of the list.
LEMMA ArchivedMembers ==
    ASSUME NEW r \in Record, NEW x \in State, NEW n \in Nat, NEW S,
           WellFormed(r, n), Exact(r, S), Messages(S, n),
           x.chain < n,
           \A m \in S : m[1] = x.chain => m[2] < x.idx,
           HasChain(x) => \A k \in 1 .. Len(r.prev) : r.prev[k].chain # x.chain
    PROVE  LET a == Archive(r.prev, x)
           IN  /\ a \in Seq(State)
               /\ \A k \in 1 .. Len(a) : a[k].chain < n
               /\ \A k \in 1 .. Len(a) : \A m \in S : m[1] = a[k].chain => m[2] < a[k].idx
               /\ \A k \in 1 .. Len(a) : HasChain(a[k]) =>
                      \A j \in 1 .. Len(a) : a[j].chain = a[k].chain => k = j
               /\ \A k \in 1 .. Len(a) :
                      a[k] = x \/ \E j \in 1 .. Len(r.prev) : a[k] = r.prev[j]
<1> DEFINE a == Archive(r.prev, x)
<1>1. r.prev \in Seq(State) /\ Len(r.prev) \in Nat
  BY DEF Record
<1>2. /\ a \in Seq(State) /\ Len(a) \in Nat
      /\ Len(a) - 1 \in 0 .. Len(r.prev)
      /\ a[1] = x
      /\ \A k \in 2 .. Len(a) : a[k] = r.prev[k - 1]
  <2>1. /\ a \in Seq(State)
        /\ Len(a) - 1 \in 0 .. Len(r.prev)
        /\ a[1] = x
        /\ \A k \in 2 .. Len(a) : a[k] = r.prev[k - 1]
    BY <1>1, ArchiveElements
  <2> HIDE DEF a
  <2> QED
    BY <2>1
<1> HIDE DEF a
<1>3. \A k \in 2 .. Len(a) : k - 1 \in 1 .. Len(r.prev)
  BY <1>1, <1>2
<1>4. \A k \in 1 .. Len(a) :
          \/ k = 1 /\ a[k] = x
          \/ k \in 2 .. Len(a) /\ k - 1 \in 1 .. Len(r.prev) /\ a[k] = r.prev[k - 1]
  BY <1>2, <1>3
<1>5. \A k \in 1 .. Len(a) : a[k].chain < n
  BY <1>4 DEF WellFormed, Known
<1>6. \A k \in 1 .. Len(a) : \A m \in S : m[1] = a[k].chain => m[2] < a[k].idx
  BY <1>4 DEF Exact
<1>7. ASSUME NEW k \in 1 .. Len(a), HasChain(a[k]),
             NEW j \in 1 .. Len(a), a[j].chain = a[k].chain
      PROVE  k = j
  <2>1. HasChain(a[j])
    BY <1>7 DEF HasChain
  <2>2. CASE k = 1 /\ j = 1
    BY <2>2
  <2>3. CASE k = 1 /\ j # 1
    <3>1. a[k] = x /\ j - 1 \in 1 .. Len(r.prev) /\ a[j] = r.prev[j - 1]
      BY <1>4, <2>3
    <3> QED
      BY <1>7, <3>1
  <2>4. CASE k # 1 /\ j = 1
    <3>1. a[j] = x /\ k - 1 \in 1 .. Len(r.prev) /\ a[k] = r.prev[k - 1]
      BY <1>4, <2>4
    <3> QED
      BY <1>7, <2>1, <3>1
  <2>5. CASE k # 1 /\ j # 1
    <3>1. /\ k - 1 \in 1 .. Len(r.prev) /\ a[k] = r.prev[k - 1]
          /\ j - 1 \in 1 .. Len(r.prev) /\ a[j] = r.prev[j - 1]
      BY <1>4, <2>5
    <3>2. k - 1 = j - 1
      BY <1>7, <3>1 DEF WellFormed, Distinct
    <3> QED
      BY <3>2
  <2> QED
    BY <2>2, <2>3, <2>4, <2>5
<1> QED
  BY <1>2, <1>4, <1>5, <1>6, <1>7 DEF a

\* promote_state: the promoted state has skipped the whole lease, so what it
\* sends next needs a new one.
LEMMA PromotedRecord ==
    ASSUME NEW r \in Record, NEW st \in State, NEW n \in Nat, NEW S,
           WellFormed(r, n), Messages(S, n), Exact(r, S),
           st.chain < n, Apart(st, r),
           \A m \in S : m[1] = st.chain => m[2] < st.idx
    PROVE  LET q == PromoteState(r, st)
           IN  /\ q \in Record
               /\ WellFormed(q, n)
               /\ Exact(q, S)
               /\ HasChain(q.cur) => q.ceil <= q.cur.idx
<1> DEFINE b == FastForwardOrDrop(st, r.ceil)
           a == Archive(r.prev, r.cur)
           q == PromoteState(r, st)
<1>1. r.cur \in State /\ r.prev \in Seq(State) /\ r.ceil \in Counter
  BY DEF Record
<1>2. /\ b \in State
      /\ HasChain(b) => b.chain = st.chain /\ st.idx <= b.idx /\ r.ceil <= b.idx
      /\ ~HasChain(b) => b.chain = NoChain
  BY <1>1, BurnedState
<1>3. /\ r.cur.chain < n
      /\ \A m \in S : m[1] = r.cur.chain => m[2] < r.cur.idx
      /\ HasChain(r.cur) => \A k \in 1 .. Len(r.prev) : r.prev[k].chain # r.cur.chain
  BY DEF WellFormed, Known, Distinct, Exact, HasChain
<1>4. /\ a \in Seq(State)
      /\ \A k \in 1 .. Len(a) : a[k].chain < n
      /\ \A k \in 1 .. Len(a) : \A m \in S : m[1] = a[k].chain => m[2] < a[k].idx
      /\ \A k \in 1 .. Len(a) : HasChain(a[k]) =>
             \A j \in 1 .. Len(a) : a[j].chain = a[k].chain => k = j
      /\ \A k \in 1 .. Len(a) :
             a[k] = r.cur \/ \E j \in 1 .. Len(r.prev) : a[k] = r.prev[j]
  BY <1>1, <1>3, ArchivedMembers
<1>5. q.cur = b /\ q.prev = a /\ q.ceil = r.ceil
      /\ q = [cur |-> b, prev |-> a, ceil |-> r.ceil]
  BY DEF PromoteState
<1> HIDE DEF a, b, q
<1>6. q \in Record
  BY <1>1, <1>2, <1>4, <1>5 DEF Record
<1>7. b.idx \in Nat /\ b.chain \in Nat /\ st.idx \in Nat /\ st.chain \in Nat /\ r.ceil \in Nat
  BY <1>1, <1>2 DEF State, Counter
<1>8. b.chain < n
  BY <1>2, <1>7 DEF NoChain, WellFormed, Known, HasChain
<1>9. Known(q, n)
  BY <1>4, <1>5, <1>8 DEF Known
<1>10. ASSUME NEW k \in 1 .. Len(a), HasChain(a[k])
       PROVE  a[k].chain # b.chain
  <2>1. CASE ~HasChain(b)
    BY <1>2, <1>10, <2>1 DEF HasChain
  <2>2. CASE HasChain(b)
    <3>1. b.chain = st.chain /\ HasChain(st)
      BY <1>2, <2>2 DEF HasChain
    <3> QED
      BY <1>4, <3>1 DEF Apart
  <2> QED
    BY <2>1, <2>2
<1>11. Distinct(q)
  BY <1>4, <1>5, <1>10 DEF Distinct
<1>12. WithinBatch(q)
  BY <1>2, <1>5, <1>7 DEF WithinBatch
<1>13. ASSUME NEW m \in S, m[1] = b.chain
       PROVE  m[2] < b.idx
  <2>1. HasChain(b) /\ m[2] \in Nat
    BY <1>13 DEF Messages, HasChain, Counter
  <2>2. m[2] < st.idx
    BY <1>2, <1>13, <2>1
  <2> QED
    BY <1>2, <1>7, <2>1, <2>2
<1>14. Exact(q, S)
  BY <1>4, <1>5, <1>13 DEF Exact
<1> QED
  BY <1>2, <1>5, <1>6, <1>9, <1>11, <1>12, <1>14 DEF WellFormed, q

\* promote_fresh_state: the retired state is archived past its lease, and
\* the new chain starts without one.
LEMMA PromotedFreshRecord ==
    ASSUME NEW r \in Record, NEW c \in Nat \ {0}, NEW S,
           WellFormed(r, c), Messages(S, c), Exact(r, S)
    PROVE  LET q == PromoteFreshState(r, FreshState(c))
           IN  /\ q \in Record
               /\ WellFormed(q, c + 1)
               /\ Exact(q, S)
               /\ q.cur.chain = c
<1> DEFINE b == FastForwardOrDrop(r.cur, r.ceil)
           a == Archive(r.prev, b)
           q == PromoteFreshState(r, FreshState(c))
<1>1. r.cur \in State /\ r.prev \in Seq(State) /\ r.ceil \in Counter
  BY DEF Record
<1>2. /\ b \in State
      /\ HasChain(b) => b.chain = r.cur.chain /\ r.cur.idx <= b.idx
      /\ ~HasChain(b) => b.chain = NoChain
  BY <1>1, BurnedState
<1>3. b.idx \in Nat /\ b.chain \in Nat /\ r.cur.idx \in Nat /\ r.cur.chain \in Nat
  BY <1>1, <1>2 DEF State, Counter
<1> HIDE DEF b
<1>4. b.chain < c
  BY <1>2, <1>3 DEF NoChain, WellFormed, Known, HasChain
<1>5. ASSUME NEW m \in S, m[1] = b.chain
      PROVE  m[2] < b.idx
  <2>1. HasChain(b) /\ m[2] \in Nat
    BY <1>5 DEF Messages, HasChain, Counter
  <2>2. m[2] < r.cur.idx
    BY <1>2, <1>5, <2>1 DEF Exact
  <2> QED
    BY <1>2, <1>3, <2>1, <2>2
<1>6. HasChain(b) => \A k \in 1 .. Len(r.prev) : r.prev[k].chain # b.chain
  BY <1>2 DEF WellFormed, Distinct, HasChain
<1>7. /\ a \in Seq(State)
      /\ \A k \in 1 .. Len(a) : a[k].chain < c
      /\ \A k \in 1 .. Len(a) : \A m \in S : m[1] = a[k].chain => m[2] < a[k].idx
      /\ \A k \in 1 .. Len(a) : HasChain(a[k]) =>
             \A j \in 1 .. Len(a) : a[j].chain = a[k].chain => k = j
  BY <1>2, <1>4, <1>5, <1>6, ArchivedMembers
<1>8. /\ q = [cur |-> [chain |-> c, idx |-> 0], prev |-> a, ceil |-> 0]
      /\ q.cur.chain = c /\ q.cur.idx = 0 /\ q.prev = a /\ q.ceil = 0
  <2>1. q = [cur |-> [chain |-> c, idx |-> 0], prev |-> a, ceil |-> 0]
    BY DEF PromoteFreshState, FreshState, b
  <2> QED
    BY <2>1
<1>9. \A k \in 1 .. Len(a) : a[k].chain \in Nat
  <2>1. \A k \in 1 .. Len(a) : a[k] \in State
    BY <1>7
  <2> QED
    BY <2>1 DEF State
<1> HIDE DEF a, q
<1>10. q \in Record
  BY <1>7, <1>8 DEF Record, State, Counter
<1>11. Known(q, c + 1)
  BY <1>7, <1>8, <1>9 DEF Known
<1>12. Distinct(q)
  BY <1>7, <1>8, <1>9 DEF Distinct
<1>13. WithinBatch(q)
  BY <1>8 DEF WithinBatch
<1>14. Exact(q, S)
  BY <1>7, <1>8 DEF Exact, Messages
<1> QED
  BY <1>8, <1>10, <1>11, <1>12, <1>13, <1>14 DEF WellFormed, q

----------------------------------------------------------------------------
(* The invariant, one action at a time.                                    *)

\* The empty record is well formed and exact for any messages.
LEMMA EmptyFacts ==
    /\ EmptyRecord \in Record
    /\ \A n \in Nat \ {0} : WellFormed(EmptyRecord, n)
    /\ \A S, n : Messages(S, n) => Exact(EmptyRecord, S)
    /\ \A S, n : Messages(S, n) => \A m \in S : Covers(EmptyRecord, m)
    /\ ~HasChain(EmptyRecord.cur)
<1>1. /\ EmptyRecord.cur = [chain |-> 0, idx |-> 0]
      /\ EmptyRecord.prev = <<>> /\ EmptyRecord.ceil = 0 /\ Len(EmptyRecord.prev) = 0
      /\ EmptyRecord = [cur |-> [chain |-> 0, idx |-> 0], prev |-> <<>>, ceil |-> 0]
  BY DEF EmptyRecord, DroppedState, NoChain
<1>2. EmptyRecord \in Record
  BY <1>1 DEF Record, State, Counter
<1>3. \A n \in Nat \ {0} : WellFormed(EmptyRecord, n)
  BY <1>1 DEF WellFormed, Known, Distinct, WithinBatch, HasChain, NoChain
<1>4. \A S, n : Messages(S, n) => Exact(EmptyRecord, S)
  BY <1>1 DEF Messages, Exact, NoChain
<1>5. \A S, n : Messages(S, n) => \A m \in S : Covers(EmptyRecord, m)
  BY <1>1 DEF Messages, Covers, NoChain
<1> QED
  BY <1>1, <1>2, <1>3, <1>4, <1>5 DEF HasChain, NoChain

\* A record that knows its chains keeps knowing them as new ones appear.
LEMMA WellFormedGrows ==
    ASSUME NEW r \in Record, NEW n \in Nat, WellFormed(r, n)
    PROVE  WellFormed(r, n + 1)
<1>1. r.cur \in State /\ r.prev \in Seq(State)
  BY DEF Record
<1>2. r.cur.chain \in Nat /\ \A i \in 1 .. Len(r.prev) : r.prev[i].chain \in Nat
  <2>1. \A i \in 1 .. Len(r.prev) : r.prev[i] \in State
    BY <1>1
  <2> QED
    BY <1>1, <2>1 DEF State
<1> QED
  BY <1>2 DEF WellFormed, Known

\* A record exact for some messages covers them too.
LEMMA ExactCovers ==
    ASSUME NEW r, NEW S, Exact(r, S)
    PROVE  \A m \in S : Covers(r, m)
BY DEF Exact, Covers

\* A reload past the lease turns what the row covers into what it is exact
\* for, and the reloaded chain sends next only under a new lease.
LEMMA ReloadedRecord ==
    ASSUME NEW r \in Record, NEW n \in Nat, NEW S, WellFormed(r, n), Messages(S, n),
           \A m \in S : Covers(r, m)
    PROVE  /\ Reloaded(r) \in Record
           /\ WellFormed(Reloaded(r), n)
           /\ Exact(Reloaded(r), S)
           /\ HasChain(Reloaded(r).cur) => Reloaded(r).ceil <= Reloaded(r).cur.idx
           /\ ~ReloadFails(r)
<1> DEFINE b == FastForward(r.cur, r.ceil)
           q == Reloaded(r)
<1>1. /\ r.cur \in State /\ r.prev \in Seq(State) /\ r.ceil \in Counter
      /\ r.ceil \in Nat /\ r.cur.idx \in Nat
  BY DEF Record, State, Counter
<1>2. /\ b \in State /\ b.chain = r.cur.chain /\ r.cur.idx <= b.idx
      /\ HasChain(b) => r.ceil <= b.idx
  <2>1. CASE HasChain(r.cur) /\ r.cur.idx < r.ceil
    <3>1. b = [chain |-> r.cur.chain, idx |-> r.ceil] /\ b.idx = r.ceil
      BY <1>1, <2>1 DEF FastForward, State
    <3> HIDE DEF b
    <3> QED
      BY <1>1, <2>1, <3>1 DEF State, HasChain
  <2>2. CASE ~(HasChain(r.cur) /\ r.cur.idx < r.ceil)
    <3>1. b = r.cur
      BY <2>2 DEF FastForward
    <3> HIDE DEF b
    <3> QED
      BY <1>1, <2>2, <3>1
  <2> QED
    BY <2>1, <2>2
<1>3. /\ q = [cur |-> b, prev |-> r.prev, ceil |-> r.ceil]
      /\ q.cur = b /\ q.prev = r.prev /\ q.ceil = r.ceil
  BY DEF Reloaded, Record
<1> HIDE DEF b, q
<1>4. b.idx \in Nat
  BY <1>2 DEF State, Counter
<1>5. q \in Record
  BY <1>1, <1>2, <1>3 DEF Record
<1>6. WellFormed(q, n)
  <2>1. Known(q, n) /\ Distinct(q)
    BY <1>2, <1>3 DEF WellFormed, Known, Distinct
  <2>2. WithinBatch(q)
    BY <1>1, <1>2, <1>3, <1>4 DEF WithinBatch
  <2> QED
    BY <2>1, <2>2 DEF WellFormed
<1>7. ASSUME NEW m \in S, m[1] = b.chain
      PROVE  m[2] < b.idx
  <2>1. m[2] \in Nat /\ HasChain(b)
    BY <1>7 DEF Messages, Counter, HasChain
  <2>2. m[2] < r.cur.idx \/ m[2] < r.ceil
    BY <1>2, <1>7 DEF Covers
  <2> QED
    BY <1>1, <1>2, <1>4, <2>1, <2>2
<1>8. Exact(q, S)
  BY <1>3, <1>7 DEF Exact, Covers
<1>9. ~ReloadFails(r)
  BY <1>1 DEF ReloadFails, FastForwardFails, SatSub, WellFormed, WithinBatch
<1> QED
  BY <1>2, <1>3, <1>5, <1>6, <1>8, <1>9 DEF q
=============================================================================
