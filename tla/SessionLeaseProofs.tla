------------------------- MODULE SessionLeaseProofs -------------------------
(***************************************************************************)
(* Proofs about SessionLease for every batch size, fast-forward limit,     *)
(* archive length, counter width and number of chains.                     *)
(***************************************************************************)
EXTENDS SessionLease, SessionRecordProofs

USE Constants

----------------------------------------------------------------------------
\* The messages of a state of the invariant are on existing chains.
LEMMA SentMessages ==
    ASSUME LeaseInv
    PROVE  Messages(Sent, nextChain) /\ Messages(outbox, nextChain) /\ Messages(wire, nextChain)
BY DEF LeaseInv, TypeOK, ChainInv, Messages, Sent

\* Storing a record that sends next on a new chain, or only under a new
\* lease, keeps the invariant whatever the flush is doing.
LEMMA PutKeepsInv ==
    ASSUME LeaseInv, NEW r \in Record, Put(r, FALSE), UNCHANGED <<outbox, wire>>,
           nextChain' \in {nextChain, nextChain + 1},
           WellFormed(r, nextChain'), Exact(r, Sent),
           HasChain(r.cur) /\ r.cur.idx < r.ceil => r.cur.chain = nextChain
    PROVE  LeaseInv'
<1>1. /\ entry' = "Present" /\ mem' = r /\ dirty' = TRUE /\ gate' = gate
      /\ unchanged' = FALSE
      /\ row' = row /\ disk' = disk /\ flush' = flush /\ snap' = snap
      /\ outbox' = outbox /\ wire' = wire
  BY DEF Put, storeVars, LeaseInv, TypeOK
<1>2. TypeOK'
  <2>1. nextChain' \in Nat \ {0}
    BY DEF LeaseInv, TypeOK
  <2> QED
    BY <1>1, <2>1 DEF LeaseInv, TypeOK
<1>3. SlotInv'
  BY <1>1 DEF LeaseInv, SlotInv
<1>4. nextChain \in Nat \ {0} /\ disk \in Record /\ snap \in Record
  BY DEF LeaseInv, TypeOK
<1>5. /\ WellFormed(disk, nextChain) /\ WellFormed(snap, nextChain)
      /\ WellFormed(disk, nextChain') /\ WellFormed(snap, nextChain')
  BY <1>4, WellFormedGrows DEF LeaseInv, ChainInv
<1>6. ChainInv'
  <2>1. ASSUME NEW m \in Sent'
        PROVE  m[1] # NoChain /\ m[1] < nextChain'
    <3>1. m \in Sent /\ m[1] \in Nat
      BY <1>1 DEF Sent, LeaseInv, TypeOK
    <3> QED
      BY <1>4, <3>1 DEF LeaseInv, ChainInv
  <2> QED
    BY <1>1, <1>5, <2>1 DEF ChainInv
<1>7. Exact(mem, Sent)'
  BY <1>1 DEF Exact, Sent
<1>8. ASSUME NEW d, WellFormed(d, nextChain)
      PROVE  LeaseWithin(d)'
  <2>1. nextChain # d.cur.chain /\ \A i \in 1 .. Len(d.prev) : nextChain # d.prev[i].chain
    BY <1>4, <1>8 DEF WellFormed, Known
  <2> QED
    BY <1>1, <2>1 DEF LeaseWithin
<1>9. DiskInv'
  BY <1>1, <1>5, <1>8 DEF LeaseInv, DiskInv
<1>10. SnapInv'
  BY <1>1, <1>5, <1>8 DEF LeaseInv, SnapInv
<1> QED
  BY <1>2, <1>3, <1>6, <1>7, <1>9, <1>10 DEF LeaseInv

\* message_encrypt: a message under the lease is already covered by the row
\* and by any snapshot in flight; one past it raises the gate.
LEMMA EncryptKeepsInv ==
    ASSUME LeaseInv, Encrypt
    PROVE  LeaseInv'
<1> DEFINE msg == <<mem.cur.chain, mem.cur.idx>>
           q   == Encrypted(mem)
           raised == MustReserve(mem, mem.cur.idx)
<1>1. /\ entry' = "Present" /\ mem' = q /\ dirty' = TRUE /\ gate' = (gate \/ raised)
      /\ unchanged' = FALSE
      /\ row' = row /\ disk' = disk /\ flush' = flush /\ snap' = snap
      /\ outbox' = outbox \cup {msg} /\ wire' = wire /\ nextChain' = nextChain
      /\ CanEncrypt(mem)
  BY DEF Encrypt, Put, storeVars
<1>2. /\ mem \in Record /\ nextChain \in Nat /\ WellFormed(mem, nextChain)
      /\ Exact(mem, Sent) /\ Messages(Sent, nextChain)
  BY SentMessages DEF LeaseInv, TypeOK, ChainInv
<1>3. /\ q \in Record
      /\ WellFormed(q, nextChain)
      /\ Exact(q, Sent \cup {msg})
      /\ q.cur.chain = mem.cur.chain
      /\ q.cur.idx = mem.cur.idx + 1
      /\ ~raised => q.ceil = mem.ceil
  BY <1>1, <1>2, EncryptedRecord
<1>4. /\ mem.cur.chain \in Nat /\ mem.cur.idx \in Counter /\ mem.ceil \in Counter
      /\ HasChain(mem.cur) /\ mem.cur.chain < nextChain
      /\ raised \in BOOLEAN /\ (~raised => mem.cur.idx < mem.ceil)
  BY <1>1, <1>2 DEF Record, State, CanEncrypt, WellFormed, Known, MustReserve, Counter
<1>5. /\ msg \in Nat \X Counter /\ msg[1] = mem.cur.chain /\ msg[2] = mem.cur.idx
  BY <1>4
<1> HIDE DEF msg, q, raised
<1>6. TypeOK'
  BY <1>1, <1>3, <1>4, <1>5 DEF LeaseInv, TypeOK
<1>7. SlotInv'
  BY <1>1 DEF LeaseInv, SlotInv
<1>8. Sent' = Sent \cup {msg}
  BY <1>1 DEF Sent
<1>9. ChainInv'
  BY <1>1, <1>3, <1>4, <1>5, <1>8 DEF LeaseInv, ChainInv, HasChain
<1>10. Exact(mem, Sent)'
  BY <1>1, <1>3, <1>8
<1>11. ASSUME NEW d \in Record, ~raised, LeaseWithin(d)
       PROVE  Covers(d, msg)
  <2>1. /\ mem.cur.chain = d.cur.chain => mem.ceil <= d.cur.idx \/ mem.ceil <= d.ceil
        /\ \A i \in 1 .. Len(d.prev) :
               mem.cur.chain = d.prev[i].chain => mem.ceil <= d.prev[i].idx
    BY <1>4, <1>11 DEF LeaseWithin
  <2>2. /\ d.cur.idx \in Nat /\ d.ceil \in Nat
        /\ \A i \in 1 .. Len(d.prev) : d.prev[i].idx \in Nat
    <3>1. \A i \in 1 .. Len(d.prev) : d.prev[i] \in State
      BY DEF Record
    <3> QED
      BY <3>1 DEF Record, State, Counter
  <2>3. mem.cur.idx \in Nat /\ mem.ceil \in Nat /\ mem.cur.idx < mem.ceil
    BY <1>4, <1>11 DEF Counter
  <2>4. msg[1] = d.cur.chain => msg[2] < d.cur.idx \/ msg[2] < d.ceil
    BY <1>5, <2>1, <2>2, <2>3
  <2>5. ASSUME NEW i \in 1 .. Len(d.prev), msg[1] = d.prev[i].chain
        PROVE  msg[2] < d.prev[i].idx
    <3>1. mem.ceil <= d.prev[i].idx /\ d.prev[i].idx \in Nat
      BY <1>5, <2>1, <2>2, <2>5
    <3> QED
      BY <1>5, <2>3, <3>1
  <2> QED
    BY <2>4, <2>5 DEF Covers
<1>12. disk \in Record /\ snap \in Record
  BY DEF LeaseInv, TypeOK
<1>13. DiskInv'
  <2>1. \A m \in wire' : Covers(disk', m)
    BY <1>1 DEF LeaseInv, DiskInv
  <2>2. ASSUME ~gate'
        PROVE  (\A m \in outbox' : Covers(disk', m)) /\ LeaseWithin(disk)'
    <3>1. ~gate /\ ~raised
      BY <1>1, <2>2
    <3>2. (\A m \in outbox : Covers(disk, m)) /\ LeaseWithin(disk)
      BY <3>1 DEF LeaseInv, DiskInv
    <3>3. Covers(disk, msg)
      BY <1>11, <1>12, <3>1, <3>2
    <3>4. LeaseWithin(disk)'
      BY <1>1, <1>3, <1>4, <3>1, <3>2 DEF LeaseWithin
    <3> QED
      BY <1>1, <3>2, <3>3, <3>4
  <2> QED
    BY <2>1, <2>2 DEF DiskInv
<1>14. SnapInv'
  <2>1. ASSUME flush' = "captured"
        PROVE  \A m \in wire' : Covers(snap', m)
    BY <1>1, <2>1 DEF LeaseInv, SnapInv
  <2>2. ASSUME flush' = "captured", unchanged' \/ ~gate'
        PROVE  (\A m \in outbox' : Covers(snap', m)) /\ LeaseWithin(snap)'
    <3>1. ~gate /\ ~raised /\ flush = "captured"
      BY <1>1, <2>2
    <3>2. (\A m \in outbox : Covers(snap, m)) /\ LeaseWithin(snap)
      BY <3>1 DEF LeaseInv, SnapInv
    <3>3. Covers(snap, msg)
      BY <1>11, <1>12, <3>1, <3>2
    <3>4. LeaseWithin(snap)'
      BY <1>1, <1>3, <1>4, <3>1, <3>2 DEF LeaseWithin
    <3> QED
      BY <1>1, <3>2, <3>3, <3>4
  <2> QED
    BY <2>1, <2>2 DEF SnapInv
<1> QED
  BY <1>6, <1>7, <1>9, <1>10, <1>13, <1>14 DEF LeaseInv

\* The decrypts that replace the current chain or promote an archived state,
\* and new sessions.
LEMMA DecryptKeepsInv ==
    ASSUME LeaseInv,
           \/ DecryptRatchet
           \/ \E i \in 1 .. Len(mem.prev) : DecryptArchived(i)
           \/ \E i \in 1 .. Len(mem.prev) : PreKeyArchivedRatchet(i)
           \/ NewSession
    PROVE  LeaseInv'
<1>1. /\ mem \in Record /\ nextChain \in Nat \ {0} /\ WellFormed(mem, nextChain)
      /\ Exact(mem, Sent) /\ Messages(Sent, nextChain)
  BY SentMessages DEF LeaseInv, TypeOK, ChainInv
<1>2. CASE DecryptRatchet
  <2> DEFINE q == Ratcheted(mem, nextChain)
  <2>1. /\ q \in Record /\ WellFormed(q, nextChain + 1) /\ Exact(q, Sent)
        /\ q.cur.chain = nextChain
    BY <1>1, RatchetedRecord
  <2>2. Put(q, FALSE) /\ nextChain' = nextChain + 1 /\ UNCHANGED <<outbox, wire>>
    BY <1>2 DEF DecryptRatchet, NewChain
  <2> HIDE DEF q
  <2> QED
    BY <2>1, <2>2, PutKeepsInv
<1>3. ASSUME NEW i \in 1 .. Len(mem.prev),
             DecryptArchived(i) \/ PreKeyArchivedRatchet(i)
      PROVE  LeaseInv'
  <2> DEFINE taken == [mem EXCEPT !.prev = Without(@, i)]
             st    == mem.prev[i]
             p     == PromoteState(taken, st)
             f     == PromoteFreshState(taken, FreshState(nextChain))
             x     == Ratcheted(p, nextChain)
  <2>1. /\ taken \in Record /\ WellFormed(taken, nextChain) /\ Exact(taken, Sent)
        /\ st \in State /\ st.chain < nextChain
        /\ \A m \in Sent : m[1] = st.chain => m[2] < st.idx
        /\ Apart(st, taken)
    BY <1>1, TakenRecord
  <2>2. \/ Put(p, FALSE) /\ nextChain' = nextChain
        \/ Put(f, FALSE) /\ nextChain' = nextChain + 1
        \/ Put(x, FALSE) /\ nextChain' = nextChain + 1
    BY <1>3 DEF DecryptArchived, PreKeyArchivedRatchet, NewChain
  <2>3. UNCHANGED <<outbox, wire>>
    BY <1>3 DEF DecryptArchived, PreKeyArchivedRatchet
  <2> HIDE DEF taken, st
  <2>4. /\ p \in Record /\ WellFormed(p, nextChain) /\ Exact(p, Sent)
        /\ HasChain(p.cur) => p.ceil <= p.cur.idx
    BY <1>1, <2>1, PromotedRecord
  <2>5. f \in Record /\ WellFormed(f, nextChain + 1) /\ Exact(f, Sent)
        /\ f.cur.chain = nextChain
    BY <1>1, <2>1, PromotedFreshRecord
  <2> HIDE DEF p, f
  <2>6. x \in Record /\ WellFormed(x, nextChain + 1) /\ Exact(x, Sent)
        /\ x.cur.chain = nextChain
    BY <1>1, <2>4, RatchetedRecord
  <2> HIDE DEF x
  <2>7. CASE Put(p, FALSE) /\ nextChain' = nextChain
    <3>1. HasChain(p.cur) /\ p.cur.idx < p.ceil => FALSE
      BY <2>4 DEF Record, State, Counter
    <3> QED
      BY <2>3, <2>4, <2>7, <3>1, PutKeepsInv
  <2>8. CASE Put(f, FALSE) /\ nextChain' = nextChain + 1
    BY <2>3, <2>5, <2>8, PutKeepsInv
  <2>9. CASE Put(x, FALSE) /\ nextChain' = nextChain + 1
    BY <2>3, <2>6, <2>9, PutKeepsInv
  <2> QED
    BY <2>2, <2>7, <2>8, <2>9
<1>4. CASE NewSession
  <2> DEFINE q == IF entry = "Present"
                  THEN PromoteFreshState(mem, FreshState(nextChain))
                  ELSE [EmptyRecord EXCEPT !.cur = FreshState(nextChain)]
  <2>1. Put(q, FALSE) /\ nextChain' = nextChain + 1 /\ UNCHANGED <<outbox, wire>>
    BY <1>4 DEF NewSession, NewChain
  <2>2. q \in Record /\ WellFormed(q, nextChain + 1) /\ Exact(q, Sent)
        /\ q.cur.chain = nextChain
    <3>1. CASE entry = "Present"
      BY <1>1, <3>1, PromotedFreshRecord
    <3>2. CASE entry # "Present"
      <4>1. q = [cur |-> [chain |-> nextChain, idx |-> 0], prev |-> <<>>, ceil |-> 0]
        BY <3>2 DEF EmptyRecord, FreshState
      <4> HIDE DEF q
      <4>2. /\ q.cur.chain = nextChain /\ q.cur.idx = 0 /\ q.ceil = 0
            /\ q.prev = <<>> /\ Len(q.prev) = 0
        BY <4>1
      <4>3. q \in Record
        BY <1>1, <4>1 DEF Record, State, Counter
      <4>4. WellFormed(q, nextChain + 1)
        BY <1>1, <4>2 DEF WellFormed, Known, Distinct, WithinBatch
      <4>5. Exact(q, Sent)
        BY <1>1, <4>2 DEF Exact, Messages
      <4> QED
        BY <4>2, <4>3, <4>4, <4>5
    <3> QED
      BY <3>1, <3>2
  <2> HIDE DEF q
  <2> QED
    BY <2>1, <2>2, PutKeepsInv
<1> QED
  BY <1>2, <1>3, <1>4

\* Capturing: the snapshot is the live record, which accounts for everything.
LEMMA CaptureKeepsInv ==
    ASSUME LeaseInv, FlushCapture
    PROVE  LeaseInv'
<1>1. /\ flush' = "captured" /\ snap' = mem /\ unchanged' = TRUE /\ dirty
      /\ entry' = entry /\ mem' = mem /\ dirty' = dirty /\ gate' = gate /\ row' = row
      /\ disk' = disk /\ outbox' = outbox /\ wire' = wire /\ nextChain' = nextChain
  BY DEF FlushCapture
<1>2. Sent' = Sent
  BY <1>1 DEF Sent
<1>3. TypeOK' /\ SlotInv' /\ ChainInv' /\ Exact(mem, Sent)'
  BY <1>1, <1>2 DEF LeaseInv, TypeOK, SlotInv, ChainInv
<1>4. DiskInv'
  BY <1>1 DEF LeaseInv, DiskInv, LeaseWithin
<1>5. SnapInv'
  <2>1. \A m \in Sent : Covers(mem, m)
    BY ExactCovers DEF LeaseInv
  <2>2. LeaseWithin(snap)'
    <3>1. mem.cur.idx \in Nat /\ mem.ceil \in Nat
      BY DEF LeaseInv, TypeOK, Record, State, Counter
    <3>2. \A i \in 1 .. Len(mem.prev) : HasChain(mem.cur) => mem.prev[i].chain # mem.cur.chain
      BY DEF LeaseInv, ChainInv, WellFormed, Distinct, HasChain
    <3> QED
      BY <1>1, <3>1, <3>2 DEF LeaseWithin
  <2> QED
    BY <1>1, <2>1, <2>2 DEF SnapInv, Sent
<1> QED
  BY <1>3, <1>4, <1>5 DEF LeaseInv

\* The other flush steps: the write lands, fails, or is confirmed.
LEMMA FlushKeepsInv ==
    ASSUME LeaseInv, FlushWrite \/ FlushFail \/ FlushConfirm
    PROVE  LeaseInv'
<1>0. /\ Messages(Sent, nextChain) /\ nextChain \in Nat \ {0}
      /\ EmptyRecord \in Record /\ WellFormed(EmptyRecord, nextChain)
  BY SentMessages, EmptyFacts DEF LeaseInv, TypeOK
<1>1. CASE FlushWrite
  <2>1. /\ flush = "captured" /\ flush' = "written" /\ row' = "own" /\ disk' = snap
        /\ entry' = entry /\ mem' = mem /\ dirty' = dirty /\ gate' = gate /\ snap' = snap
        /\ unchanged' = unchanged /\ outbox' = outbox /\ wire' = wire
        /\ nextChain' = nextChain /\ Sent' = Sent
    BY <1>1 DEF FlushWrite, Sent
  <2>2. dirty /\ entry = "Present"
    BY <2>1 DEF LeaseInv, SlotInv, TypeOK
  <2>3. TypeOK' /\ ChainInv' /\ Exact(mem, Sent)'
    BY <2>1 DEF LeaseInv, TypeOK, ChainInv
  <2>4. SlotInv'
    BY <2>1, <2>2 DEF LeaseInv, SlotInv
  <2>5. DiskInv'
    BY <2>1 DEF LeaseInv, SnapInv, DiskInv, LeaseWithin
  <2>6. SnapInv'
    BY <2>1 DEF SnapInv
  <2> QED
    BY <2>3, <2>4, <2>5, <2>6 DEF LeaseInv
<1>2. CASE FlushFail
  <2>1. /\ flush = "captured" /\ flush' = "idle" /\ snap' = EmptyRecord /\ unchanged' = FALSE
        /\ entry' = entry /\ mem' = mem /\ dirty' = dirty /\ gate' = gate /\ row' = row
        /\ disk' = disk /\ outbox' = outbox /\ wire' = wire /\ nextChain' = nextChain
        /\ Sent' = Sent
    BY <1>2 DEF FlushFail, Sent
  <2>2. TypeOK' /\ ChainInv' /\ Exact(mem, Sent)'
    BY <1>0, <2>1 DEF LeaseInv, TypeOK, ChainInv
  <2>3. SlotInv' /\ SnapInv'
    BY <2>1 DEF LeaseInv, SlotInv, SnapInv
  <2>4. DiskInv'
    BY <2>1 DEF LeaseInv, DiskInv, LeaseWithin
  <2> QED
    BY <2>2, <2>3, <2>4 DEF LeaseInv
<1>3. CASE FlushConfirm
  <2>1. /\ flush = "written" /\ flush' = "idle" /\ snap' = EmptyRecord /\ unchanged' = FALSE
        /\ dirty' = (dirty /\ ~unchanged) /\ gate' = (gate /\ ~unchanged)
        /\ entry' = entry /\ mem' = mem /\ row' = row
        /\ disk' = disk /\ outbox' = outbox /\ wire' = wire /\ nextChain' = nextChain
        /\ Sent' = Sent
    BY <1>3 DEF FlushConfirm, Sent
  <2>2. TypeOK' /\ ChainInv' /\ Exact(mem, Sent)'
    BY <1>0, <2>1 DEF LeaseInv, TypeOK, ChainInv
  <2>3. /\ dirty /\ entry = "Present" /\ disk = snap /\ row = "own"
        /\ unchanged => mem = disk
    BY <2>1 DEF LeaseInv, SlotInv, TypeOK
  <2>4. SlotInv'
    BY <2>1, <2>3 DEF LeaseInv, SlotInv
  <2>5. SnapInv'
    BY <2>1 DEF SnapInv
  <2>6. DiskInv'
    <3>1. CASE unchanged
      <4>1. \A m \in Sent : Covers(disk, m)
        BY <2>3, <3>1, ExactCovers DEF LeaseInv
      <4>2. LeaseWithin(disk)'
        <5>1. mem.cur.idx \in Nat /\ mem.ceil \in Nat
          BY DEF LeaseInv, TypeOK, Record, State, Counter
        <5>2. \A i \in 1 .. Len(mem.prev) :
                  HasChain(mem.cur) => mem.prev[i].chain # mem.cur.chain
          BY DEF LeaseInv, ChainInv, WellFormed, Distinct, HasChain
        <5> QED
          BY <2>1, <2>3, <3>1, <5>1, <5>2 DEF LeaseWithin
      <4> QED
        BY <2>1, <4>1, <4>2 DEF DiskInv, Sent
    <3>2. CASE ~unchanged
      <4>1. gate' = gate
        BY <2>1, <3>2 DEF LeaseInv, TypeOK
      <4> QED
        BY <2>1, <4>1 DEF LeaseInv, DiskInv, LeaseWithin
    <3> QED
      BY <3>1, <3>2
  <2> QED
    BY <2>2, <2>4, <2>5, <2>6 DEF LeaseInv
<1> QED
  BY <1>1, <1>2, <1>3

\* Eviction, cold reads, sends and crashes.
LEMMA StoreKeepsInv ==
    ASSUME LeaseInv, Evict \/ Load \/ Publish \/ Crash
    PROVE  LeaseInv'
<1>0. /\ Messages(Sent, nextChain) /\ nextChain \in Nat \ {0} /\ nextChain \in Nat
      /\ EmptyRecord \in Record /\ WellFormed(EmptyRecord, nextChain)
      /\ Exact(EmptyRecord, Sent) /\ ~HasChain(EmptyRecord.cur)
  BY SentMessages, EmptyFacts DEF LeaseInv, TypeOK
<1>1. CASE Evict
  <2>1. /\ ~dirty /\ entry # "Missing" /\ entry' = "Missing" /\ mem' = EmptyRecord
        /\ dirty' = dirty /\ gate' = gate /\ row' = row /\ disk' = disk /\ flush' = flush
        /\ snap' = snap /\ unchanged' = unchanged /\ outbox' = outbox /\ wire' = wire
        /\ nextChain' = nextChain /\ Sent' = Sent
    BY <1>1 DEF Evict, Sent
  <2>2. flush = "idle" /\ ~gate /\ ~unchanged
    BY <2>1 DEF LeaseInv, SlotInv
  <2>3. row = "own" => Exact(disk, Sent)
    BY <2>1 DEF LeaseInv, SlotInv, TypeOK
  <2>4. TypeOK' /\ ChainInv' /\ Exact(mem, Sent)'
    BY <1>0, <2>1 DEF LeaseInv, TypeOK, ChainInv
  <2>5. SlotInv'
    <3>1. entry' = "Missing" /\ row' = "own" => Exact(disk', Sent')
      BY <2>1, <2>3
    <3> QED
      BY <2>1, <2>2, <3>1 DEF SlotInv
  <2>6. DiskInv'
    BY <1>0, <2>1 DEF LeaseInv, DiskInv, LeaseWithin
  <2>7. SnapInv'
    BY <2>1, <2>2 DEF SnapInv
  <2> QED
    BY <2>4, <2>5, <2>6, <2>7 DEF LeaseInv
<1>2. CASE Load
  <2>1. /\ entry = "Missing"
        /\ dirty' = dirty /\ gate' = gate /\ row' = row /\ disk' = disk /\ flush' = flush
        /\ snap' = snap /\ unchanged' = unchanged /\ outbox' = outbox /\ wire' = wire
        /\ nextChain' = nextChain /\ Sent' = Sent
    BY <1>2 DEF Load, Sent
  <2>2. flush = "idle" /\ ~gate /\ ~unchanged /\ ~dirty
    BY <2>1 DEF LeaseInv, SlotInv
  <2>3. disk \in Record /\ WellFormed(disk, nextChain) /\ \A m \in Sent : Covers(disk, m)
    BY <2>2 DEF LeaseInv, TypeOK, ChainInv, DiskInv, Sent
  <2>4. /\ Reloaded(disk) \in Record
        /\ WellFormed(Reloaded(disk), nextChain)
        /\ Exact(Reloaded(disk), Sent)
        /\ HasChain(Reloaded(disk).cur) => Reloaded(disk).ceil <= Reloaded(disk).cur.idx
        /\ ~ReloadFails(disk)
    BY <1>0, <2>3, ReloadedRecord
  <2>5. \/ row = "none" /\ entry' = "Absent" /\ mem' = EmptyRecord
        \/ row = "own" /\ entry' = "Present" /\ mem' = disk
        \/ row = "foreign" /\ entry' = "Present" /\ mem' = Reloaded(disk)
    BY <1>2, <2>4 DEF Load, LeaseInv, TypeOK
  <2>6. row = "own" => Exact(disk, Sent)
    BY <2>1 DEF LeaseInv, SlotInv
  <2>7. mem' \in Record /\ WellFormed(mem', nextChain) /\ Exact(mem', Sent)
    BY <1>0, <2>3, <2>4, <2>5, <2>6
  <2>8. TypeOK' /\ ChainInv' /\ Exact(mem, Sent)'
    BY <2>1, <2>5, <2>7 DEF LeaseInv, TypeOK, ChainInv
  <2>9. SlotInv'
    BY <2>1, <2>2, <2>5 DEF SlotInv
  <2>10. LeaseWithin(disk)'
    <3>1. CASE mem' = EmptyRecord
      BY <1>0, <3>1 DEF LeaseWithin
    <3>2. CASE mem' = disk
      <4>1. disk.cur.idx \in Nat /\ disk.ceil \in Nat
        BY <2>3 DEF Record, State, Counter
      <4>2. \A i \in 1 .. Len(disk.prev) :
                HasChain(disk.cur) => disk.prev[i].chain # disk.cur.chain
        BY <2>3 DEF WellFormed, Distinct, HasChain
      <4> QED
        BY <2>1, <3>2, <4>1, <4>2 DEF LeaseWithin
    <3>3. CASE mem' = Reloaded(disk)
      <4>1. ~(HasChain(mem'.cur) /\ mem'.cur.idx < mem'.ceil)
        BY <2>4, <3>3 DEF Record, State, Counter
      <4> QED
        BY <4>1 DEF LeaseWithin
    <3> QED
      BY <2>5, <3>1, <3>2, <3>3
  <2>11. DiskInv'
    BY <2>1, <2>3, <2>10 DEF DiskInv, Sent
  <2>12. SnapInv'
    BY <2>1, <2>2 DEF SnapInv
  <2> QED
    BY <2>8, <2>9, <2>11, <2>12 DEF LeaseInv
<1>3. CASE Publish
  <2>1. /\ ~gate /\ wire' = wire \cup outbox /\ outbox' = {}
        /\ entry' = entry /\ mem' = mem /\ dirty' = dirty /\ gate' = gate /\ row' = row
        /\ disk' = disk /\ flush' = flush /\ snap' = snap /\ unchanged' = unchanged
        /\ nextChain' = nextChain
    BY <1>3 DEF Publish
  <2>2. Sent' = Sent
    BY <2>1 DEF Sent
  <2>3. TypeOK'
    BY <2>1 DEF LeaseInv, TypeOK
  <2>4. SlotInv' /\ ChainInv' /\ Exact(mem, Sent)'
    BY <2>1, <2>2 DEF LeaseInv, SlotInv, ChainInv
  <2>5. DiskInv'
    BY <2>1 DEF LeaseInv, DiskInv, LeaseWithin
  <2>6. SnapInv'
    BY <2>1 DEF LeaseInv, SnapInv, LeaseWithin
  <2> QED
    BY <2>3, <2>4, <2>5, <2>6 DEF LeaseInv
<1>4. CASE Crash
  <2>1. /\ entry' = "Missing" /\ mem' = EmptyRecord /\ dirty' = FALSE /\ gate' = FALSE
        /\ row' \in {"none", "foreign"} /\ flush' = "idle" /\ snap' = EmptyRecord
        /\ unchanged' = FALSE /\ outbox' = {} /\ disk' = disk /\ wire' = wire
        /\ nextChain' = nextChain /\ Sent' = wire
    BY <1>4 DEF Crash, Sent, LeaseInv, TypeOK
  <2>2. TypeOK'
    BY <1>0, <2>1 DEF LeaseInv, TypeOK
  <2>3. SlotInv' /\ SnapInv'
    BY <2>1 DEF SlotInv, SnapInv
  <2>4. ChainInv'
    BY <1>0, <2>1 DEF LeaseInv, ChainInv, Sent
  <2>5. Exact(mem, Sent)'
    BY <2>1, EmptyFacts, SentMessages
  <2>6. DiskInv'
    BY <1>0, <2>1 DEF LeaseInv, DiskInv, LeaseWithin
  <2> QED
    BY <2>2, <2>3, <2>4, <2>5, <2>6 DEF LeaseInv
<1> QED
  BY <1>1, <1>2, <1>3, <1>4

----------------------------------------------------------------------------
(* The theorems.                                                           *)

\* LeaseInv holds initially and every step of the specification keeps it.
THEOREM LeaseInvariance == Spec => []LeaseInv
<1>1. Init => LeaseInv
  <2> SUFFICES ASSUME Init PROVE LeaseInv
    OBVIOUS
  <2>1. /\ EmptyRecord \in Record /\ WellFormed(EmptyRecord, 1)
        /\ ~HasChain(EmptyRecord.cur)
    BY EmptyFacts
  <2>2. TypeOK
    <3>1. mem \in Record /\ disk \in Record /\ snap \in Record
      BY <2>1 DEF Init
    <3>2. outbox \subseteq Nat \X Counter /\ wire \subseteq Nat \X Counter
      BY DEF Init
    <3>3. /\ entry \in {"Missing", "Absent", "Present"}
          /\ row \in {"none", "foreign", "own"}
          /\ flush \in {"idle", "captured", "written"}
          /\ dirty \in BOOLEAN /\ gate \in BOOLEAN /\ unchanged \in BOOLEAN
      BY DEF Init
    <3>4. nextChain \in Nat \ {0}
      <4>1. nextChain = 1
        BY DEF Init
      <4> QED
        BY <4>1
    <3> QED
      BY <3>1, <3>2, <3>3, <3>4 DEF TypeOK
  <2>3. SlotInv /\ SnapInv
    BY DEF Init, SlotInv, SnapInv
  <2>4. ChainInv
    BY <2>1 DEF Init, ChainInv, Sent
  <2>5. Exact(mem, Sent) /\ DiskInv
    BY <2>1 DEF Init, Exact, Sent, DiskInv, LeaseWithin
  <2> QED
    BY <2>2, <2>3, <2>4, <2>5 DEF LeaseInv
<1>2. LeaseInv /\ [Next]_vars => LeaseInv'
  <2> SUFFICES ASSUME LeaseInv, [Next]_vars PROVE LeaseInv'
    OBVIOUS
  <2>1. CASE Encrypt
    BY <2>1, EncryptKeepsInv
  <2>2. CASE \/ DecryptRatchet
             \/ \E i \in 1 .. Len(mem.prev) : DecryptArchived(i)
             \/ \E i \in 1 .. Len(mem.prev) : PreKeyArchivedRatchet(i)
             \/ NewSession
    BY <2>2, DecryptKeepsInv
  <2>3. CASE FlushCapture
    BY <2>3, CaptureKeepsInv
  <2>4. CASE FlushWrite \/ FlushFail \/ FlushConfirm
    BY <2>4, FlushKeepsInv
  <2>5. CASE Evict \/ Load \/ Publish \/ Crash
    BY <2>5, StoreKeepsInv
  <2>6. CASE UNCHANGED vars
    BY <2>6 DEF vars, LeaseInv, TypeOK, SlotInv, ChainInv, DiskInv, SnapInv, Sent,
                LeaseWithin
  <2> QED
    BY <2>1, <2>2, <2>3, <2>4, <2>5, <2>6 DEF Next
<1> QED
  BY <1>1, <1>2, PTL DEF Spec

\* The type invariant of the lease, for every value of the constants.
THEOREM LeaseTypes == Spec => []TypeOK
<1>1. LeaseInv => TypeOK
  BY DEF LeaseInv
<1> QED
  BY <1>1, LeaseInvariance, PTL

\* No message key is ever used twice: whatever the interleaving of sends,
\* ratchets, promotions, flushes, evictions and crashes, the key an encrypt
\* derives next has encrypted nothing that is on the wire or may get there.
THEOREM NoCounterReuse == Spec => []NextKeyUnused
<1>1. LeaseInv => NextKeyUnused
  <2> SUFFICES ASSUME LeaseInv PROVE NextKeyUnused
    OBVIOUS
  <2>0. mem.cur \in State /\ \A i \in 1 .. Len(mem.prev) : mem.prev[i] \in State
    <3>1. mem \in Record
      BY DEF LeaseInv, TypeOK
    <3> QED
      BY <3>1 DEF Record
  <2> SUFFICES ASSUME NEW st \in State,
                      st = mem.cur \/ \E i \in 1 .. Len(mem.prev) : st = mem.prev[i]
               PROVE  <<st.chain, st.idx>> \notin outbox \cup wire
    BY <2>0 DEF NextKeyUnused
  <2>1. \A m \in Sent : m[1] = st.chain => m[2] < st.idx
    BY DEF LeaseInv, Exact
  <2>2. st.idx \in Nat
    BY DEF State, Counter
  <2> QED
    BY <2>1, <2>2 DEF Sent
<1> QED
  BY <1>1, LeaseInvariance, PTL

\* The row on disk is always safe to recover from.
THEOREM RecoveryIsSafe == Spec => [](CrashSafe /\ ReloadAccepts)
<1>1. LeaseInv => CrashSafe /\ ReloadAccepts
  <2> SUFFICES ASSUME LeaseInv PROVE CrashSafe /\ ReloadAccepts
    OBVIOUS
  <2> DEFINE r == Reloaded(disk)
  <2>1. /\ r \in Record /\ Exact(r, wire) /\ ~ReloadFails(disk)
    BY SentMessages, ReloadedRecord DEF LeaseInv, TypeOK, ChainInv, DiskInv
  <2> HIDE DEF r
  <2>2. r.cur \in State /\ \A i \in 1 .. Len(r.prev) : r.prev[i] \in State
    BY <2>1 DEF Record
  <2>3. ASSUME NEW st \in State,
               st = r.cur \/ \E i \in 1 .. Len(r.prev) : st = r.prev[i]
        PROVE  <<st.chain, st.idx>> \notin wire
    <3>1. \A m \in wire : m[1] = st.chain => m[2] < st.idx
      BY <2>1, <2>3 DEF Exact
    <3>2. st.idx \in Nat
      BY DEF State, Counter
    <3> QED
      BY <3>1, <3>2
  <2> QED
    BY <2>1, <2>2, <2>3 DEF CrashSafe, ReloadAccepts, r
<1> QED
  BY <1>1, LeaseInvariance, PTL
=============================================================================
