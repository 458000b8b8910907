------------------------- MODULE SignalCacheProofs --------------------------
(***************************************************************************)
(* Proofs about SignalCache for every set of tasks and pre-keys, every     *)
(* batch size, archive length and counter width: the cache implements      *)
(* SessionStore, a checkout always has a way back, and a lease that is not *)
(* durable is never forgotten.                                             *)
(***************************************************************************)
EXTENDS SignalCache, SequenceTheorems, TLAPS

\* What the constants are, in the form the provers use.
LEMMA Constants ==
    /\ BATCH \in Nat /\ 0 < BATCH
    /\ MAX_FORWARD \in Nat /\ BATCH <= MAX_FORWARD
    /\ ARCHIVED_MAX \in Nat /\ 0 < ARCHIVED_MAX
    /\ MAX_COUNTER \in Nat
    /\ NoTask \notin Tasks
    /\ MaxChains \in Nat
    /\ MaxLosses \in Nat
BY LeaseAssumption, CacheAssumption

USE Constants

\* Small facts that the long contexts below would hide from the provers.
LEMMA PairsInProduct ==
    ASSUME NEW A, NEW B, NEW a \in A, NEW b \in B
    PROVE  {<<a, b>>} \in SUBSET (A \X B)
OBVIOUS

LEMMA OneMore ==
    ASSUME NEW m \in Nat, NEW n \in 0 .. m, n < m
    PROVE  n + 1 \in 0 .. m
OBVIOUS

----------------------------------------------------------------------------
(* The record operators keep records records.                              *)

LEMMA EmptyIsRecord ==
    /\ EmptyRecord \in Record
    /\ \A q : HasChain(q.cur) => q # EmptyRecord
<1>1. EmptyRecord.cur.chain = NoChain
  BY DEF EmptyRecord, DroppedState
<1>2. EmptyRecord \in Record
  BY DEF EmptyRecord, Record, State, DroppedState, NoChain, Counter
<1> QED
  BY <1>1, <1>2 DEF HasChain

\* An encrypted record is a record with a chain (message_encrypt_inner).
LEMMA EncryptedIsRecord ==
    ASSUME NEW r \in Record, CanEncrypt(r)
    PROVE  Encrypted(r) \in Record /\ HasChain(Encrypted(r).cur)
<1> DEFINE s == [r EXCEPT !.cur.idx = @ + 1]
<1>1. /\ r.cur \in State /\ r.cur.idx \in Counter /\ r.cur.idx < MAX_COUNTER
      /\ r.cur.idx + 1 \in Counter
  BY DEF Record, State, CanEncrypt, Counter
<1>2. s \in Record /\ s.cur.chain = r.cur.chain
  BY <1>1 DEF Record, State
<1>3. SatAdd(r.cur.idx, BATCH) \in Counter
  BY <1>1 DEF SatAdd, Counter
<1>4. Encrypted(r) = s \/ Encrypted(r) = [s EXCEPT !.ceil = SatAdd(r.cur.idx, BATCH)]
  BY DEF Encrypted, Reserve
<1> HIDE DEF s
<1> QED
  BY <1>2, <1>3, <1>4 DEF Record, CanEncrypt, HasChain

LEMMA RenewedIsRecord ==
    ASSUME NEW r \in Record, NEW c \in Nat \ {0}
    PROVE  Renewed(r, c) \in Record /\ Renewed(r, c).cur = FreshState(c)
<1>1. FreshState(c) \in State
  BY DEF FreshState, State, Counter
<1>2. [EmptyRecord EXCEPT !.cur = FreshState(c)] \in Record
      /\ [EmptyRecord EXCEPT !.cur = FreshState(c)].cur = FreshState(c)
  BY <1>1, EmptyIsRecord DEF Record
<1>3. FastForwardOrDrop(r.cur, r.ceil) \in State
  <2>1. r.cur \in State /\ r.ceil \in Counter
    BY DEF Record
  <2>2. DroppedState \in State
    BY DEF DroppedState, State, Counter, NoChain
  <2>3. [r.cur EXCEPT !.idx = r.ceil] \in State
    BY <2>1 DEF State
  <2> QED
    BY <2>1, <2>2, <2>3 DEF FastForwardOrDrop, FastForward
<1>4. Archive(r.prev, FastForwardOrDrop(r.cur, r.ceil)) \in Seq(State)
  <2> DEFINE b == FastForwardOrDrop(r.cur, r.ceil)
             kept == IF Len(r.prev) >= ARCHIVED_MAX
                     THEN SubSeq(r.prev, 1, Len(r.prev) - 1) ELSE r.prev
  <2>1. r.prev \in Seq(State)
    BY DEF Record
  <2>2. kept \in Seq(State)
    BY <2>1
  <2>3. <<b>> \in Seq(State)
    BY <1>3
  <2> HIDE DEF kept, b
  <2>4. <<b>> \o kept \in Seq(State)
    BY <2>2, <2>3
  <2> QED
    BY <2>4 DEF Archive, b, kept
<1>5. 0 \in Counter
  BY DEF Counter
<1> QED
  BY <1>1, <1>2, <1>4, <1>5 DEF Renewed, PromoteFreshState, Record

LEMMA DecodedIsRecord ==
    ASSUME NEW r \in Record, NEW s
    PROVE  Decoded(s, r) \in Record
<1>1. r.cur \in State /\ r.ceil \in Counter
  BY DEF Record
<1>2. FastForward(r.cur, r.ceil) \in State
  BY <1>1 DEF FastForward, State
<1>3. Reloaded(r) \in Record
  BY <1>2 DEF Reloaded, Record
<1> QED
  BY <1>3, EmptyIsRecord DEF Decoded

\* The abstract specification has its own copy of the record operators.
LEMMA StoreRecords ==
    /\ Store!EmptyRecord = EmptyRecord
    /\ \A r, q : Store!Extends(r, q) <=> Extends(r, q)
<1>1. Store!EmptyRecord = EmptyRecord
  BY DEF Store!EmptyRecord, EmptyRecord, Store!DroppedState, DroppedState, Store!NoChain, NoChain
<1>2. \A st : Store!HasChain(st) <=> HasChain(st)
  BY DEF Store!HasChain, HasChain, Store!NoChain, NoChain
<1>3. \A r : Store!CanEncrypt(r) <=> CanEncrypt(r)
  BY <1>2 DEF Store!CanEncrypt, CanEncrypt
<1>4. \A r : Store!Encrypted(r) = Encrypted(r)
  BY DEF Store!Encrypted, Encrypted, Store!Reserve, Reserve, Store!MustReserve,
         MustReserve, Store!SatAdd, SatAdd
<1>5. \A c : Store!FreshState(c) = FreshState(c)
  BY DEF Store!FreshState, FreshState
<1>6. \A st, n : Store!FastForwardOrDrop(st, n) = FastForwardOrDrop(st, n)
  BY <1>2 DEF Store!FastForwardOrDrop, FastForwardOrDrop, Store!FastForward, FastForward,
         Store!FastForwardFails, FastForwardFails, Store!SatSub, SatSub,
         Store!DroppedState, DroppedState, Store!NoChain, NoChain
<1>7. \A prev, st : Store!Archive(prev, st) = Archive(prev, st)
  BY DEF Store!Archive, Archive
<1>8. \A r, c : Store!Renewed(r, c) = Renewed(r, c)
  BY <1>1, <1>5, <1>6, <1>7 DEF Store!Renewed, Renewed, Store!PromoteFreshState, PromoteFreshState
<1> QED
  BY <1>1, <1>2, <1>3, <1>4, <1>8 DEF Store!Extends, Extends

----------------------------------------------------------------------------
(* The parts of the state, in the form the provers use.                    *)

LEMMA StateTypes ==
    ASSUME StoreInv
    PROVE  /\ entry \in Entry
           /\ entry.kind \in {"Missing", "Absent", "Present", "Out"}
           /\ entry.rec \in Record
           /\ entry.snap \in BOOLEAN
           /\ dirty \in BOOLEAN /\ deleted \in BOOLEAN /\ gate \in BOOLEAN
           /\ task \in [Tasks -> Task]
           /\ \A t \in Tasks : task[t] \in Task /\ task[t].rec \in Record
           /\ flush \in Flush
           /\ flush.same \in BOOLEAN
           /\ disk \in Record
           /\ queue \in Seq([task : Tasks, rec : Record, raised : BOOLEAN])
BY DEF StoreInv, TypeOK, Entry, Task, Flush

LEMMA EntryForms ==
    /\ Missing \in Entry /\ Absent \in Entry
    /\ \A r \in Record : Plain("Present", r) \in Entry /\ Cached(r) \in Entry
    /\ \A t \in Tasks, r \in Record, s \in BOOLEAN : Out(t, r, s) \in Entry
BY EmptyIsRecord DEF Missing, Absent, Plain, Cached, Out, Entry

LEMMA TaskForms ==
    /\ IdleTask \in Task
    /\ \A r \in Record : Holding(r) \in Task
BY EmptyIsRecord DEF IdleTask, Holding, Task

\* The updates that a removal and the start of a clear make to a task.
LEMMA TaskUpdates ==
    ASSUME NEW x \in Task
    PROVE  /\ [x EXCEPT !.fresh = FALSE] \in Task
           /\ ~[x EXCEPT !.fresh = FALSE].fresh
           /\ LET y == [x EXCEPT !.live = FALSE]
              IN  /\ y \in Task /\ ~y.live
                  /\ y.pc = x.pc /\ y.fresh = x.fresh /\ y.row = x.row /\ y.rec = x.rec
BY DEF Task

LEMMA IdleFlushType == IdleFlush \in Flush
BY EmptyIsRecord DEF IdleFlush, Flush

----------------------------------------------------------------------------
(* One lemma per group of actions: the invariant is kept, and the step is  *)
(* one of the abstract register or leaves it alone.                        *)

Invisible == UNCHANGED <<Value, entry.owner, losses>>

LEMMA CheckoutKeeps ==
    ASSUME StoreInv, NEW t \in Tasks, Checkout(t)
    PROVE  StoreInv' /\ Store!Acquire
<1> USE StateTypes
<1> DEFINE kept == entry.kind = "Present" /\ gate
<1>1. /\ entry' = Out(t, entry.rec, kept)
      /\ entry'.kind = "Out" /\ entry'.rec = entry.rec /\ entry'.owner = t
      /\ flush' = [flush EXCEPT !.same = @ /\ kept]
      /\ task' = [task EXCEPT ![t] = Holding(entry.rec)]
      /\ queue = <<>>
      /\ entry.kind \in {"Present", "Absent"}
      /\ UNCHANGED <<flags, storage, queue, clearing, buffered, messages, history>>
  BY DEF Checkout, Out, KeepVersion, Become, Locked
<1>2. TypeOK'
  BY <1>1, EntryForms, TaskForms
  DEF StoreInv, TypeOK, flags, storage, messages, history, Flush
<1>3. SlotInv'
  BY <1>1 DEF StoreInv, SlotInv, flags
<1>4. CleanInv'
  BY <1>1 DEF StoreInv, CleanInv, flags, storage, Decoded
<1>5. FlushInv'
  BY <1>1 DEF StoreInv, FlushInv, flags, storage, Flush
<1>6. ColdInv'
  BY <1>1 DEF ColdInv
<1>7. OwnerInv'
  <2>1. task'[t].rec = entry.rec
    BY <1>1 DEF Holding, IdleTask
  <2> QED
    BY <1>1, <2>1 DEF OwnerInv, Owns
<1>8. Store!Acquire
  BY <1>1 DEF Store!Acquire, Value, StoreInv, SlotInv, history
<1> QED
  BY <1>2, <1>3, <1>4, <1>5, <1>6, <1>7, <1>8 DEF StoreInv

\* The types of what the invariant says nothing else about.
OtherTypes ==
    /\ clearing \in {"no", "bumped", "discarded"}
    /\ keys \subseteq PreKeys
    /\ buffered \subseteq PreKeys
    /\ origin \in [1 .. MaxChains -> PreKeys \cup {NoKey}]
    /\ outbox \cup wire \subseteq Nat \X Counter
    /\ nextChain \in Nat \ {0}
    /\ losses \in 0 .. MaxLosses
    /\ clearing = "bumped" => losses < MaxLosses

LEMMA OtherTypesHold ==
    ASSUME StoreInv
    PROVE  /\ OtherTypes
           /\ UNCHANGED <<clearing, keys, buffered, origin, outbox, wire, nextChain, losses>>
                => OtherTypes'
BY DEF StoreInv, TypeOK, OtherTypes

\* Steps of a task that touch nothing but the task itself.
LEMMA TaskOnlyKeeps ==
    ASSUME StoreInv, NEW t \in Tasks, NEW x \in Task,
           task' = [task EXCEPT ![t] = x],
           UNCHANGED <<entry, flags, row, disk, queue, flush, losses>>,
           OtherTypes',
           x.pc # "holding",
           x.pc = "fetched" => x.row = row /\ x.rec = disk
    PROVE  StoreInv' /\ Invisible
<1> USE StateTypes DEF flags
<1>1. TypeOK'
  BY DEF StoreInv, TypeOK, OtherTypes
<1>2. SlotInv' /\ CleanInv' /\ FlushInv'
  BY DEF StoreInv, SlotInv, CleanInv, FlushInv, Decoded
<1>3. ColdInv'
  BY DEF StoreInv, ColdInv
<1>4. OwnerInv'
  BY DEF StoreInv, OwnerInv, Owns
<1>5. Invisible
  BY DEF Invisible, Value, Decoded
<1> QED
  BY <1>1, <1>2, <1>3, <1>4, <1>5 DEF StoreInv

LEMMA ColdKeeps ==
    ASSUME StoreInv, NEW t \in Tasks,
           ColdStart(t) \/ ColdFetch(t) \/ ColdRaced(t) \/ Abandon(t)
    PROVE  StoreInv' /\ Invisible
<1> USE OtherTypesHold DEF storage, messages, history
<1>0. IdleTask.pc = "idle"
  BY DEF IdleTask
<1>1. CASE ColdStart(t)
  <2> DEFINE x == [IdleTask EXCEPT !.pc = "cold", !.fresh = TRUE, !.inc = TRUE]
  <2>1. x \in Task /\ x.pc = "cold"
    BY EmptyIsRecord DEF IdleTask, Task
  <2> QED
    BY <1>1, <2>1, TaskOnlyKeeps DEF ColdStart, Become
<1>2. CASE ColdFetch(t)
  <2> DEFINE x == [task[t] EXCEPT !.pc = "fetched", !.row = row, !.rec = disk]
  <2>1. row \in {"none", "foreign", "own"} /\ task[t] \in Task /\ disk \in Record
    BY StateTypes DEF StoreInv, TypeOK
  <2>2. x \in Task /\ x.pc = "fetched" /\ x.row = row /\ x.rec = disk
    BY ONLY <2>1 DEF Task
  <2>3. task' = [task EXCEPT ![t] = x]
    BY <1>2 DEF ColdFetch, Become
  <2> HIDE DEF x
  <2> QED
    BY <1>2, <2>2, <2>3, TaskOnlyKeeps DEF ColdFetch
<1>3. CASE ColdRaced(t)
  <2> DEFINE x == IF entry.kind = "Missing" THEN [IdleTask EXCEPT !.pc = "raced"] ELSE IdleTask
  <2>1. x \in Task /\ x.pc # "holding" /\ x.pc # "fetched"
    BY EmptyIsRecord DEF IdleTask, Task
  <2> QED
    BY <1>3, <2>1, TaskOnlyKeeps DEF ColdRaced, Become
<1>4. CASE Abandon(t)
  BY <1>0, <1>4, TaskForms, TaskOnlyKeeps DEF Abandon, Become
<1> QED
  BY <1>1, <1>2, <1>3, <1>4

\* A cold read that installs what a cold read of now would find.
LEMMA InstallKeeps ==
    ASSUME StoreInv, NEW t \in Tasks, NEW how, NEW r \in Record,
           Locked, entry.kind = "Missing", r = Decoded(row, disk), Install(t, how, r)
    PROVE  StoreInv' /\ (Invisible \/ Store!Acquire)
<1> USE StateTypes DEF flags, storage, messages, history
<1>1. /\ queue = <<>> /\ ~dirty /\ ~deleted /\ ~flush.same
      /\ entry.owner = NoTask
      /\ Value = r
      /\ UNCHANGED <<flags, storage, queue, flush, clearing, buffered, messages, history>>
  BY DEF Locked, StoreInv, SlotInv, FlushInv, Install, Value
<1>2. CASE how = "checkout"
  <2>1. /\ entry' = Out(t, r, FALSE)
        /\ entry'.kind = "Out" /\ entry'.rec = r /\ entry'.owner = t
        /\ task' = [task EXCEPT ![t] = Holding(r)]
    BY <1>2 DEF Install, Out, Become
  <2>0. task'[t].rec = r
    BY <2>1 DEF Holding, IdleTask
  <2>2. TypeOK'
    BY <1>1, <2>1, EntryForms, TaskForms DEF StoreInv, TypeOK
  <2>3. SlotInv' /\ CleanInv' /\ FlushInv' /\ ColdInv'
    BY <1>1, <2>1 DEF StoreInv, SlotInv, CleanInv, FlushInv, ColdInv, Decoded
  <2>4. OwnerInv'
    <3>1. \A u \in Tasks : Owns(u)' => task'[u].rec = entry'.rec
      BY <2>0, <2>1 DEF Owns
    <3>2. queue' = <<>> /\ Len(queue') = 0
      BY <1>1
    <3>3. \A i \in 1 .. Len(queue') : FALSE
      BY <3>2
    <3> QED
      BY <3>1, <3>3, Zenon DEF OwnerInv
  <2>5. Store!Acquire
    BY <1>1, <2>1 DEF Store!Acquire, Value
  <2> QED
    BY <2>2, <2>3, <2>4, <2>5 DEF StoreInv
<1>3. CASE how # "checkout"
  <2>1. /\ entry' = Cached(r)
        /\ entry'.kind \in {"Absent", "Present"} /\ entry'.rec = r /\ entry'.owner = NoTask
        /\ entry'.kind = "Absent" => r = EmptyRecord
        /\ task' = [task EXCEPT ![t] = IdleTask]
    BY <1>3 DEF Install, Cached, Absent, Plain, Become
  <2>2. TypeOK'
    BY <1>1, <2>1, EntryForms, TaskForms DEF StoreInv, TypeOK
  <2>3. SlotInv' /\ CleanInv' /\ FlushInv' /\ ColdInv'
    BY <1>1, <2>1 DEF StoreInv, SlotInv, CleanInv, FlushInv, ColdInv, Decoded
  <2>4. OwnerInv'
    BY <1>1, <2>1 DEF OwnerInv, Owns
  <2>5. Invisible
    BY <1>1, <2>1 DEF Invisible, Value
  <2> QED
    BY <2>2, <2>3, <2>4, <2>5 DEF StoreInv
<1> QED
  BY <1>2, <1>3

LEMMA ColdInstallKeeps ==
    ASSUME StoreInv, NEW t \in Tasks, NEW how,
           ColdInstall(t, how) \/ LockedRead(t, how)
    PROVE  StoreInv' /\ (Invisible \/ Store!Acquire)
<1> USE StateTypes
<1>1. Decoded(row, disk) \in Record
  BY DecodedIsRecord
<1>2. CASE ColdInstall(t, how)
  <2>1. task[t].row = row /\ task[t].rec = disk
    BY <1>2 DEF ColdInstall, StoreInv, ColdInv
  <2> QED
    BY <1>1, <1>2, <2>1, InstallKeeps DEF ColdInstall
<1>3. CASE LockedRead(t, how)
  BY <1>1, <1>3, InstallKeeps DEF LockedRead
<1> QED
  BY <1>2, <1>3

----------------------------------------------------------------------------
\* What put_with_key or a cancelled empty checkout leaves.
LEMMA PutBackEffect ==
    ASSUME StoreInv, NEW r \in Record, NEW raised \in BOOLEAN, PutBack(r, raised)
    PROVE  /\ entry' \in Entry
           /\ entry'.kind \in {"Absent", "Present"}
           /\ entry'.rec = r
           /\ entry'.owner = NoTask
           /\ entry'.kind = "Absent" => r = EmptyRecord
           /\ dirty' \in BOOLEAN /\ deleted' \in BOOLEAN /\ gate' \in BOOLEAN
           /\ r # EmptyRecord => dirty' /\ ~deleted'
           /\ r = EmptyRecord => UNCHANGED flags
           /\ flush' \in Flush
           /\ ~flush'.same
           /\ flush'.pc = flush.pc /\ flush'.del = flush.del
<1> USE StateTypes
<1>1. flush' = [flush EXCEPT !.same = @ /\ FALSE]
  BY DEF PutBack, PutWithKey, KeepVersion
<1>2. flush' \in Flush /\ ~flush'.same /\ flush'.pc = flush.pc /\ flush'.del = flush.del
  BY <1>1 DEF Flush
<1>3. CASE r # EmptyRecord
  <2>1. entry' = Plain("Present", r) /\ dirty' = TRUE /\ deleted' = FALSE /\ gate' = (gate \/ raised)
    BY <1>3 DEF PutBack, PutWithKey
  <2>2. gate' \in BOOLEAN
    BY <2>1
  <2> QED
    BY <1>2, <1>3, <2>1, <2>2, EntryForms DEF Plain
<1>4. CASE r = EmptyRecord
  <2>1. entry' = Absent /\ UNCHANGED flags
    BY <1>4 DEF PutBack
  <2>2. entry'.kind = "Absent" /\ entry'.rec = EmptyRecord /\ entry'.owner = NoTask
    BY <2>1 DEF Absent, Plain
  <2>3. entry' \in Entry
    BY <2>1, EntryForms
  <2> QED
    BY <1>2, <1>4, <2>1, <2>2, <2>3 DEF flags
<1> QED
  BY <1>3, <1>4

\* The owner's commit, given back directly or drained from the queue.
LEMMA PutBackKeeps ==
    ASSUME StoreInv, NEW t \in Tasks, Owns(t),
           NEW r \in Record, NEW raised \in BOOLEAN, Extends(entry.rec, r),
           PutBack(r, raised), OtherTypes', task' \in [Tasks -> Task],
           queue' \in Seq([task : Tasks, rec : Record, raised : BOOLEAN]),
           UNCHANGED <<row, disk, losses>>
    PROVE  StoreInv' /\ Store!Commit
<1> USE StateTypes, PutBackEffect
<1>1. TypeOK'
  BY DEF StoreInv, TypeOK, OtherTypes
<1>2. r = EmptyRecord => entry.rec = EmptyRecord
  <2>1. CanEncrypt(entry.rec) /\ r = Encrypted(entry.rec) => r # EmptyRecord
    BY EncryptedIsRecord, EmptyIsRecord
  <2>2. HasChain(r.cur) => r # EmptyRecord
    BY EmptyIsRecord
  <2> QED
    BY <2>1, <2>2 DEF Extends
<1>3. SlotInv'
  BY DEF StoreInv, SlotInv, flags
<1>4. CleanInv'
  BY <1>2 DEF StoreInv, CleanInv, flags, Owns, Decoded
<1>5. FlushInv'
  BY DEF StoreInv, FlushInv, flags
<1>6. ColdInv' /\ OwnerInv'
  BY DEF ColdInv, OwnerInv, Owns
<1>7. Store!Commit
  <2>1. Value = entry.rec /\ Value' = r /\ entry.owner = t
    BY DEF Value, Owns
  <2> QED
    BY <2>1, StoreRecords DEF Store!Commit
<1> QED
  BY <1>1, <1>3, <1>4, <1>5, <1>6, <1>7 DEF StoreInv

\* What the caller makes of the answer, in types.
LEMMA AnswerTypes ==
    ASSUME StoreInv, NEW t \in Tasks, NEW m \in SUBSET (Nat \X Counter),
           NEW k \in PreKeys \cup {NoKey},
           Stored(t, m, k) \/ Rejected(t),
           UNCHANGED <<clearing, keys, buffered, wire, losses>>,
           origin' \in [1 .. MaxChains -> PreKeys \cup {NoKey}], nextChain' \in Nat \ {0}
    PROVE  OtherTypes' /\ task' \in [Tasks -> Task]
<1> USE StateTypes, OtherTypesHold
<1>1. /\ IdleTask \in Task
      /\ k # NoKey => [IdleTask EXCEPT !.pc = "consuming", !.key = k] \in Task
  BY EmptyIsRecord DEF IdleTask, Task
<1>2. task' \in [Tasks -> Task]
  BY <1>1 DEF Stored, Rejected, Become
<1>3. outbox' \cup wire' \subseteq Nat \X Counter
  BY DEF Stored, Rejected, OtherTypes
<1> QED
  BY <1>2, <1>3 DEF OtherTypes

LEMMA GiveBackKeeps ==
    ASSUME StoreInv, NEW t \in Tasks, task[t].pc = "holding",
           NEW r \in Record, NEW raised \in BOOLEAN, NEW m \in SUBSET (Nat \X Counter),
           NEW k \in PreKeys \cup {NoKey},
           Extends(task[t].rec, r), GiveBack(t, r, raised, m, k),
           origin' \in [1 .. MaxChains -> PreKeys \cup {NoKey}], nextChain' \in Nat \ {0}
    PROVE  StoreInv' /\ (Invisible \/ Store!Commit)
<1> USE StateTypes
<1>1. UNCHANGED <<row, disk, keys, clearing, buffered, wire, losses>>
  BY DEF GiveBack, storage
<1>2. CASE Rejected(t) /\ UNCHANGED <<entry, flags, queue, flush>>
  <2>1. OtherTypes'
    BY <1>1, <1>2, AnswerTypes
  <2>2. IdleTask \in Task /\ IdleTask.pc = "idle"
    BY TaskForms DEF IdleTask
  <2>3. task' = [task EXCEPT ![t] = IdleTask]
    BY <1>2 DEF Rejected, Become
  <2>4. UNCHANGED <<entry, flags, row, disk, queue, flush, losses>>
    BY <1>1, <1>2
  <2> QED
    BY <2>1, <2>2, <2>3, <2>4, TaskOnlyKeeps
<1>3. CASE task[t].live /\ Locked /\ Owns(t) /\ PutBack(r, raised) /\ Stored(t, m, k) /\ UNCHANGED queue
  <2>1. OtherTypes' /\ task' \in [Tasks -> Task]
    BY <1>1, <1>3, AnswerTypes
  <2>2. task[t].rec = entry.rec
    BY <1>3 DEF StoreInv, OwnerInv
  <2> QED
    BY <1>1, <1>3, <2>1, <2>2, PutBackKeeps
<1>4. CASE /\ task[t].live
           /\ queue' = Append(queue, [task |-> t, rec |-> r, raised |-> raised])
           /\ Become(t, [IdleTask EXCEPT !.pc = "queued", !.key = k, !.msgs = m])
           /\ UNCHANGED <<entry, flags, flush, outbox>>
  <2> DEFINE x == [IdleTask EXCEPT !.pc = "queued", !.key = k, !.msgs = m]
             p == [task |-> t, rec |-> r, raised |-> raised]
  <2>1. x \in Task /\ x.pc = "queued"
    BY EmptyIsRecord DEF IdleTask, Task
  <2>2. task' = [task EXCEPT ![t] = x]
    BY <1>4 DEF Become
  <2> HIDE DEF x
  <2>3. TypeOK'
    <3>1. task' \in [Tasks -> Task]
      BY <2>1, <2>2
    <3>2. queue' \in Seq([task : Tasks, rec : Record, raised : BOOLEAN])
      BY <1>4
    <3> QED
      BY <1>1, <1>4, <3>1, <3>2 DEF StoreInv, TypeOK, flags
  <2>4. SlotInv' /\ CleanInv' /\ FlushInv'
    BY <1>1, <1>4 DEF StoreInv, SlotInv, CleanInv, FlushInv, flags, Decoded
  <2>5. ColdInv'
    BY <1>1, <1>4, <2>1, <2>2 DEF StoreInv, ColdInv
  <2>6. OwnerInv'
    <3>1. \A u \in Tasks : task'[u].pc = "holding" => u # t /\ task'[u] = task[u]
      BY <2>1, <2>2
    <3>2. ASSUME NEW i \in 1 .. Len(queue'), Owns(queue[i].task)'
          PROVE  Extends(entry'.rec, queue'[i].rec)
      <4>1. CASE i \in 1 .. Len(queue)
        <5>1. queue'[i] = queue[i]
          BY <1>4, <4>1
        <5> QED
          BY <1>4, <3>2, <4>1, <5>1 DEF StoreInv, OwnerInv, Owns
      <4>2. CASE i = Len(queue) + 1
        <5>1. queue'[i] = p
          BY <1>4, <4>2
        <5>2. Owns(t)
          BY <1>4, <3>2, <5>1 DEF Owns
        <5>3. task[t].rec = entry.rec
          BY <1>4, <5>2 DEF StoreInv, OwnerInv
        <5> QED
          BY <1>4, <5>1, <5>3
      <4> QED
        BY <1>4, <4>1, <4>2
    <3> QED
      BY <1>4, <3>1, <3>2 DEF StoreInv, OwnerInv, Owns
  <2>7. Invisible
    BY <1>1, <1>4 DEF Invisible, Value, Decoded
  <2> QED
    BY <2>3, <2>4, <2>5, <2>6, <2>7 DEF StoreInv
<1> QED
  BY <1>2, <1>3, <1>4 DEF GiveBack

\* Encrypt, Return and Establish give back what they made of the record.
LEMMA HolderKeeps ==
    ASSUME StoreInv, NEW t \in Tasks,
           \/ Encrypt(t) \/ Return(t)
           \/ \E k \in keys \cup {NoKey} : Establish(t, k)
    PROVE  StoreInv' /\ (Invisible \/ Store!Commit)
<1> DEFINE r == task[t].rec
<1>1. /\ r \in Record
      /\ origin \in [1 .. MaxChains -> PreKeys \cup {NoKey}] /\ nextChain \in Nat \ {0}
      /\ keys \subseteq PreKeys
  BY StateTypes DEF StoreInv, TypeOK
<1>2. CASE Encrypt(t)
  <2> DEFINE e == Encrypted(r)
             b == MustReserve(r, r.cur.idx)
             m == {<<r.cur.chain, r.cur.idx>>}
  <2>1. CanEncrypt(r) /\ e \in Record
    BY <1>1, <1>2, EncryptedIsRecord DEF Encrypt
  <2>2. m \in SUBSET (Nat \X Counter)
    <3>1. r.cur.chain \in Nat /\ r.cur.idx \in Counter
      BY <1>1 DEF Record, State
    <3> QED
      BY <3>1, PairsInProduct
  <2>3. Extends(task[t].rec, e)
    BY <2>1 DEF Extends
  <2>4. b \in BOOLEAN
    BY DEF MustReserve
  <2>5. /\ task[t].pc = "holding" /\ UNCHANGED <<origin, nextChain>>
        /\ GiveBack(t, e, b, m, NoKey)
    BY <1>2 DEF Encrypt
  <2> HIDE DEF e, b, m
  <2>6. /\ origin' \in [1 .. MaxChains -> PreKeys \cup {NoKey}]
        /\ nextChain' \in Nat \ {0}
        /\ NoKey \in PreKeys \cup {NoKey}
    BY <1>1, <2>5
  <2> QED
    BY <2>1, <2>2, <2>3, <2>4, <2>5, <2>6, GiveBackKeeps
<1>3. CASE Return(t)
  <2>1. Extends(r, r) /\ {} \in SUBSET (Nat \X Counter)
    BY DEF Extends
  <2> QED
    BY <1>1, <1>3, <2>1, GiveBackKeeps DEF Return
<1>4. CASE \E k \in keys \cup {NoKey} : Establish(t, k)
  <2> PICK k \in keys \cup {NoKey} : Establish(t, k)
    BY <1>4
  <2> DEFINE q == Renewed(r, nextChain)
  <2>0. nextChain # 0
    BY DEF StoreInv, TypeOK
  <2>1. q \in Record /\ HasChain(q.cur) /\ q.cur.chain = nextChain
    <3>1. q \in Record /\ q.cur = FreshState(nextChain)
      BY <1>1, <2>0, RenewedIsRecord
    <3>2. FreshState(nextChain).chain = nextChain
      BY DEF FreshState
    <3> HIDE DEF q
    <3> QED
      BY <2>0, <3>1, <3>2 DEF HasChain, NoChain
  <2>2. Extends(r, q) /\ {} \in SUBSET (Nat \X Counter)
    BY <2>1 DEF Extends
  <2>3. /\ origin' \in [1 .. MaxChains -> PreKeys \cup {NoKey}]
        /\ nextChain' \in Nat \ {0}
        /\ GiveBack(t, q, FALSE, {}, k)
        /\ task[t].pc = "holding"
    <3>1. k \in PreKeys \cup {NoKey}
      BY <1>1
    <3>2. /\ origin' = [origin EXCEPT ![nextChain] = k]
          /\ nextChain' = nextChain + 1
          /\ GiveBack(t, q, FALSE, {}, k)
          /\ task[t].pc = "holding"
      BY DEF Establish
    <3> HIDE DEF q
    <3>3. origin' \in [1 .. MaxChains -> PreKeys \cup {NoKey}]
      BY <1>1, <3>1, <3>2
    <3>4. nextChain' \in Nat \ {0}
      BY <1>1, <3>2
    <3> QED
      BY <3>2, <3>3, <3>4
  <2> HIDE DEF q
  <2> QED
    BY <1>1, <2>1, <2>2, <2>3, GiveBackKeeps
<1> QED
  BY <1>2, <1>3, <1>4

\* drain_session_restores
LEMMA DrainKeeps ==
    ASSUME StoreInv, Drain
    PROVE  StoreInv' /\ (Invisible \/ Store!Commit)
<1> USE StateTypes
<1> DEFINE p == Head(queue)
           t == p.task
           waiting == task[t].pc = "queued"
           Pending == [task : Tasks, rec : Record, raised : BOOLEAN]
<1>1. /\ p \in Pending /\ p = queue[1] /\ 1 \in 1 .. Len(queue)
      /\ queue' = Tail(queue)
      /\ queue' \in Seq(Pending)
      /\ Len(queue') = Len(queue) - 1
      /\ \A i \in 1 .. Len(queue') : i + 1 \in 1 .. Len(queue) /\ queue'[i] = queue[i + 1]
  <2>1. queue # <<>> /\ queue \in Seq(Pending) /\ queue' = Tail(queue)
    BY DEF Drain
  <2>2. Len(queue) \in Nat /\ Len(queue) > 0
    BY <2>1, EmptySeq
  <2> HIDE DEF Pending
  <2>3. /\ p \in Pending /\ p = queue[1]
        /\ Tail(queue) \in Seq(Pending)
        /\ Len(Tail(queue)) = Len(queue) - 1
        /\ \A i \in 1 .. Len(queue) - 1 : Tail(queue)[i] = queue[i + 1]
    BY <2>1, <2>2, HeadTailProperties
  <2> QED
    BY <2>1, <2>2, <2>3
<1>2. t \in Tasks /\ p.rec \in Record /\ p.raised \in BOOLEAN
  BY <1>1
<1>3. /\ UNCHANGED <<row, disk, keys, clearing, buffered, wire, origin, nextChain, losses>>
      /\ IF Owns(t) THEN PutBack(p.rec, p.raised) ELSE UNCHANGED <<entry, flags, flush>>
      /\ IF waiting /\ Owns(t) THEN Stored(t, task[t].msgs, task[t].key)
         ELSE IF waiting THEN Rejected(t) ELSE UNCHANGED <<task, outbox>>
  BY DEF Drain, storage, history
<1>4. OtherTypes' /\ task' \in [Tasks -> Task]
  <2>1. task[t].msgs \in SUBSET (Nat \X Counter) /\ task[t].key \in PreKeys \cup {NoKey}
    BY <1>2 DEF Task
  <2>2. /\ origin' \in [1 .. MaxChains -> PreKeys \cup {NoKey}]
        /\ nextChain' \in Nat \ {0}
    BY <1>3, OtherTypesHold DEF OtherTypes
  <2>3. CASE waiting
    BY <1>2, <1>3, <2>1, <2>2, <2>3, AnswerTypes
  <2>4. CASE ~waiting
    BY <1>3, <2>4, OtherTypesHold DEF OtherTypes
  <2> QED
    BY <2>3, <2>4
<1> HIDE DEF p
<1>5. CASE Owns(t)
  <2>1. Extends(entry.rec, p.rec)
    BY <1>1, <1>5 DEF StoreInv, OwnerInv
  <2>2. /\ PutBack(p.rec, p.raised) /\ UNCHANGED <<row, disk, losses>>
        /\ queue' \in Seq([task : Tasks, rec : Record, raised : BOOLEAN])
    BY <1>1, <1>3, <1>5
  <2> QED
    BY <1>2, <1>4, <1>5, <2>1, <2>2, PutBackKeeps
<1>6. CASE ~Owns(t)
  <2>1. UNCHANGED <<entry, flags, flush, row, disk, losses>>
    BY <1>3, <1>6
  <2>2. \A u \in Tasks : task'[u] = task[u] \/ task'[u] = IdleTask
    BY <1>2, <1>3, <1>6 DEF Rejected, Become
  <2>3. TypeOK'
    BY <1>1, <1>4, <2>1 DEF StoreInv, TypeOK, OtherTypes, flags
  <2>4. SlotInv' /\ CleanInv' /\ FlushInv'
    BY <2>1 DEF StoreInv, SlotInv, CleanInv, FlushInv, flags, Decoded
  <2>5. IdleTask.pc = "idle"
    BY DEF IdleTask
  <2>6. ColdInv'
    BY <2>1, <2>2, <2>5 DEF StoreInv, ColdInv
  <2>7. OwnerInv'
    <3>1. \A u \in Tasks : task'[u].pc = "holding" => task'[u] = task[u]
      BY <2>2, <2>5
    <3>2. \A i \in 1 .. Len(queue') : Owns(queue[i].task)' => Extends(entry.rec, queue[i].rec)'
      <4>1. /\ entry' = entry
            /\ \A i \in 1 .. Len(queue') : i + 1 \in 1 .. Len(queue) /\ queue'[i] = queue[i + 1]
        BY <1>1, <2>1
      <4>2. \A j \in 1 .. Len(queue) : Owns(queue[j].task) => Extends(entry.rec, queue[j].rec)
        BY DEF StoreInv, OwnerInv
      <4> QED
        BY <4>1, <4>2, Zenon DEF Owns
    <3> QED
      BY <2>1, <3>1, <3>2 DEF StoreInv, OwnerInv, Owns
  <2>8. Invisible
    BY <2>1 DEF Invisible, Value, Decoded
  <2> QED
    BY <2>3, <2>4, <2>6, <2>7, <2>8 DEF StoreInv
<1> QED
  BY <1>5, <1>6

LEMMA DeleteKeeps ==
    ASSUME StoreInv, DeleteSession
    PROVE  StoreInv' /\ Store!Delete
<1> USE StateTypes
<1>1. /\ entry' = Absent
      /\ entry'.kind = "Absent" /\ entry'.rec = EmptyRecord /\ entry'.owner = NoTask
      /\ deleted' /\ deleted' = TRUE /\ dirty' = FALSE
      /\ flush' = [flush EXCEPT !.same = @ /\ FALSE]
      /\ UNCHANGED <<gate, storage, queue, task, clearing, buffered, messages, history>>
  BY DEF DeleteSession, Absent, Plain, KeepVersion
<1>2. flush' \in Flush /\ ~flush'.same /\ flush'.pc = flush.pc /\ flush'.del = flush.del
  BY <1>1 DEF Flush
<1>3. TypeOK'
  BY <1>1, <1>2, EntryForms DEF StoreInv, TypeOK, storage, messages, history
<1>4. SlotInv' /\ CleanInv' /\ FlushInv'
  BY <1>1, <1>2 DEF StoreInv, SlotInv, CleanInv, FlushInv, storage
<1>5. ColdInv' /\ OwnerInv'
  BY <1>1 DEF ColdInv, OwnerInv, Owns
<1>6. Store!Delete
  BY <1>1, StoreRecords DEF Store!Delete, Value, history
<1> QED
  BY <1>3, <1>4, <1>5, <1>6 DEF StoreInv

LEMMA RemovePrekeyKeeps ==
    ASSUME StoreInv, NEW t \in Tasks, RemovePrekey(t)
    PROVE  StoreInv' /\ Invisible
<1> USE StateTypes
<1> DEFINE k == task[t].key
<1>1. /\ buffered' = buffered \cup {k}
      /\ flush' = [flush EXCEPT !.keys = @ \ {k}]
      /\ task' = [task EXCEPT ![t] = IdleTask]
      /\ UNCHANGED <<entry, flags, storage, queue, clearing, messages, history>>
  BY DEF RemovePrekey, Become
<1>2. /\ flush' \in Flush /\ flush'.pc = flush.pc /\ flush'.same = flush.same
      /\ flush'.del = flush.del /\ flush'.snap = flush.snap
  BY <1>1 DEF Flush
<1>3. buffered' \subseteq PreKeys
  <2>1. k \in PreKeys
    BY DEF RemovePrekey, Task
  <2> QED
    BY <1>1, <2>1 DEF StoreInv, TypeOK
<1>4. TypeOK'
  BY <1>1, <1>2, <1>3, TaskForms DEF StoreInv, TypeOK, flags, storage, messages, history
<1>5. SlotInv' /\ CleanInv' /\ FlushInv'
  BY <1>1, <1>2 DEF StoreInv, SlotInv, CleanInv, FlushInv, flags, storage, Decoded
<1>6. IdleTask.pc = "idle"
  BY DEF IdleTask
<1>7. ColdInv' /\ OwnerInv'
  BY <1>1, <1>6 DEF StoreInv, ColdInv, OwnerInv, Owns, storage
<1>8. Invisible
  BY <1>1 DEF Invisible, Value, Decoded, storage, history
<1> QED
  BY <1>4, <1>5, <1>7, <1>8 DEF StoreInv

----------------------------------------------------------------------------
\* The steps of a flush that change neither the entry's record nor the row.
LEMMA FlushOnlyKeeps ==
    ASSUME StoreInv, flush' \in Flush, FlushInv', OtherTypes',
           UNCHANGED <<entry, flags, row, disk, queue, task, losses>>
    PROVE  StoreInv' /\ Invisible
<1> USE StateTypes DEF flags
<1>1. TypeOK'
  BY DEF StoreInv, TypeOK, OtherTypes
<1>2. SlotInv' /\ CleanInv'
  BY DEF StoreInv, SlotInv, CleanInv, Decoded
<1>3. ColdInv' /\ OwnerInv'
  BY DEF StoreInv, ColdInv, OwnerInv, Owns
<1>4. Invisible
  BY DEF Invisible, Value, Decoded
<1> QED
  BY <1>1, <1>2, <1>3, <1>4 DEF StoreInv

LEMMA CaptureKeeps ==
    ASSUME StoreInv, FlushCapture
    PROVE  StoreInv' /\ Invisible
<1> USE StateTypes, OtherTypesHold DEF storage, messages, history
<1> DEFINE f == [IdleFlush EXCEPT !.del = deleted, !.keys = buffered]
           batch == dirty /\ Flushable
           g == IF batch THEN [f EXCEPT !.pc = "captured", !.snap = entry.rec, !.same = TRUE]
                ELSE [f EXCEPT !.pc = AfterWrite(f)]
<1>1. /\ flush' = g
      /\ UNCHANGED <<entry, flags, row, disk, keys, queue, task, clearing, buffered,
                     outbox, wire, origin, nextChain, losses>>
  BY DEF FlushCapture
<1>2. f \in Flush /\ f.del = deleted /\ ~f.same
  BY IdleFlushType DEF IdleFlush, Flush, StoreInv, TypeOK
<1> HIDE DEF f
<1>3. /\ g \in Flush
      /\ batch => g.pc = "captured" /\ g.snap = entry.rec /\ g.del = deleted
      /\ ~batch => /\ g.pc = IF deleted THEN "confirmed" ELSE "stored"
                   /\ ~g.same
  BY <1>2 DEF AfterWrite, Flush
<1>4. FlushInv'
  <2>1. UNCHANGED <<entry, dirty, deleted, row, disk>> /\ ~(dirty /\ deleted)
    BY <1>1 DEF flags, StoreInv, SlotInv
  <2> HIDE DEF g
  <2>2. CASE batch
    BY <1>1, <1>3, <2>1, <2>2 DEF FlushInv
  <2>3. CASE ~batch
    BY <1>1, <1>3, <2>1, <2>3 DEF FlushInv
  <2> QED
    BY <2>2, <2>3
<1>5. OtherTypes'
  BY <1>1
<1> QED
  BY <1>1, <1>3, <1>4, <1>5, FlushOnlyKeeps

LEMMA FlushEndsKeep ==
    ASSUME StoreInv, FlushProbe \/ FlushPrekeys \/ FlushFail
    PROVE  StoreInv' /\ Invisible
<1> USE StateTypes, OtherTypesHold DEF storage, messages, history
<1>1. /\ UNCHANGED <<entry, flags, row, disk, queue, task, losses>>
      /\ OtherTypes'
  BY DEF FlushProbe, FlushPrekeys, FlushFail, OtherTypes
<1>2. /\ flush' \in Flush /\ ~flush'.same /\ flush'.pc \in {"idle", "probed"}
  <2>1. IdleFlush.pc = "idle" /\ ~IdleFlush.same
    BY DEF IdleFlush
  <2>2. CASE flush' = IdleFlush
    BY <2>1, <2>2, IdleFlushType
  <2>3. ASSUME NEW d \in BOOLEAN, flush.pc = "stored",
               flush' = [flush EXCEPT !.pc = "probed", !.durable = d]
        PROVE  flush' \in Flush /\ ~flush'.same /\ flush'.pc \in {"idle", "probed"}
    BY <2>3 DEF Flush, StoreInv, FlushInv
  <2> QED
    BY <2>2, <2>3 DEF FlushProbe, FlushPrekeys, FlushFail
<1>3. FlushInv'
  BY <1>2 DEF FlushInv
<1> QED
  BY <1>1, <1>2, <1>3, FlushOnlyKeeps

\* The backend's side of a flush: the row changes under an entry that is not
\* missing.
LEMMA FlushRowKeeps ==
    ASSUME StoreInv, FlushWrite \/ FlushDelete
    PROVE  StoreInv' /\ Invisible
<1> USE StateTypes DEF flags, messages, history
<1>1. /\ UNCHANGED <<entry, dirty, deleted, gate, keys, queue, task, clearing, buffered,
                     outbox, wire, origin, nextChain, losses>>
      /\ dirty \/ deleted
      /\ entry.kind # "Missing"
  BY DEF FlushWrite, FlushDelete, StoreInv, SlotInv, FlushInv
<1>2. /\ flush' \in Flush
      /\ disk' \in Record /\ row' \in {"none", "own"}
      /\ FlushInv'
  <2>1. CASE FlushWrite
    <3>1. /\ flush.pc = "captured" /\ row' = "own" /\ disk' = flush.snap
          /\ flush' = [flush EXCEPT !.pc = "written", !.snap = EmptyRecord]
      BY <2>1 DEF FlushWrite
    <3>2. /\ flush' \in Flush /\ disk' \in Record /\ flush'.pc = "written"
          /\ flush'.same = flush.same /\ flush'.del = flush.del
      BY <3>1, EmptyIsRecord DEF Flush
    <3> QED
      BY <1>1, <3>1, <3>2 DEF StoreInv, FlushInv
  <2>2. CASE FlushDelete
    <3>1. /\ flush.pc = "confirmed" /\ row' = "none" /\ disk' = EmptyRecord
          /\ flush' = [flush EXCEPT !.pc = "removed"]
      BY <2>2 DEF FlushDelete
    <3>2. flush' \in Flush /\ flush'.pc = "removed" /\ flush'.same = flush.same
      BY <3>1 DEF Flush
    <3> QED
      BY <1>1, <3>1, <3>2, EmptyIsRecord DEF StoreInv, FlushInv
  <2> QED
    BY <2>1, <2>2
<1>3. TypeOK'
  BY <1>1, <1>2 DEF StoreInv, TypeOK
<1>4. SlotInv' /\ CleanInv' /\ ColdInv'
  BY <1>1 DEF StoreInv, SlotInv, CleanInv, ColdInv
<1>5. OwnerInv'
  BY <1>1 DEF StoreInv, OwnerInv, Owns
<1>6. Invisible
  BY <1>1 DEF Invisible, Value
<1> QED
  BY <1>2, <1>3, <1>4, <1>5, <1>6 DEF StoreInv

\* The confirmations: the flags go down only over an entry that the row equals.
LEMMA ConfirmKeeps ==
    ASSUME StoreInv, FlushConfirm \/ FlushConfirmDelete
    PROVE  StoreInv' /\ Invisible
<1> USE StateTypes DEF storage, messages, history
<1>1. /\ UNCHANGED <<row, disk, keys, queue, task, clearing, buffered,
                     outbox, wire, origin, nextChain, losses>>
      /\ entry' \in Entry
      /\ entry'.kind = entry.kind /\ entry'.rec = entry.rec /\ entry'.owner = entry.owner
  <2>1. entry' = entry \/ entry' = [entry EXCEPT !.snap = @ /\ ~flush.same]
    BY DEF FlushConfirm, FlushConfirmDelete
  <2>2. /\ entry' \in Entry
        /\ entry'.kind = entry.kind /\ entry'.rec = entry.rec /\ entry'.owner = entry.owner
    BY <2>1 DEF Entry
  <2> QED
    BY <2>2 DEF FlushConfirm, FlushConfirmDelete
<1>2. /\ flush' \in Flush /\ ~flush'.same
      /\ flush'.pc \in {"confirmed", "stored"}
      /\ dirty' \in BOOLEAN /\ deleted' \in BOOLEAN /\ gate' \in BOOLEAN
      /\ dirty' => dirty
      /\ deleted' => deleted
      /\ ~dirty' /\ ~deleted' /\ entry.kind # "Missing" => entry.rec = Decoded(row, disk)
      /\ flush'.pc = "confirmed" => dirty' \/ deleted'
  <2>1. CASE FlushConfirm
    <3>1. /\ flush.pc = "written" /\ row = "own" /\ ~flush.del
          /\ dirty' = (dirty /\ ~flush.same) /\ gate' = (gate /\ ~flush.same)
          /\ deleted' = deleted
          /\ flush' = [flush EXCEPT !.pc = "stored", !.same = FALSE]
      BY <2>1 DEF FlushConfirm, StoreInv, FlushInv, AfterWrite
    <3>2. flush' \in Flush /\ ~flush'.same /\ flush'.pc = "stored"
      BY <3>1 DEF Flush
    <3>3. flush.same => entry.rec = Decoded(row, disk)
      BY <3>1 DEF StoreInv, FlushInv, Decoded
    <3> QED
      BY <3>1, <3>2, <3>3 DEF StoreInv, CleanInv
  <2>2. CASE FlushConfirmDelete
    <3>1. /\ flush.pc = "removed" /\ row = "none"
          /\ deleted' = (deleted /\ entry.kind # "Absent")
          /\ gate' = (gate /\ entry.kind # "Absent")
          /\ dirty' = dirty
          /\ flush' = [flush EXCEPT !.pc = "stored", !.del = FALSE]
      BY <2>2 DEF FlushConfirmDelete, StoreInv, FlushInv, AfterDelete
    <3>2. flush' \in Flush /\ flush'.same = flush.same /\ flush'.pc = "stored"
      BY <3>1 DEF Flush
    <3>3. ~flush.same
      BY <3>1 DEF StoreInv, FlushInv
    <3>4. entry.kind = "Absent" => entry.rec = Decoded(row, disk)
      BY <3>1 DEF StoreInv, SlotInv, Decoded
    <3> QED
      BY <3>1, <3>2, <3>3, <3>4 DEF StoreInv, CleanInv
  <2> QED
    BY <2>1, <2>2
<1>3. TypeOK'
  BY <1>1, <1>2 DEF StoreInv, TypeOK
<1>4. SlotInv'
  BY <1>1, <1>2 DEF StoreInv, SlotInv
<1>5. CleanInv'
  BY <1>1, <1>2 DEF CleanInv, Decoded
<1>6. FlushInv'
  BY <1>2 DEF FlushInv
<1>7. ColdInv' /\ OwnerInv'
  BY <1>1 DEF StoreInv, ColdInv, OwnerInv, Owns
<1>8. Invisible
  BY <1>1 DEF Invisible, Value, Decoded
<1> QED
  BY <1>3, <1>4, <1>5, <1>6, <1>7, <1>8 DEF StoreInv

\* Leaving the cache with nothing to flush.
LEMMA DropKeeps ==
    ASSUME StoreInv, Evict \/ ClearAfterFlush
    PROVE  StoreInv' /\ Invisible
<1> USE StateTypes, OtherTypesHold DEF flags, storage, messages, history
<1>1. /\ ~dirty /\ ~deleted /\ ~flush.same
      /\ entry.kind # "Out"
      /\ flush.pc \notin {"captured", "confirmed", "removed"}
      /\ UNCHANGED <<flags, row, disk, queue, flush, losses>>
      /\ OtherTypes'
  BY DEF Evict, ClearAfterFlush, StoreInv, FlushInv, OtherTypes
<1>2. CASE Drop
  <2>1. /\ entry' = Missing
        /\ entry'.kind = "Missing" /\ entry'.rec = EmptyRecord /\ entry'.owner = NoTask
        /\ task' = [u \in Tasks |-> [task[u] EXCEPT !.fresh = FALSE]]
    BY <1>2 DEF Drop, Missing, Plain
  <2>2. \A u \in Tasks : task'[u] \in Task /\ ~task'[u].fresh
    BY <2>1, TaskUpdates
  <2>3. task' \in [Tasks -> Task]
    BY <2>1, <2>2
  <2>4. TypeOK'
    BY <1>1, <2>1, <2>3, EntryForms DEF StoreInv, TypeOK, OtherTypes
  <2>5. SlotInv' /\ CleanInv' /\ FlushInv'
    BY <1>1, <2>1 DEF StoreInv, SlotInv, CleanInv, FlushInv
  <2>6. ColdInv' /\ OwnerInv'
    BY <2>1, <2>2 DEF ColdInv, OwnerInv, Owns
  <2>7. Invisible
    BY <1>1, <2>1 DEF Invisible, Value, StoreInv, SlotInv, CleanInv, Decoded
  <2> QED
    BY <2>4, <2>5, <2>6, <2>7 DEF StoreInv
<1>3. CASE UNCHANGED <<entry, task>>
  <2>1. FlushInv'
    BY <1>1, <1>3 DEF StoreInv, FlushInv
  <2> QED
    BY <1>1, <1>3, <2>1, FlushOnlyKeeps
<1> QED
  BY <1>2, <1>3 DEF Evict, ClearAfterFlush

\* The steps of a clear before and after the discard, and a send.
LEMMA ClearKeeps ==
    ASSUME StoreInv, ClearStart \/ ClearPrekeys \/ Publish
    PROVE  StoreInv' /\ Invisible
<1> USE StateTypes, OtherTypesHold DEF flags, storage, messages, history
<1>1. /\ UNCHANGED <<entry, flags, row, disk, queue, flush, losses>>
      /\ OtherTypes'
  BY DEF ClearStart, ClearPrekeys, Publish, OtherTypes
<1>2. FlushInv'
  BY <1>1 DEF StoreInv, FlushInv
<1>3. CASE UNCHANGED task
  BY <1>1, <1>2, <1>3, FlushOnlyKeeps
<1>4. CASE task' = [u \in Tasks |-> [task[u] EXCEPT !.live = FALSE]]
  <2>1. \A u \in Tasks : /\ task'[u] \in Task /\ ~task'[u].live
                         /\ task'[u].pc = task[u].pc /\ task'[u].fresh = task[u].fresh
                         /\ task'[u].row = task[u].row /\ task'[u].rec = task[u].rec
    BY <1>4, TaskUpdates
  <2>2. task' \in [Tasks -> Task]
    BY <1>4, <2>1
  <2>3. TypeOK'
    BY <1>1, <2>2 DEF StoreInv, TypeOK, OtherTypes
  <2>4. SlotInv' /\ CleanInv'
    BY <1>1 DEF StoreInv, SlotInv, CleanInv, Decoded
  <2>5. ColdInv'
    BY <1>1, <2>1 DEF StoreInv, ColdInv
  <2>6. OwnerInv'
    <3>1. /\ entry' = entry /\ queue' = queue
          /\ \A u \in Tasks : ~task'[u].live
      BY <1>1, <2>1
    <3>2. \A j \in 1 .. Len(queue) : Owns(queue[j].task) => Extends(entry.rec, queue[j].rec)
      BY DEF StoreInv, OwnerInv
    <3> QED
      BY <3>1, <3>2, Zenon DEF OwnerInv, Owns
  <2>7. Invisible
    BY <1>1 DEF Invisible, Value, Decoded
  <2> QED
    BY <1>2, <2>3, <2>4, <2>5, <2>6, <2>7 DEF StoreInv
<1> QED
  BY <1>3, <1>4 DEF ClearStart, ClearPrekeys, Publish

\* The discard and the crash: nothing volatile is left.
LEMMA LossKeeps ==
    ASSUME StoreInv, ClearDiscard \/ Crash
    PROVE  StoreInv' /\ Store!Lose
<1> USE StateTypes, OtherTypesHold DEF flags, storage, messages, history
<1>1. /\ entry' = Missing
      /\ entry'.kind = "Missing" /\ entry'.rec = EmptyRecord /\ entry'.owner = NoTask
      /\ dirty' = FALSE /\ deleted' = FALSE /\ gate' = FALSE
      /\ queue' = <<>> /\ Len(queue') = 0
      /\ row' = (IF row = "own" THEN "foreign" ELSE row)
      /\ disk' = disk
      /\ losses' = losses + 1
  <2>1. Missing.kind = "Missing" /\ Missing.rec = EmptyRecord /\ Missing.owner = NoTask
    BY DEF Missing, Plain
  <2>2. CASE ClearDiscard
    BY <2>1, <2>2 DEF ClearDiscard
  <2>3. CASE Crash
    BY <2>1, <2>3 DEF Crash
  <2> QED
    BY <2>2, <2>3
<1>2. row' \in {"none", "foreign", "own"}
  BY <1>1 DEF StoreInv, TypeOK
<1>3. OtherTypes'
  <2>1. losses \in 0 .. MaxLosses /\ losses < MaxLosses
    BY DEF OtherTypes, ClearDiscard, Crash
  <2>2. losses' \in 0 .. MaxLosses
    BY <1>1, <2>1, OneMore
  <2>3. CASE ClearDiscard
    BY <2>2, <2>3 DEF ClearDiscard, OtherTypes
  <2>4. CASE Crash
    BY <2>2, <2>4 DEF Crash, OtherTypes
  <2> QED
    BY <2>3, <2>4
<1>5. flush' \in Flush /\ flush'.pc = "idle" /\ ~flush'.same
  <2>1. CASE ClearDiscard
    BY <2>1 DEF ClearDiscard, StoreInv, FlushInv
  <2>2. CASE Crash
    BY <2>2, IdleFlushType DEF Crash, IdleFlush
  <2> QED
    BY <2>1, <2>2
<1>6. /\ task' \in [Tasks -> Task]
      /\ ColdInv'
  <2>0. IdleTask \in Task /\ IdleTask.pc = "idle"
    BY TaskForms DEF IdleTask
  <2>1. CASE Crash
    <3>1. task' = [u \in Tasks |-> IdleTask]
      BY <2>1 DEF Crash
    <3> QED
      BY <2>0, <3>1 DEF ColdInv
  <2>2. CASE ClearDiscard
    <3> DEFINE x(u) == [task[u] EXCEPT !.inc = FALSE, !.fresh = @ /\ entry.kind = "Missing",
                                       !.row = IF @ = "own" THEN "foreign" ELSE @]
    <3>1. task' = [u \in Tasks |-> IF task[u].pc = "queued" THEN IdleTask ELSE x(u)]
      BY <2>2 DEF ClearDiscard
    <3>2. \A u \in Tasks : /\ x(u) \in Task
                           /\ x(u).pc = task[u].pc
                           /\ x(u).fresh => task[u].fresh /\ entry.kind = "Missing"
                           /\ x(u).row = IF task[u].row = "own" THEN "foreign" ELSE task[u].row
                           /\ x(u).rec = task[u].rec
      <4> TAKE u \in Tasks
      <4> DEFINE f == task[u].fresh /\ entry.kind = "Missing"
                 w == IF task[u].row = "own" THEN "foreign" ELSE task[u].row
      <4>1. task[u] \in Task
        OBVIOUS
      <4>2. f \in BOOLEAN /\ w \in {"none", "foreign", "own"}
        BY <4>1 DEF Task
      <4>3. x(u) = [task[u] EXCEPT !.inc = FALSE, !.fresh = f, !.row = w]
        BY <4>1 DEF Task
      <4> HIDE DEF x, f, w
      <4>4. x(u) \in Task /\ x(u).pc = task[u].pc /\ x(u).fresh = f /\ x(u).row = w
            /\ x(u).rec = task[u].rec
        BY <4>1, <4>2, <4>3 DEF Task
      <4> QED
        BY <4>4 DEF f, w
    <3> HIDE DEF x
    <3>3. task' \in [Tasks -> Task]
      BY <2>0, <3>1, <3>2
    <3>4. ColdInv'
      BY <1>1, <2>0, <3>1, <3>2 DEF StoreInv, ColdInv
    <3> QED
      BY <3>3, <3>4
  <2> QED
    BY <2>1, <2>2
<1>7. queue' \in Seq([task : Tasks, rec : Record, raised : BOOLEAN])
  <2>1. queue' = <<>>
    BY <1>1
  <2> QED
    BY <2>1, EmptySeq
<1>8. TypeOK'
  BY <1>1, <1>2, <1>3, <1>5, <1>6, <1>7, EntryForms DEF TypeOK, OtherTypes
<1>9. SlotInv' /\ CleanInv' /\ FlushInv' /\ OwnerInv'
  BY <1>1, <1>5 DEF SlotInv, CleanInv, FlushInv, OwnerInv, Owns
<1>10. Store!Lose
  BY <1>1 DEF Store!Lose
<1> QED
  BY <1>6, <1>8, <1>9, <1>10 DEF StoreInv

----------------------------------------------------------------------------
\* Every step keeps the invariant, and is a step of the register or leaves it
\* alone.
LEMMA NextKeeps ==
    ASSUME StoreInv, [Next]_vars
    PROVE  StoreInv' /\ [Store!Next]_(Store!vars)
<1>1. CASE UNCHANGED vars
  <2>1. UNCHANGED <<entry, dirty, deleted, gate, row, disk, keys, queue, task, flush, clearing,
                    buffered, origin, outbox, wire, nextChain, losses>>
    BY <1>1 DEF vars, flags, storage, messages, history
  <2>2. OtherTypes' /\ flush' \in Flush /\ FlushInv'
    BY <2>1, OtherTypesHold, StateTypes DEF StoreInv, FlushInv
  <2> QED
    BY <2>1, <2>2, FlushOnlyKeeps DEF Invisible, Store!vars, flags
<1>2. CASE \E t \in Tasks : TaskStep(t)
  BY <1>2, CheckoutKeeps, ColdKeeps, ColdInstallKeeps, HolderKeeps, RemovePrekeyKeeps
  DEF TaskStep, Invisible, Store!vars, Store!Next
<1>3. CASE FlushStep
  BY <1>3, CaptureKeeps, FlushRowKeeps, ConfirmKeeps, FlushEndsKeep
  DEF FlushStep, Invisible, Store!vars
<1>4. CASE Drain \/ DeleteSession
  BY <1>4, DrainKeeps, DeleteKeeps DEF Invisible, Store!vars, Store!Next
<1>5. CASE Evict \/ ClearAfterFlush \/ ClearStart \/ ClearPrekeys \/ Publish
  BY <1>5, DropKeeps, ClearKeeps DEF Invisible, Store!vars
<1>6. CASE ClearDiscard \/ Crash
  BY <1>6, LossKeeps DEF Store!Next
<1> QED
  BY <1>1, <1>2, <1>3, <1>4, <1>5, <1>6 DEF Next

LEMMA InitHolds ==
    ASSUME Init
    PROVE  StoreInv /\ Store!Init
<1>1. TypeOK
  <2>1. /\ entry \in Entry /\ disk \in Record /\ flush \in Flush
        /\ task \in [Tasks -> Task]
        /\ queue \in Seq([task : Tasks, rec : Record, raised : BOOLEAN])
    BY EntryForms, TaskForms, IdleFlushType, EmptyIsRecord DEF Init
  <2>2. origin \in [1 .. MaxChains -> PreKeys \cup {NoKey}]
    BY DEF Init
  <2>3. losses \in 0 .. MaxLosses
    BY DEF Init
  <2>4. outbox \cup wire \subseteq Nat \X Counter
    BY DEF Init
  <2>5. {dirty, deleted, gate} \subseteq BOOLEAN
    BY DEF Init
  <2>6. clearing # "bumped"
    BY DEF Init
  <2>7. /\ row \in {"none", "foreign", "own"}
        /\ clearing \in {"no", "bumped", "discarded"}
        /\ keys \subseteq PreKeys /\ buffered \subseteq PreKeys
        /\ nextChain \in Nat \ {0}
    BY DEF Init
  <2> QED
    BY <2>1, <2>2, <2>3, <2>4, <2>5, <2>6, <2>7 DEF TypeOK
<1>2. entry.kind = "Missing" /\ entry.rec = EmptyRecord /\ entry.owner = NoTask
  BY DEF Init, Missing, Plain
<1>3. SlotInv /\ CleanInv /\ OwnerInv
  BY <1>2 DEF Init, SlotInv, CleanInv, OwnerInv, Owns
<1>4. FlushInv /\ ColdInv
  BY DEF Init, FlushInv, ColdInv, IdleFlush, IdleTask
<1>5. Store!Init
  BY <1>2, StoreRecords DEF Init, Store!Init, Value, Decoded
<1> QED
  BY <1>1, <1>3, <1>4, <1>5 DEF StoreInv

\* The inductive invariant holds in every reachable state of the cache.
THEOREM StoreInvariance == Spec => []StoreInv
BY InitHolds, NextKeeps, PTL DEF Spec

\* SignalStoreCache implements SessionStore: with any number of tasks, cold
\* reads, flushes, clears and crashes in any order, its users see a register
\* with one owner at a time.
THEOREM CacheRefinesStore == Spec => ImplementsSessionStore
<1>1. Init => Store!Init
  BY InitHolds
<1>2. StoreInv /\ [Next]_vars => [Store!Next]_(Store!vars)
  BY NextKeeps
<1> QED
  BY <1>1, <1>2, StoreInvariance, PTL DEF Spec, ImplementsSessionStore, Store!Spec

----------------------------------------------------------------------------
(* Checkouts return.                                                       *)

\* An entry that is not checked out, by its constructor.
LEMMA NotOut ==
    /\ Absent.kind # "Out"
    /\ Missing.kind # "Out"
    /\ \A r : Plain("Present", r).kind # "Out" /\ Cached(r).kind # "Out"
BY DEF Absent, Missing, Plain, Cached

\* A step that moves neither the entry nor the queue nor the clear keeps the
\* way back unless it takes the record from its live holder.
LEMMA WayBackKept ==
    ASSUME StoreInv, CheckoutReturns,
           entry'.kind = "Out" => entry.kind = "Out" /\ entry'.owner = entry.owner,
           UNCHANGED <<queue, clearing>>,
           \A t \in Tasks : task[t].pc = "holding" /\ task[t].live /\ Owns(t) =>
               task'[t].pc = "holding" /\ task'[t].live
    PROVE  CheckoutReturns'
BY DEF CheckoutReturns, Owns, StoreInv, SlotInv

LEMMA TaskStepsReturn ==
    ASSUME StoreInv, CheckoutReturns, NEW t \in Tasks, TaskStep(t)
    PROVE  CheckoutReturns'
<1> USE StateTypes
<1>1. ASSUME NEW x, Become(t, x), task[t].pc # "holding", UNCHANGED <<entry, queue, clearing>>
      PROVE  CheckoutReturns'
  BY <1>1, WayBackKept DEF Become
<1>2. CASE ColdStart(t) \/ ColdFetch(t) \/ ColdRaced(t) \/ Abandon(t) \/ RemovePrekey(t)
  BY <1>1, <1>2 DEF ColdStart, ColdFetch, ColdRaced, Abandon, RemovePrekey
<1>3. ASSUME NEW r, NEW s, entry' = Out(t, r, s), Become(t, Holding(r)), UNCHANGED clearing
      PROVE  CheckoutReturns'
  <2>1. entry'.owner = t
    BY <1>3 DEF Out
  <2>2. task'[t] = Holding(r)
    BY <1>3 DEF Become
  <2>3. Holding(r).pc = "holding" /\ (clearing # "bumped" => Holding(r).live)
    BY DEF Holding, IdleTask
  <2> QED
    BY <1>3, <2>1, <2>2, <2>3 DEF CheckoutReturns
<1>4. CASE Checkout(t)
  BY <1>3, <1>4 DEF Checkout
<1>5. ASSUME NEW how, NEW r, Install(t, how, r)
      PROVE  CheckoutReturns'
  <2>1. CASE how = "checkout"
    BY <1>3, <1>5, <2>1 DEF Install
  <2>2. CASE how # "checkout"
    <3>1. entry'.kind # "Out"
      BY <1>5, <2>2, NotOut DEF Install
    <3> QED
      BY <3>1 DEF CheckoutReturns
  <2> QED
    BY <2>1, <2>2
<1>6. CASE \E how : ColdInstall(t, how) \/ LockedRead(t, how)
  BY <1>5, <1>6 DEF ColdInstall, LockedRead
<1>7. ASSUME NEW r, NEW raised, NEW m, NEW k, task[t].pc = "holding", GiveBack(t, r, raised, m, k)
      PROVE  CheckoutReturns'
  <2>1. UNCHANGED clearing
    BY <1>7 DEF GiveBack
  <2>2. CASE (~task[t].live \/ ~Owns(t)) /\ Rejected(t) /\ UNCHANGED <<entry, queue>>
    <3>1. \A u \in Tasks : task[u].pc = "holding" /\ task[u].live /\ Owns(u) => task'[u] = task[u]
      BY <2>2 DEF Rejected, Become
    <3> QED
      BY <2>1, <2>2, <3>1, WayBackKept
  <2>3. CASE PutBack(r, raised)
    <3>1. entry'.kind # "Out"
      BY <2>3, NotOut DEF PutBack, PutWithKey
    <3> QED
      BY <3>1 DEF CheckoutReturns
  <2>4. CASE /\ queue' = Append(queue, [task |-> t, rec |-> r, raised |-> raised])
             /\ Become(t, [IdleTask EXCEPT !.pc = "queued", !.key = k, !.msgs = m])
             /\ UNCHANGED entry
    <3> DEFINE p == [task |-> t, rec |-> r, raised |-> raised]
    <3>1. /\ \A i \in 1 .. Len(queue) : i \in 1 .. Len(queue') /\ queue'[i] = queue[i]
          /\ Len(queue) + 1 \in 1 .. Len(queue') /\ queue'[Len(queue) + 1] = p
      BY <2>4
    <3>2. p.task = t
      OBVIOUS
    <3>3. \A u \in Tasks : u # t => task'[u] = task[u]
      BY <2>4 DEF Become
    <3> HIDE DEF p
    <3>4. CASE entry.owner = t
      BY <2>4, <3>1, <3>2, <3>4 DEF CheckoutReturns
    <3>5. CASE entry.owner # t
      BY <2>1, <2>4, <3>1, <3>3, <3>5 DEF CheckoutReturns, StoreInv, SlotInv
    <3> QED
      BY <3>4, <3>5
  <2> QED
    BY <1>7, <2>2, <2>3, <2>4 DEF GiveBack
<1>8. CASE Encrypt(t) \/ Return(t) \/ \E k \in keys \cup {NoKey} : Establish(t, k)
  BY <1>7, <1>8 DEF Encrypt, Return, Establish
<1> QED
  BY <1>2, <1>4, <1>6, <1>8 DEF TaskStep

LEMMA DrainReturns ==
    ASSUME StoreInv, CheckoutReturns, Drain
    PROVE  CheckoutReturns'
<1> USE StateTypes
<1> DEFINE p == Head(queue)
           t == p.task
           Pending == [task : Tasks, rec : Record, raised : BOOLEAN]
<1>1. queue # <<>> /\ queue \in Seq(Pending) /\ queue' = Tail(queue)
  BY DEF Drain
<1>2. /\ p = queue[1] /\ Len(queue) \in Nat /\ Len(queue') = Len(queue) - 1
      /\ \A i \in 1 .. Len(queue) - 1 : queue'[i] = queue[i + 1]
  BY <1>1, HeadTailProperties
<1>3. /\ UNCHANGED clearing
      /\ IF Owns(t) THEN PutBack(p.rec, p.raised) ELSE UNCHANGED <<entry, flags, flush>>
      /\ task' = task \/ Become(t, IdleTask) \/ Owns(t)
  BY DEF Drain, Rejected
<1> HIDE DEF p
<1>4. CASE Owns(t)
  <2>1. entry'.kind # "Out"
    BY <1>3, <1>4, NotOut DEF PutBack, PutWithKey
  <2> QED
    BY <2>1 DEF CheckoutReturns
<1>5. CASE ~Owns(t)
  <2>1. SUFFICES ASSUME entry'.kind = "Out"
                 PROVE  CheckoutReturns'
    BY DEF CheckoutReturns
  <2>2. /\ entry' = entry /\ entry.kind = "Out" /\ entry.owner # t
        /\ entry.owner \in Tasks
        /\ task'[entry.owner] = task[entry.owner]
    BY <1>3, <1>5, <2>1 DEF Owns, Become, StoreInv, SlotInv
  <2>3. ASSUME NEW i \in 1 .. Len(queue), queue[i].task = entry.owner
        PROVE  \E j \in 1 .. Len(queue') : queue'[j].task = entry'.owner
    <3>1. i # 1
      BY <1>2, <2>2, <2>3
    <3>2. i - 1 \in 1 .. Len(queue) - 1 /\ (i - 1) + 1 = i /\ Len(queue') = Len(queue) - 1
      BY <1>2, <3>1
    <3>3. i - 1 \in 1 .. Len(queue') /\ queue'[i - 1] = queue[i]
      BY <1>2, <3>2
    <3> QED
      BY <2>2, <2>3, <3>3
  <2> QED
    BY <1>3, <2>2, <2>3 DEF CheckoutReturns
<1> QED
  BY <1>4, <1>5

\* Every checkout has a way back, whoever is cancelled and whatever is
\* contended: the entry of an address is never stuck in CheckedOut.
THEOREM CheckoutsReturn == Spec => []CheckoutReturns
<1>1. Init => CheckoutReturns
  BY DEF Init, CheckoutReturns, Missing, Plain
<1>2. ASSUME StoreInv, CheckoutReturns, [Next]_vars PROVE CheckoutReturns'
  <2> USE <1>2, StateTypes
  <2>1. CASE UNCHANGED vars
    BY <2>1, WayBackKept DEF vars
  <2>2. CASE \E t \in Tasks : TaskStep(t)
    BY <2>2, TaskStepsReturn
  <2>3. CASE FlushStep
    <3>1. UNCHANGED <<queue, task, clearing>>
          /\ (entry' = entry \/ entry' = [entry EXCEPT !.snap = @ /\ ~flush.same])
      BY <2>3 DEF FlushStep, FlushCapture, FlushWrite, FlushConfirm, FlushDelete,
                  FlushConfirmDelete, FlushProbe, FlushPrekeys, FlushFail
    <3>2. entry'.kind = entry.kind /\ entry'.owner = entry.owner
      BY <3>1 DEF Entry
    <3> QED
      BY <3>1, <3>2, WayBackKept
  <2>4. CASE Drain
    BY <2>4, DrainReturns
  <2>5. CASE DeleteSession \/ Evict \/ ClearDiscard \/ Crash
    <3>1. entry'.kind # "Out"
      BY <2>5, NotOut DEF DeleteSession, Evict, Drop, ClearDiscard, Crash
    <3> QED
      BY <3>1 DEF CheckoutReturns
  <2>6. CASE ClearAfterFlush
    <3>1. entry'.kind # "Out"
      BY <2>6 DEF ClearAfterFlush, Drop, Missing, Plain
    <3> QED
      BY <3>1 DEF CheckoutReturns
  <2>7. CASE ClearStart
    BY <2>7 DEF ClearStart, CheckoutReturns
  <2>8. CASE ClearPrekeys
    BY <2>8 DEF ClearPrekeys, CheckoutReturns
  <2>9. CASE Publish
    BY <2>9, WayBackKept DEF Publish
  <2> QED
    BY <2>1, <2>2, <2>3, <2>4, <2>5, <2>6, <2>7, <2>8, <2>9 DEF Next
<1> QED
  BY <1>1, <1>2, StoreInvariance, PTL DEF Spec
\* A counter lease that is not durable yet is never forgotten: its address is
\* marked dirty or deleted until a flush has written or removed the row.
THEOREM GateIsCovered == Spec => []GateCovered
<1>1. Init => GateCovered
  BY DEF Init, GateCovered
<1>2. ASSUME StoreInv, GateCovered, [Next]_vars PROVE GateCovered'
  <2> USE <1>2, StateTypes
  <2>1. ASSUME UNCHANGED flags PROVE GateCovered'
    BY <2>1 DEF flags, GateCovered
  <2>2. ASSUME NEW r, NEW raised, PutBack(r, raised) PROVE GateCovered'
    BY <2>1, <2>2 DEF PutBack, PutWithKey, GateCovered
  <2>3. CASE \E t \in Tasks : TaskStep(t)
    <3>1. PICK t \in Tasks : TaskStep(t)
      BY <2>3
    <3>2. ASSUME NEW r, NEW raised, NEW m, NEW k, GiveBack(t, r, raised, m, k)
          PROVE  GateCovered'
      BY <2>1, <2>2, <3>2 DEF GiveBack
    <3>3. CASE \/ ColdStart(t) \/ ColdFetch(t) \/ ColdRaced(t) \/ Abandon(t)
               \/ RemovePrekey(t) \/ Checkout(t)
               \/ \E how : ColdInstall(t, how) \/ LockedRead(t, how)
      BY <2>1, <3>3 DEF ColdStart, ColdFetch, ColdRaced, Abandon, RemovePrekey, Checkout,
                        ColdInstall, LockedRead, Install
    <3>4. CASE Encrypt(t) \/ Return(t) \/ \E k \in keys \cup {NoKey} : Establish(t, k)
      BY <3>2, <3>4 DEF Encrypt, Return, Establish
    <3> QED
      BY <3>1, <3>3, <3>4 DEF TaskStep
  <2>4. CASE Drain
    BY <2>1, <2>2, <2>4 DEF Drain
  <2>5. CASE DeleteSession
    BY <2>5 DEF DeleteSession, GateCovered
  <2>6. CASE FlushStep
    <3>1. CASE FlushConfirm \/ FlushConfirmDelete
      BY <3>1 DEF FlushConfirm, FlushConfirmDelete, GateCovered
    <3>2. CASE FlushCapture \/ FlushWrite \/ FlushDelete \/ FlushProbe \/ FlushPrekeys \/ FlushFail
      BY <2>1, <3>2 DEF FlushCapture, FlushWrite, FlushDelete, FlushProbe, FlushPrekeys, FlushFail
    <3> QED
      BY <2>6, <3>1, <3>2 DEF FlushStep
  <2>7. CASE ClearDiscard \/ Crash
    BY <2>7 DEF ClearDiscard, Crash, GateCovered
  <2>8. CASE Evict \/ ClearAfterFlush \/ ClearStart \/ ClearPrekeys \/ Publish
    BY <2>1, <2>8 DEF Evict, ClearAfterFlush, ClearStart, ClearPrekeys, Publish
  <2>9. CASE UNCHANGED vars
    BY <2>1, <2>9 DEF vars
  <2> QED
    BY <2>3, <2>4, <2>5, <2>6, <2>7, <2>8, <2>9 DEF Next
<1> QED
  BY <1>1, <1>2, StoreInvariance, PTL DEF Spec
=============================================================================
