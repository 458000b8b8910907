---------------------------- MODULE SignalCache ----------------------------
(***************************************************************************)
(* The session half of wacore's SignalStoreCache for one address: tasks    *)
(* check the record out and give it back (directly, or through a queue     *)
(* when the lock is contended), cold reads run outside the lock, a flush   *)
(* writes rows, deletes rows and destroys consumed pre-keys, and a lossy   *)
(* clear or a crash throws the memory away.                                *)
(*                                                                         *)
(* Every method that takes the sessions lock drains the queue of restores  *)
(* first: Drain is a step of its own and Locked guards the others.         *)
(* Checkout tokens, generations, record versions and removal stamps are    *)
(* never reused, so each is kept as the answer of the comparison it is     *)
(* made for: the owner of the entry, `live`, `same`, `fresh` and `inc`.    *)
(***************************************************************************)
EXTENDS SessionRecord, FiniteSets

CONSTANTS
    Tasks, NoTask,
    PreKeys, NoKey,     \* the one-time pre-keys of the backend
    MaxChains,          \* bound on the sender chains ever created
    MaxLosses           \* bound on crashes and lossy clears

ASSUME CacheAssumption ==
    /\ NoTask \notin Tasks
    /\ MaxChains \in Nat
    /\ MaxLosses \in Nat

VARIABLES
    entry,       \* the SessionEntry of the address, see Entry
    dirty, deleted,
    gate,        \* reservation_pending
    row, disk,   \* the durable row: "none", "foreign" or "own", and its record
    queue,       \* pending_session_restores
    task,        \* what each task is doing, see Task
    flush,       \* the flush in progress, see Flush
    clearing,    \* clear: "no", "bumped" (generation) or "discarded"
    keys,        \* pre-keys in the backend
    buffered,    \* removed_prekeys
    origin,      \* the pre-key that each chain was established with
    outbox, wire, nextChain, losses

flags     == <<dirty, deleted, gate>>
storage   == <<row, disk, keys>>
messages  == <<outbox, wire>>
history   == <<origin, nextChain, losses>>
vars == <<entry, flags, storage, queue, task, flush, clearing, buffered, messages, history>>

\* Out keeps the record that was handed over: with snap it is the retained
\* wire_snapshot, without it only a history of what the owner started from.
Entry == [kind : {"Missing", "Absent", "Present", "Out"}, rec : Record,
          owner : Tasks \cup {NoTask}, snap : BOOLEAN]
Task  == {x \in [pc : {"idle", "cold", "fetched", "raced", "holding", "queued", "consuming"},
                 rec : Record, row : {"none", "foreign", "own"}, fresh : BOOLEAN,
                 inc : BOOLEAN, live : BOOLEAN, key : PreKeys \cup {NoKey},
                 msgs : SUBSET (Nat \X Counter)] : x.pc = "consuming" => x.key \in PreKeys}
Flush == [pc : {"idle", "captured", "written", "confirmed", "removed", "stored", "probed"},
          snap : Record, same : BOOLEAN, del : BOOLEAN, keys : SUBSET PreKeys,
          durable : BOOLEAN]

Plain(k, r)  == [kind |-> k, rec |-> r, owner |-> NoTask, snap |-> FALSE]
Missing      == Plain("Missing", EmptyRecord)
Absent       == Plain("Absent", EmptyRecord)
Cached(r)    == IF r = EmptyRecord THEN Absent ELSE Plain("Present", r)
Out(t, r, s) == [kind |-> "Out", rec |-> r, owner |-> t, snap |-> s]

IdleTask  == [pc |-> "idle", rec |-> EmptyRecord, row |-> "none", fresh |-> FALSE,
              inc |-> FALSE, live |-> FALSE, key |-> NoKey, msgs |-> {}]
IdleFlush == [pc |-> "idle", snap |-> EmptyRecord, same |-> FALSE, del |-> FALSE,
              keys |-> {}, durable |-> FALSE]

TypeOK ==
    /\ entry \in Entry
    /\ {dirty, deleted, gate} \subseteq BOOLEAN
    /\ row \in {"none", "foreign", "own"}
    /\ disk \in Record
    /\ queue \in Seq([task : Tasks, rec : Record, raised : BOOLEAN])
    /\ task \in [Tasks -> Task]
    /\ flush \in Flush
    /\ clearing \in {"no", "bumped", "discarded"}
    /\ keys \subseteq PreKeys
    /\ buffered \subseteq PreKeys
    /\ origin \in [1 .. MaxChains -> PreKeys \cup {NoKey}]
    /\ outbox \cup wire \subseteq Nat \X Counter
    /\ nextChain \in Nat \ {0}
    /\ losses \in 0 .. MaxLosses
    /\ clearing = "bumped" => losses < MaxLosses

Init ==
    /\ entry = Missing
    /\ dirty = FALSE
    /\ deleted = FALSE
    /\ gate = FALSE
    /\ row = "none"
    /\ disk = EmptyRecord
    /\ queue = <<>>
    /\ task = [t \in Tasks |-> IdleTask]
    /\ flush = IdleFlush
    /\ clearing = "no"
    /\ keys = PreKeys
    /\ buffered = {}
    /\ origin = [c \in 1 .. MaxChains |-> NoKey]
    /\ outbox = {}
    /\ wire = {}
    /\ nextChain = 1
    /\ losses = 0

\* lock_sessions and try_lock_sessions, once they have drained the queue
Locked == queue = <<>>

Become(t, r) == task' = [task EXCEPT ![t] = r]

----------------------------------------------------------------------------
(* Checking the record out.                                                *)

\* A row as decode_stored_session reads it under the current incarnation.
Decoded(status, r) ==
    IF status = "none" \/ (status = "foreign" /\ ReloadFails(r)) THEN EmptyRecord
    ELSE IF status = "own" THEN r ELSE Reloaded(r)

Holding(r) == [IdleTask EXCEPT !.pc = "holding", !.rec = r, !.live = (clearing # "bumped")]

\* The captured version leaves the cache unless the entry retains it.
KeepVersion(kept) == flush' = [flush EXCEPT !.same = @ /\ kept]

\* SessionStoreState::checkout on a cached entry.  A record whose lease is not
\* durable yet stays flushable while its owner works on it.
Checkout(t) ==
    /\ Locked
    /\ task[t].pc \in {"idle", "fetched", "raced"}
    /\ entry.kind \in {"Present", "Absent"}
    /\ LET retained == entry.kind = "Present" /\ gate
       IN  /\ entry' = Out(t, entry.rec, retained)
           /\ KeepVersion(retained)
    /\ Become(t, Holding(entry.rec))
    /\ UNCHANGED <<flags, storage, queue, clearing, buffered, messages, history>>

\* The cold path: note the incarnation and the removal stamp,
ColdStart(t) ==
    /\ Locked
    /\ task[t].pc \in {"idle", "raced"}
    /\ entry.kind = "Missing"
    /\ Become(t, [IdleTask EXCEPT !.pc = "cold", !.fresh = TRUE, !.inc = TRUE])
    /\ UNCHANGED <<entry, flags, storage, queue, flush, clearing, buffered, messages, history>>

\* read the row with the lock released,
ColdFetch(t) ==
    /\ task[t].pc = "cold"
    /\ Become(t, [task[t] EXCEPT !.pc = "fetched", !.row = row, !.rec = disk])
    /\ UNCHANGED <<entry, flags, storage, queue, flush, clearing, buffered, messages, history>>

\* and decide again under the lock.  checkout_loaded_session:
Install(t, how, r) ==
    /\ IF how = "checkout"
       THEN entry' = Out(t, r, FALSE) /\ Become(t, Holding(r))
       ELSE entry' = Cached(r) /\ Become(t, IdleTask)
    /\ UNCHANGED <<flags, storage, queue, flush, clearing, buffered, messages, history>>

\* mutant of ColdInstall: absence alone is taken for "nothing happened"
ColdInstallUnstamped(t, how) ==
    /\ Locked
    /\ task[t].pc = "fetched"
    /\ entry.kind = "Missing"
    /\ Install(t, how, Decoded(task[t].row, task[t].rec))

\* checkout_session, peek_session and has_session refuse a row read before a
\* removal or under another incarnation; prefetch_sessions only the former.
ColdInstall(t, how) ==
    /\ Locked
    /\ task[t].pc = "fetched"
    /\ entry.kind = "Missing"
    /\ task[t].fresh
    /\ how = "prefetch" \/ task[t].inc
    /\ Install(t, how, Decoded(task[t].row, task[t].rec))

\* Refused (removed_since may also answer yes for the removal of another key),
\* answered from an entry that appeared meanwhile, or given up.
ColdRaced(t) ==
    /\ Locked
    /\ task[t].pc = "fetched"
    /\ Become(t, IF entry.kind = "Missing" THEN [IdleTask EXCEPT !.pc = "raced"] ELSE IdleTask)
    /\ UNCHANGED <<entry, flags, storage, queue, flush, clearing, buffered, messages, history>>

\* After UNLOCKED_COLD_READ_ATTEMPTS the row is read under the lock.
LockedRead(t, how) ==
    /\ Locked
    /\ task[t].pc = "raced"
    /\ entry.kind = "Missing"
    /\ Install(t, how, Decoded(row, disk))

----------------------------------------------------------------------------
(* Giving it back.                                                         *)

\* put_with_key
PutWithKey(r, raised) ==
    /\ entry' = Plain("Present", r)
    /\ dirty' = TRUE
    /\ deleted' = FALSE
    /\ gate' = (gate \/ raised)
    /\ KeepVersion(FALSE)

\* A restore or a cancelled empty checkout (no record) takes effect.
PutBack(r, raised) ==
    IF r # EmptyRecord THEN PutWithKey(r, raised)
    ELSE /\ entry' = Absent
         /\ KeepVersion(FALSE)
         /\ UNCHANGED flags

Owns(t) == entry.kind = "Out" /\ entry.owner = t

\* What the caller does with the answer: Stored hands out the ciphertexts and
\* reports a consumed pre-key, Rejected is an error that drops them.  While a
\* clear is under way there is no transport to hand them to.
Stored(t, m, k) ==
    /\ outbox' = IF clearing = "bumped" THEN outbox ELSE outbox \cup m
    /\ Become(t, IF k = NoKey THEN IdleTask ELSE [IdleTask EXCEPT !.pc = "consuming", !.key = k])

Rejected(t) ==
    /\ Become(t, IdleTask)
    /\ UNCHANGED outbox

\* mutant of GiveBack: only a record is worth queueing
GiveBackUnlessEmpty(t, r, raised, m, k) ==
    /\ UNCHANGED <<storage, clearing, buffered, wire, losses>>
    /\ \/ (~task[t].live \/ r = EmptyRecord) /\ Rejected(t) /\ UNCHANGED <<entry, flags, queue, flush>>
       \/ /\ task[t].live /\ Locked
          /\ IF Owns(t) THEN PutBack(r, raised) /\ Stored(t, m, k)
             ELSE Rejected(t) /\ UNCHANGED <<entry, flags, flush>>
          /\ UNCHANGED queue
       \/ /\ task[t].live /\ r # EmptyRecord
          /\ queue' = Append(queue, [task |-> t, rec |-> r, raised |-> raised])
          /\ Become(t, [IdleTask EXCEPT !.pc = "queued", !.key = k, !.msgs = m])
          /\ UNCHANGED <<entry, flags, flush, outbox>>

\* restore_session_from_checkout and cancel_session_checkout: rejected by the
\* recovery generation, decided under the lock, or queued when it is taken.
GiveBack(t, r, raised, m, k) ==
    /\ UNCHANGED <<storage, clearing, buffered, wire, losses>>
    /\ \/ ~task[t].live /\ Rejected(t) /\ UNCHANGED <<entry, flags, queue, flush>>
       \/ /\ task[t].live /\ Locked
          /\ IF Owns(t) THEN PutBack(r, raised) /\ Stored(t, m, k)
             ELSE Rejected(t) /\ UNCHANGED <<entry, flags, flush>>
          /\ UNCHANGED queue
       \/ /\ task[t].live
          /\ queue' = Append(queue, [task |-> t, rec |-> r, raised |-> raised])
          /\ Become(t, [IdleTask EXCEPT !.pc = "queued", !.key = k, !.msgs = m])
          /\ UNCHANGED <<entry, flags, flush, outbox>>

\* drain_session_restores
Drain ==
    /\ queue # <<>>
    /\ LET p == Head(queue)
           waiting == task[p.task].pc = "queued"
       IN  /\ IF Owns(p.task) THEN PutBack(p.rec, p.raised)
              ELSE UNCHANGED <<entry, flags, flush>>
           /\ IF waiting /\ Owns(p.task) THEN Stored(p.task, task[p.task].msgs, task[p.task].key)
              ELSE IF waiting THEN Rejected(p.task)
              ELSE UNCHANGED <<task, outbox>>
    /\ queue' = Tail(queue)
    /\ UNCHANGED <<storage, clearing, buffered, wire, history>>

\* A task that awaits its queued commit is cancelled: the commit stays queued.
Abandon(t) ==
    /\ task[t].pc = "queued"
    /\ Become(t, IdleTask)
    /\ UNCHANGED <<entry, flags, storage, queue, flush, clearing, buffered, messages, history>>

----------------------------------------------------------------------------
(* What a task does with the record it holds.                              *)

\* message_encrypt: no await stands between the chain's advance and the commit.
Encrypt(t) ==
    /\ task[t].pc = "holding"
    /\ CanEncrypt(task[t].rec)
    /\ LET r == task[t].rec
       IN  GiveBack(t, Encrypted(r), MustReserve(r, r.cur.idx), {<<r.cur.chain, r.cur.idx>>}, NoKey)
    /\ UNCHANGED <<origin, nextChain>>

\* A decrypt on the receiving side, a failed or rolled-back operation, or the
\* drop of a cancelled one; with no record, the cancelled empty checkout.
Return(t) ==
    /\ task[t].pc = "holding"
    /\ GiveBack(t, task[t].rec, FALSE, {}, NoKey)
    /\ UNCHANGED <<origin, nextChain>>

\* A bundle (NoKey), or a pre-key message that consumes pre-key k.
Establish(t, k) ==
    /\ task[t].pc = "holding"
    /\ nextChain <= MaxChains
    /\ GiveBack(t, Renewed(task[t].rec, nextChain), FALSE, {}, k)
    /\ origin' = [origin EXCEPT ![nextChain] = k]
    /\ nextChain' = nextChain + 1

\* remove_prekey: the caller buffers the removal once the session is in place.
\* A captured consumption of the same pre-key is no longer the current one.
RemovePrekey(t) ==
    /\ task[t].pc = "consuming"
    /\ buffered' = buffered \cup {task[t].key}
    /\ flush' = [flush EXCEPT !.keys = @ \ {task[t].key}]
    /\ Become(t, IdleTask)
    /\ UNCHANGED <<entry, flags, storage, queue, clearing, messages, history>>

\* delete_session
DeleteSession ==
    /\ Locked
    /\ entry' = Absent
    /\ deleted' = TRUE
    /\ dirty' = FALSE
    /\ KeepVersion(FALSE)
    /\ UNCHANGED <<gate, storage, queue, task, clearing, buffered, messages, history>>

----------------------------------------------------------------------------
(* flush_sessions, under the flush lock.                                   *)

Flushable == entry.kind = "Present" \/ (entry.kind = "Out" /\ entry.snap)

NoFlushLock == flush.pc = "idle" /\ clearing # "discarded"

\* Where a flush goes once the rows are written: the tombstones, if any were
\* captured, else the consumed pre-keys.
AfterWrite(f)  == IF f.del THEN "confirmed" ELSE "stored"
AfterDelete(f) == [f EXCEPT !.pc = "stored", !.del = FALSE]

\* Capture what is dirty, what is deleted and which pre-keys were consumed.
FlushCapture ==
    /\ Locked
    /\ NoFlushLock
    /\ LET f == [IdleFlush EXCEPT !.del = deleted, !.keys = buffered]
           batch == dirty /\ Flushable
       IN  /\ batch \/ deleted \/ buffered # {}
           /\ flush' = IF batch
                       THEN [f EXCEPT !.pc = "captured", !.snap = entry.rec, !.same = TRUE]
                       ELSE [f EXCEPT !.pc = AfterWrite(f)]
    /\ UNCHANGED <<entry, flags, storage, queue, task, clearing, buffered, messages, history>>

\* put_sessions_batch
FlushWrite ==
    /\ flush.pc = "captured"
    /\ row' = "own"
    /\ disk' = flush.snap
    /\ flush' = [flush EXCEPT !.pc = "written", !.snap = EmptyRecord]
    /\ UNCHANGED <<entry, flags, keys, queue, task, clearing, buffered, messages, history>>

\* mutant of FlushConfirm: whatever is cached now counts as written
FlushConfirmAny ==
    /\ Locked
    /\ flush.pc = "written"
    /\ dirty' = FALSE
    /\ gate' = FALSE
    /\ entry' = [entry EXCEPT !.snap = FALSE]
    /\ flush' = [flush EXCEPT !.pc = AfterWrite(flush), !.same = FALSE]
    /\ UNCHANGED <<deleted, storage, queue, task, clearing, buffered, messages, history>>

\* The flags go down only if the cache still holds the captured version.
FlushConfirm ==
    /\ Locked
    /\ flush.pc = "written"
    /\ dirty' = (dirty /\ ~flush.same)
    /\ gate' = (gate /\ ~flush.same)
    /\ entry' = [entry EXCEPT !.snap = @ /\ ~flush.same]
    /\ flush' = [flush EXCEPT !.pc = AfterWrite(flush), !.same = FALSE]
    /\ UNCHANGED <<deleted, storage, queue, task, clearing, buffered, messages, history>>

\* delete_sessions_batch
FlushDelete ==
    /\ flush.pc = "confirmed"
    /\ row' = "none"
    /\ disk' = EmptyRecord
    /\ flush' = [flush EXCEPT !.pc = "removed"]
    /\ UNCHANGED <<entry, flags, keys, queue, task, clearing, buffered, messages, history>>

\* mutant of FlushConfirmDelete: the tombstone does not settle the lease
FlushConfirmDeleteOnly ==
    /\ Locked
    /\ flush.pc = "removed"
    /\ deleted' = (deleted /\ entry.kind # "Absent")
    /\ flush' = AfterDelete(flush)
    /\ UNCHANGED <<entry, dirty, gate, storage, queue, task, clearing, buffered, messages, history>>

\* A tombstone settles the flags if nothing was stored over it meanwhile.
FlushConfirmDelete ==
    /\ Locked
    /\ flush.pc = "removed"
    /\ deleted' = (deleted /\ entry.kind # "Absent")
    /\ gate' = (gate /\ entry.kind # "Absent")
    /\ flush' = AfterDelete(flush)
    /\ UNCHANGED <<entry, dirty, storage, queue, task, clearing, buffered, messages, history>>

\* prekey_probe, for consumptions that are still the captured ones
Probe ==
    IF dirty \/ deleted \/ entry.kind = "Out" THEN "Deferred"
    ELSE IF entry.kind = "Present" THEN "Durable" ELSE "Needed"

\* The read-only probe.  Only this flush writes rows, so the row that is read
\* after the locks are released is the row of now.
FlushProbe ==
    /\ Locked
    /\ flush.pc = "stored"
    /\ flush' = IF flush.keys = {} THEN IdleFlush
                ELSE [flush EXCEPT !.pc = "probed",
                                   !.durable = \/ Probe = "Durable"
                                               \/ Probe = "Needed" /\ Decoded(row, disk) # EmptyRecord]
    /\ UNCHANGED <<entry, flags, storage, queue, task, clearing, buffered, messages, history>>

\* mutant of FlushPrekeys: trusts the first probe
FlushPrekeysUnchecked ==
    /\ Locked
    /\ flush.pc = "probed"
    /\ LET gone == IF flush.durable THEN flush.keys ELSE {}
       IN  /\ keys' = keys \ gone
           /\ buffered' = buffered \ gone
    /\ flush' = IdleFlush
    /\ UNCHANGED <<entry, flags, row, disk, queue, task, clearing, messages, history>>

\* The destructive phase, with both locks held through its I/O.
FlushPrekeys ==
    /\ Locked
    /\ flush.pc = "probed"
    /\ LET durable == Probe = "Durable" \/ (Probe = "Needed" /\ flush.durable)
           gone == IF durable THEN flush.keys ELSE {}
       IN  /\ keys' = keys \ gone
           /\ buffered' = buffered \ gone
    /\ flush' = IdleFlush
    /\ UNCHANGED <<entry, flags, row, disk, queue, task, clearing, messages, history>>

\* A backend call fails, or the flush is cancelled at one of its awaits.
FlushFail ==
    /\ flush.pc # "idle"
    /\ flush' = IdleFlush
    /\ UNCHANGED <<entry, flags, storage, queue, task, clearing, buffered, messages, history>>

----------------------------------------------------------------------------
(* Leaving the cache.                                                      *)

\* The entry is removed, and every cold read under way can tell.
Drop ==
    /\ entry' = Missing
    /\ task' = [t \in Tasks |-> [task[t] EXCEPT !.fresh = FALSE]]

\* evict_if_needed, whenever other addresses push the cache over its watermark
Evict ==
    /\ Locked
    /\ entry.kind \in {"Present", "Absent"}
    /\ ~dirty
    /\ ~deleted
    /\ Drop
    /\ UNCHANGED <<flags, storage, queue, flush, clearing, buffered, messages, history>>

\* clear_after_flush
ClearAfterFlush ==
    /\ Locked
    /\ NoFlushLock
    /\ ~dirty
    /\ ~deleted
    /\ ~gate
    /\ entry.kind \in {"Present", "Absent"} \/ (entry.kind = "Missing" /\ buffered # {})
    /\ IF entry.kind = "Missing" THEN UNCHANGED <<entry, task>> ELSE Drop
    /\ buffered' = {}
    /\ UNCHANGED <<flags, storage, queue, flush, clearing, messages, history>>

\* mutant of ClearStart: a caller that keeps its transport
ClearStartConnected ==
    /\ clearing = "no"
    /\ losses < MaxLosses
    /\ clearing' = "bumped"
    /\ task' = [t \in Tasks |-> [task[t] EXCEPT !.live = FALSE]]
    /\ UNCHANGED <<entry, flags, storage, queue, flush, buffered, messages, history>>

\* clear: the generation is raised before the flush lock is awaited, so that
\* no checkout of before can be given back.  Its callers removed the transport.
ClearStart ==
    /\ clearing = "no"
    /\ losses < MaxLosses
    /\ clearing' = "bumped"
    /\ task' = [t \in Tasks |-> [task[t] EXCEPT !.live = FALSE]]
    /\ outbox' = {}
    /\ UNCHANGED <<entry, flags, storage, queue, flush, buffered, wire, history>>

\* discard, under the sessions lock: the queue is emptied unseen, and the row
\* becomes one of an earlier incarnation, for a cold read under way as well.
ClearDiscard ==
    /\ clearing = "bumped"
    /\ flush.pc = "idle"
    /\ clearing' = "discarded"
    /\ entry' = Missing
    /\ dirty' = FALSE
    /\ deleted' = FALSE
    /\ gate' = FALSE
    /\ queue' = <<>>
    /\ row' = IF row = "own" THEN "foreign" ELSE row
    /\ task' = [t \in Tasks |->
                   IF task[t].pc = "queued" THEN IdleTask
                   ELSE [task[t] EXCEPT !.inc = FALSE, !.fresh = @ /\ entry.kind = "Missing",
                                        !.row = IF @ = "own" THEN "foreign" ELSE @]]
    /\ losses' = losses + 1
    /\ UNCHANGED <<disk, keys, flush, buffered, messages, origin, nextChain>>

ClearPrekeys ==
    /\ clearing = "discarded"
    /\ clearing' = "no"
    /\ buffered' = {}
    /\ UNCHANGED <<entry, flags, storage, queue, task, flush, messages, history>>

\* needs_pre_wire_flush answers no: the gate is down and nothing is queued.
Publish ==
    /\ outbox # {}
    /\ ~gate
    /\ Locked
    /\ clearing = "no"
    /\ wire' = wire \cup outbox
    /\ outbox' = {}
    /\ UNCHANGED <<entry, flags, storage, queue, task, flush, clearing, buffered, history>>

\* The process dies and another one starts, with a new incarnation.
Crash ==
    /\ losses < MaxLosses
    /\ losses' = losses + 1
    /\ entry' = Missing
    /\ dirty' = FALSE
    /\ deleted' = FALSE
    /\ gate' = FALSE
    /\ row' = IF row = "own" THEN "foreign" ELSE row
    /\ queue' = <<>>
    /\ task' = [t \in Tasks |-> IdleTask]
    /\ flush' = IdleFlush
    /\ clearing' = "no"
    /\ buffered' = {}
    /\ outbox' = {}
    /\ UNCHANGED <<disk, keys, wire, origin, nextChain>>

TaskStep(t) ==
    \/ Checkout(t)
    \/ ColdStart(t)
    \/ ColdFetch(t)
    \/ \E how \in {"checkout", "peek", "prefetch"} : ColdInstall(t, how)
    \/ ColdRaced(t)
    \/ \E how \in {"checkout", "peek"} : LockedRead(t, how)
    \/ Encrypt(t)
    \/ Return(t)
    \/ \E k \in keys \cup {NoKey} : Establish(t, k)
    \/ Abandon(t)
    \/ RemovePrekey(t)

FlushStep ==
    \/ FlushCapture
    \/ FlushWrite
    \/ FlushConfirm
    \/ FlushDelete
    \/ FlushConfirmDelete
    \/ FlushProbe
    \/ FlushPrekeys
    \/ FlushFail

Next ==
    \/ \E t \in Tasks : TaskStep(t)
    \/ FlushStep
    \/ Drain
    \/ DeleteSession
    \/ Evict
    \/ ClearAfterFlush
    \/ ClearStart
    \/ ClearDiscard
    \/ ClearPrekeys
    \/ Publish
    \/ Crash

Spec == Init /\ [][Next]_vars

----------------------------------------------------------------------------
\* What the address holds: the cached or checked-out record, or what a cold
\* read would find.
Value == IF entry.kind = "Missing" THEN Decoded(row, disk) ELSE entry.rec

Store == INSTANCE SessionStore WITH value <- Value, owner <- entry.owner

\* The cache implements a register with one owner at a time: a checkout hands
\* over exactly what the last commit left, a commit extends what its owner
\* checked out, a stale owner changes nothing, eviction, flushes and racing
\* cold reads are invisible, and only a crash or a clear goes back.
ImplementsSessionStore == Store!Spec

\* The next key of the record is new, neither on the wire nor waiting for it,
\* whenever nobody has the record out; and after a crash or a clear at this
\* moment the row would reload to a record whose next keys are not on the wire.
KeysUnused ==
    /\ entry.kind # "Out" => Unused(Value, outbox \cup wire)
    /\ Unused(Decoded(IF row = "own" THEN "foreign" ELSE row, disk), wire)

\* "a crash can never lose both and leave a redelivered pkmsg undecryptable":
\* once a consumed pre-key is destroyed, whatever session it established that
\* the address still holds is in the durable row as well.
PrekeyNeverOutruns ==
    LET chains(r) == {r.cur.chain} \cup {r.prev[i].chain : i \in 1 .. Len(r.prev)}
    IN  \A k \in PreKeys \ keys : \A c \in chains(Value) \ {NoChain} :
            origin[c] = k => row # "none" /\ c \in chains(disk)

\* A checked-out entry always has a way back: a holder that will be accepted,
\* a queued restore, or a clear that is about to discard it.  A cancelled task
\* never leaves the address busy for ever.
CheckoutReturns ==
    entry.kind = "Out" =>
        \/ task[entry.owner].pc = "holding" /\ task[entry.owner].live
        \/ \E i \in 1 .. Len(queue) : queue[i].task = entry.owner
        \/ clearing = "bumped"

\* reservation_pending is "always a subset of `dirty` + `deleted`, so eviction
\* can never drop a pending entry".
GateCovered == gate => dirty \/ deleted
----------------------------------------------------------------------------
(* The inductive invariant behind the refinement.                          *)

SlotInv ==
    /\ entry.kind = "Out" => entry.owner \in Tasks
    /\ entry.kind # "Out" => entry.owner = NoTask
    /\ entry.kind \in {"Missing", "Absent"} => entry.rec = EmptyRecord
    /\ dirty \/ deleted => entry.kind # "Missing"
    /\ ~(dirty /\ deleted)

\* An entry with nothing to flush is what a cold read would find.
CleanInv == entry.kind # "Missing" /\ ~dirty /\ ~deleted => entry.rec = Decoded(row, disk)

\* While a flush is about to change the row, something keeps the entry from
\* being evicted; the version that it captured is still in the cache only as
\* the record that it writes.
FlushInv ==
    /\ flush.pc \in {"captured", "confirmed", "removed"} => dirty \/ deleted
    /\ flush.pc \in {"captured", "written"} => ~flush.del
    /\ flush.pc = "written" => row = "own"
    /\ flush.pc = "removed" => row = "none"
    /\ flush.same =>
         /\ flush.pc \in {"captured", "written"}
         /\ dirty
         /\ entry.rec = IF flush.pc = "captured" THEN flush.snap ELSE disk

\* A cold read that was not told of a removal holds the row of now.
ColdInv ==
    \A t \in Tasks :
        task[t].pc = "fetched" /\ task[t].fresh /\ entry.kind = "Missing" =>
            task[t].row = row /\ task[t].rec = disk

\* The owner works on the record that the entry handed over, and so does what
\* it queued.
OwnerInv ==
    /\ \A t \in Tasks : task[t].pc = "holding" /\ task[t].live /\ Owns(t) =>
           task[t].rec = entry.rec
    /\ \A i \in 1 .. Len(queue) : Owns(queue[i].task) =>
           Extends(entry.rec, queue[i].rec)

\* Together they make every cold read, eviction, flush and stale commit
\* invisible.
StoreInv ==
    /\ TypeOK
    /\ SlotInv
    /\ CleanInv
    /\ FlushInv
    /\ ColdInv
    /\ OwnerInv
=============================================================================
