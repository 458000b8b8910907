---------------------------- MODULE IdentityCache ----------------------------
(***************************************************************************)
(* The identity half of wacore's SignalStoreCache for one address, with    *)
(* the journal of identity changes (IdentityContinuity) that it writes.  A *)
(* historical send takes a token from the journal when it starts and asks  *)
(* later whether the accounts it sends to are still the same ones.         *)
(*                                                                         *)
(* The journal has a lock of its own, so tokens are taken and changes of   *)
(* other accounts begin and end between any two steps here.  A removal     *)
(* stamp is kept as the answer of the comparison it is made for (`fresh`), *)
(* and so is the version that a flush captured (`same`).                   *)
(***************************************************************************)
EXTENDS Integers, Sequences

CONSTANTS
    Keys, Absent, Cold,   \* identity keys; no identity; no cache entry
    Users, Peer,          \* accounts, and the one whose address this is
    Fingerprint,          \* user_fingerprint, which may collide
    Aliases,              \* what other changes name: sequences of accounts
    CAPACITY,             \* IDENTITY_CHANGE_CAPACITY
    MAX_GENERATION        \* u64::MAX

ASSUME IdentityAssumption ==
    /\ Absent \notin Keys
    /\ Cold \notin Keys \cup {Absent}
    /\ Peer \in Users
    /\ Fingerprint \in [Users -> Nat]
    /\ CAPACITY \in Nat \ {0}
    /\ MAX_GENERATION \in Nat \ {0}
    /\ Aliases \subseteq Seq(Users)
    /\ \A a \in Aliases : Len(a) \in 1 .. CAPACITY

VARIABLES
    log,          \* IdentityChanges, without its count of changes under way
    entry,        \* the cached identity of the address, Absent or Cold
    dirty, deleted,
    row,          \* the stored identity
    read,         \* a cold get_identity
    flush,        \* a flush_identities
    writer,       \* a put or delete of the address, which holds the lock
    clearing,     \* clear: "no", "begun" or "cleared"
    other,        \* whether another change is under way
    sender        \* the token of a send, and what it stands for

cache == <<entry, dirty, deleted>>
vars  == <<log, cache, row, read, flush, writer, clearing, other, sender>>

Generation == 0 .. MAX_GENERATION
Identity   == Keys \cup {Absent}

\* The token None.  No token has this value.
None == MAX_GENERATION

Mark   == Generation \X Nat     \* when, and the fingerprint of whom
Log    == [generation : Generation, floor : Generation, since : Generation, users : Seq(Mark)]
Read   == [pc : {"idle", "cold", "fetched", "raced"}, value : Identity, fresh : BOOLEAN]
Flush  == [pc : {"idle", "captured", "written", "confirmed", "removed"},
           key : Identity, same : BOOLEAN, del : BOOLEAN]
Writer == [pc : {"idle", "put", "delete"}, key : Identity, guard : BOOLEAN]
\* `at` is the identity when the token was taken, or the first one saved since,
\* and `room` how much of the journal the changes since leave: none if one of
\* them has the peer's fingerprint or an unknown scope, or was under way then.
Sender == [token : Generation, at : Identity, room : 0 .. CAPACITY]

IdleRead   == [pc |-> "idle", value |-> Absent, fresh |-> FALSE]
IdleFlush  == [pc |-> "idle", key |-> Absent, same |-> FALSE, del |-> FALSE]
IdleWriter == [pc |-> "idle", key |-> Absent, guard |-> FALSE]

TypeOK ==
    /\ log \in Log
    /\ entry \in Identity \cup {Cold}
    /\ dirty \in BOOLEAN
    /\ deleted \in BOOLEAN
    /\ row \in Identity
    /\ read \in Read
    /\ flush \in Flush
    /\ writer \in Writer
    /\ clearing \in {"no", "begun", "cleared"}
    /\ other \in BOOLEAN
    /\ sender \in Sender

\* A journal starts empty, or is the `unavailable` one.
Init ==
    /\ log \in [generation : {0, MAX_GENERATION}, floor : {0}, since : {0}, users : {<<>>}]
    /\ entry = Cold
    /\ dirty = FALSE
    /\ deleted = FALSE
    /\ row \in Identity
    /\ read = IdleRead
    /\ flush = IdleFlush
    /\ writer = IdleWriter
    /\ clearing = "no"
    /\ other = FALSE
    /\ sender = [token |-> None, at |-> Absent, room |-> 0]

----------------------------------------------------------------------------
(* IdentityContinuity.                                                     *)

\* active # 0: some IdentityContinuityChange is held
Active == writer.guard \/ clearing # "no" \/ other

\* mutant of Token: a change under way is taken for done
TokenNow == log.generation

\* snapshot: a token from before the first change that is still under way
Token ==
    IF log.generation = MAX_GENERATION THEN None
    ELSE IF Active THEN log.since ELSE log.generation


\* unchanged_for: the recorded changes are read from the newest back to the
\* first one that the token is not older than.
UnchangedFor(token, user) ==
    /\ token # None
    /\ token >= log.floor
    /\ token <= log.generation
    /\ log.generation # MAX_GENERATION
    /\ \A i \in 1 .. Len(log.users) :
          (\A j \in i .. Len(log.users) : log.users[j][1] > token) =>
              log.users[i][2] # Fingerprint[user]

\* mutant of Pruned: the floor stays behind
PrunedUnfloored(j, all) ==
    LET over == Len(all) - CAPACITY
    IN  IF over <= 0 THEN [j EXCEPT !.users = all]
        ELSE [j EXCEPT !.users = SubSeq(all, over + 1, Len(all))]

\* Of all the recorded changes the last CAPACITY are kept, and the floor passes
\* what leaves the queue.
Pruned(j, all) ==
    LET over == Len(all) - CAPACITY
    IN  IF over <= 0 THEN [j EXCEPT !.users = all]
        ELSE [j EXCEPT !.floor = all[over][1] + 1, !.users = SubSeq(all, over + 1, Len(all))]

\* changing: the accounts of a change, none for an unknown scope
Changed(j, users) ==
    LET g == IF j.generation = MAX_GENERATION THEN MAX_GENERATION ELSE j.generation + 1
        k == [j EXCEPT !.generation = g, !.since = IF Active THEN @ ELSE j.generation]
    IN  IF g = MAX_GENERATION THEN k
        ELSE IF users = <<>> THEN [k EXCEPT !.floor = g, !.users = <<>>]
        ELSE Pruned(k, j.users \o [i \in 1 .. Len(users) |-> <<g, Fingerprint[users[i]]>>])

\* A change begins, and the token of the sender is older than it.
Change(users) ==
    /\ log' = Changed(log, users)
    /\ sender' = [sender EXCEPT !.room =
                    IF \/ users = <<>>
                       \/ \E i \in 1 .. Len(users) : Fingerprint[users[i]] = Fingerprint[Peer]
                       \/ Len(users) > @
                    THEN 0 ELSE @ - Len(users)]

\* What get_identity answers.
Effective == IF entry = Cold THEN row ELSE entry

TakeToken ==
    /\ sender' = [token |-> Token, at |-> Effective, room |-> IF Active THEN 0 ELSE CAPACITY]
    /\ UNCHANGED <<log, cache, row, read, flush, writer, clearing, other>>

\* A change of other accounts, held through its cleanup
OtherStart(users) ==
    /\ ~other
    /\ other' = TRUE
    /\ Change(users)
    /\ UNCHANGED <<cache, row, read, flush, writer, clearing>>

OtherEnd ==
    /\ other
    /\ other' = FALSE
    /\ UNCHANGED <<log, cache, row, read, flush, writer, clearing, sender>>

----------------------------------------------------------------------------
(* Reads.                                                                  *)

Free == writer.pc = "idle"      \* the identities lock

\* get_identity of an address that is not cached: note the removal stamp,
ReadStart ==
    /\ Free
    /\ read.pc \in {"idle", "raced"}
    /\ entry = Cold
    /\ read' = [IdleRead EXCEPT !.pc = "cold", !.fresh = TRUE]
    /\ UNCHANGED <<log, cache, row, flush, writer, clearing, other, sender>>

\* read the row with the lock released,
ReadFetch ==
    /\ read.pc = "cold"
    /\ read' = [read EXCEPT !.pc = "fetched", !.value = row]
    /\ UNCHANGED <<log, cache, row, flush, writer, clearing, other, sender>>

\* mutant of ReadInstall: an entry that is still missing was never there
ReadInstallUnstamped ==
    /\ Free
    /\ read.pc = "fetched"
    /\ entry = Cold
    /\ entry' = read.value
    /\ read' = IdleRead
    /\ UNCHANGED <<log, dirty, deleted, row, flush, writer, clearing, other, sender>>

\* and cache it, unless the entry was removed since.
ReadInstall ==
    /\ Free
    /\ read.pc = "fetched"
    /\ entry = Cold
    /\ read.fresh
    /\ entry' = read.value
    /\ read' = IdleRead
    /\ UNCHANGED <<log, dirty, deleted, row, flush, writer, clearing, other, sender>>

\* Refused (removed_since may also answer yes for the removal of another key),
\* or answered from an entry that appeared meanwhile.
ReadRaced ==
    /\ Free
    /\ read.pc = "fetched"
    /\ read' = IF entry = Cold THEN [IdleRead EXCEPT !.pc = "raced"] ELSE IdleRead
    /\ UNCHANGED <<log, cache, row, flush, writer, clearing, other, sender>>

\* After UNLOCKED_COLD_READ_ATTEMPTS the row is read under the lock, where no
\* flush has a row of this address to write.
ReadLocked ==
    /\ Free
    /\ read.pc = "raced"
    /\ entry' = IF entry = Cold THEN row ELSE entry
    /\ read' = IdleRead
    /\ UNCHANGED <<log, dirty, deleted, row, flush, writer, clearing, other, sender>>

----------------------------------------------------------------------------
(* Writes.  The journal has the change before the cache.                   *)

\* identity_write_change: a known first identity and the same one are no
\* change; a write over an entry that is not cached may be one.
WriteChanges(k) == entry \notin {Absent, k}

\* put_identity and try_put_identity
PutStart(k) ==
    /\ Free
    /\ writer' = [pc |-> "put", key |-> k, guard |-> WriteChanges(k)]
    /\ IF WriteChanges(k) THEN Change(<<Peer>>) ELSE UNCHANGED <<log, sender>>
    /\ UNCHANGED <<cache, row, read, flush, clearing, other>>

\* put_dedup
PutEnd ==
    /\ writer.pc = "put"
    /\ IF entry = writer.key THEN UNCHANGED <<cache, flush>>
       ELSE /\ entry' = writer.key
            /\ dirty' = TRUE
            /\ deleted' = FALSE
            /\ flush' = [flush EXCEPT !.same = FALSE]
    /\ writer' = IdleWriter
    /\ sender' = [sender EXCEPT !.at = IF @ = Absent THEN writer.key ELSE @]
    /\ UNCHANGED <<log, row, read, clearing, other>>

\* delete_identity
DeleteStart ==
    /\ Free
    /\ writer' = [pc |-> "delete", key |-> Absent, guard |-> TRUE]
    /\ Change(<<Peer>>)
    /\ UNCHANGED <<cache, row, read, flush, clearing, other>>

DeleteEnd ==
    /\ writer.pc = "delete"
    /\ entry' = Absent
    /\ deleted' = TRUE
    /\ dirty' = FALSE
    /\ flush' = [flush EXCEPT !.same = FALSE]
    /\ writer' = IdleWriter
    /\ UNCHANGED <<log, row, read, clearing, other, sender>>

----------------------------------------------------------------------------
(* flush_identities, under the flush lock.                                 *)

NoFlushLock == flush.pc = "idle" /\ clearing # "cleared"

AfterWrite(f) == IF f.del THEN [f EXCEPT !.pc = "confirmed"] ELSE IdleFlush

FlushCapture ==
    /\ Free
    /\ NoFlushLock
    /\ dirty \/ deleted
    /\ flush' = IF dirty THEN [pc |-> "captured", key |-> entry, same |-> TRUE, del |-> deleted]
                ELSE AfterWrite([IdleFlush EXCEPT !.del = deleted])
    /\ UNCHANGED <<log, cache, row, read, writer, clearing, other, sender>>

\* put_identities_batch
FlushWrite ==
    /\ flush.pc = "captured"
    /\ row' = flush.key
    /\ flush' = [flush EXCEPT !.pc = "written"]
    /\ UNCHANGED <<log, cache, read, writer, clearing, other, sender>>

\* The flag goes down only if the cache still holds the captured version.
FlushConfirm ==
    /\ Free
    /\ flush.pc = "written"
    /\ dirty' = (dirty /\ ~flush.same)
    /\ flush' = AfterWrite([flush EXCEPT !.same = FALSE])
    /\ UNCHANGED <<log, entry, deleted, row, read, writer, clearing, other, sender>>

\* delete_identities_batch
FlushDelete ==
    /\ flush.pc = "confirmed"
    /\ row' = Absent
    /\ flush' = [flush EXCEPT !.pc = "removed"]
    /\ UNCHANGED <<log, cache, read, writer, clearing, other, sender>>

FlushConfirmDelete ==
    /\ Free
    /\ flush.pc = "removed"
    /\ deleted' = (deleted /\ entry # Absent)
    /\ flush' = IdleFlush
    /\ UNCHANGED <<log, entry, dirty, row, read, writer, clearing, other, sender>>

\* The backend fails, or the flush is cancelled.
FlushFail ==
    /\ flush.pc # "idle"
    /\ flush' = IdleFlush
    /\ UNCHANGED <<log, cache, row, read, writer, clearing, other, sender>>

----------------------------------------------------------------------------
(* Leaving the cache.                                                      *)

\* A cold read under way can tell that the entry was removed.
Drop ==
    /\ entry' = Cold
    /\ read' = [read EXCEPT !.fresh = @ /\ entry = Cold]

\* evict_if_needed, whenever the cache is over its watermark
Evict ==
    /\ Free
    /\ entry # Cold
    /\ ~dirty
    /\ ~deleted
    /\ Drop
    /\ UNCHANGED <<log, dirty, deleted, row, flush, writer, clearing, other, sender>>

\* clear_after_flush
ClearAfterFlush ==
    /\ Free
    /\ NoFlushLock
    /\ ~dirty
    /\ ~deleted
    /\ Drop
    /\ UNCHANGED <<log, dirty, deleted, row, flush, writer, clearing, other, sender>>

\* clear: a change of unknown scope, held until the caches are empty.
ClearStart ==
    /\ clearing = "no"
    /\ clearing' = "begun"
    /\ Change(<<>>)
    /\ UNCHANGED <<cache, row, read, flush, writer, other>>

ClearIdentities ==
    /\ clearing = "begun"
    /\ flush.pc = "idle"
    /\ Free
    /\ clearing' = "cleared"
    /\ dirty' = FALSE
    /\ deleted' = FALSE
    /\ Drop
    /\ UNCHANGED <<log, row, flush, writer, other, sender>>

\* The end of clear, or its cancellation at one of its awaits
ClearEnd ==
    /\ clearing # "no"
    /\ clearing' = "no"
    /\ UNCHANGED <<log, cache, row, read, flush, writer, other, sender>>

Next ==
    \/ TakeToken
    \/ \E users \in Aliases : OtherStart(users)
    \/ OtherEnd
    \/ ReadStart
    \/ ReadFetch
    \/ ReadInstall
    \/ ReadRaced
    \/ ReadLocked
    \/ \E k \in Keys : PutStart(k)
    \/ PutEnd
    \/ DeleteStart
    \/ DeleteEnd
    \/ FlushCapture
    \/ FlushWrite
    \/ FlushConfirm
    \/ FlushDelete
    \/ FlushConfirmDelete
    \/ FlushFail
    \/ Evict
    \/ ClearAfterFlush
    \/ ClearStart
    \/ ClearIdentities
    \/ ClearEnd

Spec == Init /\ [][Next]_vars

----------------------------------------------------------------------------
\* A token that still vouches for the peer is right: the address has the
\* identity that it had when the token was taken, or the first one it got.
\* A send that started during a change, a clear or a cancelled cleanup "must
\* include that mutation in its later checks", and neither a stale cold read
\* nor the pruned journal hides one.
IdentityUnchanged ==
    UnchangedFor(sender.token, Peer) => sender.at \in {Absent, Effective}


\* Only a put, a delete and a clear change the identity of the address, and
\* they have a change in the journal meanwhile unless it is the first identity:
\* "caching a superseded identity key hides the peer's change from the next
\* comparison".
ChangesJournaled ==
    [][Effective' # Effective =>
          \/ writer.guard \/ clearing # "no"
          \/ writer.pc = "put" /\ Effective = Absent]_vars

----------------------------------------------------------------------------
(* The inductive invariant.                                                *)

\* The journal is in order, and nothing in it is of the future.
LogInv ==
    /\ log.floor <= log.generation
    /\ log.since <= log.generation
    /\ Len(log.users) <= CAPACITY
    /\ \A i \in 1 .. Len(log.users) :
          /\ log.users[i][1] <= log.generation
          /\ log.floor <= log.users[i][1] + 1
          /\ \A j \in i .. Len(log.users) : log.users[i][1] <= log.users[j][1]

\* The journal j refuses the token t for the peer.
Refused(j, t) ==
    \/ j.generation = MAX_GENERATION
    \/ t < j.floor
    \/ \E i \in 1 .. Len(j.users) : j.users[i][1] > t /\ j.users[i][2] = Fingerprint[Peer]

\* A change under way is one that no token in use, nor one taken now, misses;
\* and what changed the identity is refused for good.
TokenInv ==
    /\ sender.token <= log.generation \/ sender.token = None
    /\ writer.guard => Refused(log, log.since) /\ (Refused(log, sender.token) \/ sender.token = None)
    /\ clearing # "no" =>
         \/ log.generation = MAX_GENERATION
         \/ log.since < log.floor /\ (sender.token < log.floor \/ sender.token = None)
    /\ sender.at \notin {Absent, Effective} => Refused(log, sender.token) \/ sender.token = None

WriterInv ==
    /\ writer.pc = "put" => writer.key \in Keys /\ (writer.guard \/ entry \in {Absent, writer.key})
    /\ writer.pc = "delete" => writer.guard
    /\ writer.pc = "idle" => ~writer.guard

\* A clean entry is the row, and while a flush is about, the entry stays.
CacheInv ==
    /\ dirty => entry \in Keys
    /\ deleted => entry = Absent
    /\ entry # Cold => dirty \/ deleted \/ entry = row
    /\ flush.pc # "idle" => dirty \/ deleted
    /\ flush.pc = "captured" => flush.key \in Keys
    /\ flush.pc \in {"captured", "written"} => ~flush.del
    /\ flush.pc = "removed" => row = Absent
    /\ flush.same => /\ flush.pc \in {"captured", "written"}
                     /\ dirty /\ entry = flush.key
                     /\ flush.pc = "written" => row = flush.key
    /\ read.pc = "fetched" /\ read.fresh /\ entry = Cold => read.value = row

IdentityInv ==
    /\ TypeOK
    /\ LogInv
    /\ TokenInv
    /\ WriterInv
    /\ CacheInv
=============================================================================
