---------------------------- MODULE SessionLease ----------------------------
(***************************************************************************)
(* One session under a write-behind store: the record lives in memory, a   *)
(* flush copies it to durable storage in three steps (capture, backend     *)
(* write, confirmation), and a ciphertext may leave for the wire only      *)
(* while no raised lease is waiting for a flush.  The process may crash    *)
(* between any two steps.                                                  *)
(*                                                                         *)
(* The record operations are libsignal's (SessionRecord); the store side   *)
(* is the session store of wacore's SignalStoreCache, for one address.  An *)
(* encrypt or decrypt owns its record from checkout to put, so its effect  *)
(* on the record is one step, taken at the put.                            *)
(***************************************************************************)
EXTENDS SessionRecord, FiniteSets

CONSTANT MaxChains    \* bound on the sender chains ever created
ASSUME MaxChainsAssumption == MaxChains \in Nat

VARIABLES
    entry,       \* the cache slot: "Missing", "Absent" or "Present"
    mem,         \* its record, EmptyRecord unless Present
    dirty,       \* mem differs from what a flush confirmed
    gate,        \* a raised lease has not reached the backend
    row,         \* the durable row: "none", "foreign" (written by an earlier
                 \* incarnation of the store) or "own"
    disk,        \* its record, EmptyRecord when there is none
    flush,       \* the flush in progress: "idle", "captured" or "written"
    snap,        \* the record it captured
    unchanged,   \* mem is still the very record it captured
    outbox,      \* ciphertexts produced and not yet sent: <<chain, counter>>
    wire,        \* ciphertexts sent
    nextChain    \* identity of the next fresh chain

vars == <<entry, mem, dirty, gate, row, disk, flush, snap, unchanged,
          outbox, wire, nextChain>>

storeVars == <<row, disk, flush, snap>>

TypeOK ==
    /\ entry \in {"Missing", "Absent", "Present"}
    /\ mem \in Record
    /\ dirty \in BOOLEAN
    /\ gate \in BOOLEAN
    /\ row \in {"none", "foreign", "own"}
    /\ disk \in Record
    /\ flush \in {"idle", "captured", "written"}
    /\ snap \in Record
    /\ unchanged \in BOOLEAN
    /\ outbox \subseteq Nat \X Counter
    /\ wire \subseteq Nat \X Counter
    /\ nextChain \in Nat \ {0}

Init ==
    /\ entry = "Missing"
    /\ mem = EmptyRecord
    /\ dirty = FALSE
    /\ gate = FALSE
    /\ row = "none"
    /\ disk = EmptyRecord
    /\ flush = "idle"
    /\ snap = EmptyRecord
    /\ unchanged = FALSE
    /\ outbox = {}
    /\ wire = {}
    /\ nextChain = 1

----------------------------------------------------------------------------
\* put_with_key: the record becomes a new version, dirty, and its pending
\* flag (raised) is taken over by the gate.
Put(r, raised) ==
    /\ entry' = "Present"
    /\ mem' = r
    /\ dirty' = TRUE
    /\ gate' = (gate \/ raised)
    /\ unchanged' = FALSE
    /\ UNCHANGED storeVars

NewChain ==
    /\ nextChain <= MaxChains
    /\ nextChain' = nextChain + 1

\* message_encrypt
Encrypt ==
    /\ entry = "Present"
    /\ CanEncrypt(mem)
    /\ Put(Encrypted(mem), MustReserve(mem, mem.cur.idx))
    /\ outbox' = outbox \cup {<<mem.cur.chain, mem.cur.idx>>}
    /\ UNCHANGED <<wire, nextChain>>

\* A decrypt through the current state that takes a DH ratchet step.
DecryptRatchet ==
    /\ entry = "Present"
    /\ HasChain(mem.cur)
    /\ NewChain
    /\ Put(Ratcheted(mem, nextChain), FALSE)
    /\ UNCHANGED <<outbox, wire>>

\* A decrypt through an archived state: without a ratchet step the state is
\* promoted under the lease, with one it is promoted as a fresh state.
DecryptArchived(i) ==
    /\ entry = "Present"
    /\ LET taken == [mem EXCEPT !.prev = Without(@, i)]
           st    == mem.prev[i]
       IN  \/ /\ Put(PromoteState(taken, st), FALSE)
              /\ UNCHANGED nextChain
           \/ /\ HasChain(st)
              /\ NewChain
              /\ Put(PromoteFreshState(taken, FreshState(nextChain)), FALSE)
    /\ UNCHANGED <<outbox, wire>>

\* A pre-key message of an archived session that takes a ratchet step:
\* promote_matching_session first, then a decrypt through the current state.
PreKeyArchivedRatchet(i) ==
    /\ entry = "Present"
    /\ LET r == PromoteState([mem EXCEPT !.prev = Without(@, i)], mem.prev[i])
       IN  /\ HasChain(r.cur)
           /\ NewChain
           /\ Put(Ratcheted(r, nextChain), FALSE)
    /\ UNCHANGED <<outbox, wire>>

\* A pre-key bundle, or a pre-key message that matches no state: a new
\* session becomes current, in a new record when there was none.
NewSession ==
    /\ entry \in {"Present", "Absent"}
    /\ NewChain
    /\ Put(IF entry = "Present"
           THEN PromoteFreshState(mem, FreshState(nextChain))
           ELSE [EmptyRecord EXCEPT !.cur = FreshState(nextChain)], FALSE)
    /\ UNCHANGED <<outbox, wire>>

----------------------------------------------------------------------------
\* flush_sessions, under the flush lock: capture the dirty record,
FlushCapture ==
    /\ flush = "idle"
    /\ dirty
    /\ flush' = "captured"
    /\ snap' = mem
    /\ unchanged' = TRUE
    /\ UNCHANGED <<entry, mem, dirty, gate, row, disk, outbox, wire, nextChain>>

\* write it with the store locks released,
FlushWrite ==
    /\ flush = "captured"
    /\ flush' = "written"
    /\ row' = "own"
    /\ disk' = snap
    /\ UNCHANGED <<entry, mem, dirty, gate, snap, unchanged, outbox, wire, nextChain>>

\* (or fail to)
FlushFail ==
    /\ flush = "captured"
    /\ flush' = "idle"
    /\ snap' = EmptyRecord
    /\ unchanged' = FALSE
    /\ UNCHANGED <<entry, mem, dirty, gate, row, disk, outbox, wire, nextChain>>

\* mutant of FlushConfirm: forgets that the record moved on meanwhile
FlushConfirmAnyVersion ==
    /\ flush = "written"
    /\ flush' = "idle"
    /\ dirty' = FALSE
    /\ gate' = FALSE
    /\ snap' = EmptyRecord
    /\ unchanged' = FALSE
    /\ UNCHANGED <<entry, mem, row, disk, outbox, wire, nextChain>>

\* and lower the flags if the cache still holds that very record.
FlushConfirm ==
    /\ flush = "written"
    /\ flush' = "idle"
    /\ dirty' = (dirty /\ ~unchanged)
    /\ gate' = (gate /\ ~unchanged)
    /\ snap' = EmptyRecord
    /\ unchanged' = FALSE
    /\ UNCHANGED <<entry, mem, row, disk, outbox, wire, nextChain>>

----------------------------------------------------------------------------
\* evict_if_needed, clear_after_flush: only an entry with nothing to flush.
Evict ==
    /\ entry # "Missing"
    /\ ~dirty
    /\ entry' = "Missing"
    /\ mem' = EmptyRecord
    /\ UNCHANGED <<dirty, gate, row, disk, flush, snap, unchanged, outbox, wire, nextChain>>

\* A cold read.  A row this build refuses is treated as absent.
Load ==
    /\ entry = "Missing"
    /\ LET usable == row # "none" /\ ~(row = "foreign" /\ ReloadFails(disk))
       IN  /\ entry' = IF usable THEN "Present" ELSE "Absent"
           /\ mem' = IF ~usable THEN EmptyRecord
                     ELSE IF row = "own" THEN disk ELSE Reloaded(disk)
    /\ UNCHANGED <<dirty, gate, row, disk, flush, snap, unchanged, outbox, wire, nextChain>>

\* needs_pre_wire_flush answers no: everything produced may be sent.
Publish ==
    /\ outbox # {}
    /\ ~gate
    /\ wire' = wire \cup outbox
    /\ outbox' = {}
    /\ UNCHANGED <<entry, mem, dirty, gate, row, disk, flush, snap, unchanged, nextChain>>

\* The process dies: memory and unsent ciphertexts are gone, and the next
\* process draws a new incarnation, so the row is no longer its own.
Crash ==
    /\ entry' = "Missing"
    /\ mem' = EmptyRecord
    /\ dirty' = FALSE
    /\ gate' = FALSE
    /\ row' = IF row = "own" THEN "foreign" ELSE row
    /\ flush' = "idle"
    /\ snap' = EmptyRecord
    /\ unchanged' = FALSE
    /\ outbox' = {}
    /\ UNCHANGED <<disk, wire, nextChain>>

Next ==
    \/ Encrypt
    \/ DecryptRatchet
    \/ \E i \in 1 .. Len(mem.prev) : DecryptArchived(i)
    \/ \E i \in 1 .. Len(mem.prev) : PreKeyArchivedRatchet(i)
    \/ NewSession
    \/ FlushCapture
    \/ FlushWrite
    \/ FlushFail
    \/ FlushConfirm
    \/ Evict
    \/ Load
    \/ Publish
    \/ Crash

Spec == Init /\ [][Next]_vars

----------------------------------------------------------------------------
\* The message key that the next encrypt derives, in the current state or in
\* any state a decrypt may promote, has encrypted nothing yet: neither a
\* ciphertext on the wire nor one waiting for it.  "An outbound counter must
\* never repeat across a crash" (consts.rs).
NextKeyUnused ==
    LET unused(st) == <<st.chain, st.idx>> \notin outbox \cup wire
    IN  entry = "Present" =>
            unused(mem.cur) /\ \A i \in 1 .. Len(mem.prev) : unused(mem.prev[i])

\* After a crash at this very moment, the row on disk reloads to a record
\* whose every reachable next key is unused by what is on the wire.
CrashSafe ==
    LET r == Reloaded(disk)
        unused(st) == <<st.chain, st.idx>> \notin wire
    IN  row # "none" /\ ~ReloadFails(disk) =>
            unused(r.cur) /\ \A i \in 1 .. Len(r.prev) : unused(r.prev[i])

\* A recovery reload never refuses the row: the lease stays within one batch
\* of the live index however the chains were replaced, so no session is
\* stranded (rebase_lease_after_sender_chain_reset).
ReloadAccepts == row # "none" => ~ReloadFails(disk)
----------------------------------------------------------------------------
(* The inductive invariant behind the three properties above.              *)
Sent == outbox \cup wire

\* What mem may still send under its lease is covered by the snapshot d.
LeaseWithin(d) ==
    HasChain(mem.cur) /\ mem.cur.idx < mem.ceil =>
        /\ mem.cur.chain = d.cur.chain => mem.ceil <= d.cur.idx \/ mem.ceil <= d.ceil
        /\ \A i \in 1 .. Len(d.prev) :
               mem.cur.chain = d.prev[i].chain => mem.ceil <= d.prev[i].idx

SlotInv ==
    /\ entry # "Present" => mem = EmptyRecord /\ ~dirty
    /\ entry = "Absent" => row # "own"
    /\ entry = "Present" /\ ~dirty /\ row = "own" => mem = disk
    /\ entry = "Missing" /\ row = "own" => Exact(disk, Sent)
    /\ gate \/ flush # "idle" => dirty
    /\ unchanged => flush # "idle" /\ mem = snap
    /\ flush = "written" => row = "own" /\ disk = snap

ChainInv ==
    /\ \A m \in Sent : m[1] # NoChain /\ m[1] < nextChain
    /\ WellFormed(mem, nextChain)
    /\ WellFormed(disk, nextChain)
    /\ WellFormed(snap, nextChain)

DiskInv ==
    /\ \A m \in wire : Covers(disk, m)
    /\ ~gate => (\A m \in outbox : Covers(disk, m)) /\ LeaseWithin(disk)

SnapInv ==
    flush = "captured" =>
        /\ \A m \in wire : Covers(snap, m)
        /\ unchanged \/ ~gate => (\A m \in outbox : Covers(snap, m)) /\ LeaseWithin(snap)

\* The durable row, and the snapshot about to replace it, account for every
\* ciphertext that is on the wire or may go there before the next
\* confirmation, and memory accounts exactly for all of them.
LeaseInv ==
    /\ TypeOK
    /\ SlotInv
    /\ ChainInv
    /\ Exact(mem, Sent)
    /\ DiskInv
    /\ SnapInv
=============================================================================
