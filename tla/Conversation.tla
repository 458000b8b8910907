---------------------------- MODULE Conversation ----------------------------
(***************************************************************************)
(* Two devices exchanging messages through SessionBuilder and              *)
(* SessionCipher over a network that loses, repeats and reorders.  Either  *)
(* may process a pre-key bundle of the other at any time, also when a      *)
(* session exists and also both at once.  A ciphertext stays deliverable   *)
(* for ever; one that is lost is one that is never delivered, and so is a  *)
(* counter that a lease burned.  A decrypt that fails changes nothing, so  *)
(* only the successful ones are steps.                                     *)
(***************************************************************************)
EXTENDS RatchetState

CONSTANTS
    Bundles,         \* kinds of bundles: "otp" with a one-time pre-key, "plain"
    RemovalFails,    \* whether removing a used one-time pre-key may fail
    MaxKeys,         \* bound on the key pairs ever generated
    MaxSessions,     \* bound on the bundles processed
    MaxCounter       \* bound on the messages of one chain

ASSUME ConversationAssumption ==
    /\ Bundles \subseteq {"otp", "plain"}
    /\ RemovalFails \in BOOLEAN
    /\ MaxKeys \in Nat
    /\ MaxSessions \in Nat
    /\ MaxCounter \in Nat

VARIABLES
    rec,          \* the session record each device keeps for the other
    net,          \* every ciphertext ever produced
    opened,       \* those that a decrypt opened
    delivered,    \* those whose plaintext reached the application
    gone,         \* one-time pre-keys removed from storage, by base key
    sessions,     \* bundles processed so far
    nextKey       \* the next key pair to be generated

vars == <<rec, net, opened, delivered, gone, sessions, nextKey>>

Party == {"A", "B"}
Other(p) == IF p = "A" THEN "B" ELSE "A"

\* The signed pre-key of each device.
SignedPreKey(p) == IF p = "A" THEN 1 ELSE 2

Key   == 1 .. MaxKeys + 2
Chain == Seq(SUBSET Key)
State ==
    [base : Key, root : Chain, eph : Key, chain : Chain, idx : 0 .. MaxCounter,
     recv : Seq([eph : Key, chain : Chain, idx : 0 .. MaxCounter,
                 skipped : SUBSET (0 .. MaxCounter)]),
     pending : {"none", "otp", "plain"}]
Message ==
    [from : Party, pre : {"none", "otp", "plain"}, base : Key \cup {0},
     eph : Key, ctr : 0 .. MaxCounter, chain : Chain]

\* Skipped keys and chains stay within what the code means to keep.
TypeOK ==
    /\ \A p \in Party :
          /\ rec[p] \in Seq(State)
          /\ Len(rec[p]) <= ARCHIVED_MAX + 1
          /\ \A i \in DOMAIN rec[p] :
                /\ Len(rec[p][i].recv) <= MAX_RECEIVER_CHAINS
                /\ \A j \in DOMAIN rec[p][i].recv :
                      Cardinality(rec[p][i].recv[j].skipped)
                          <= MAX_MESSAGE_KEYS + PRUNE_THRESHOLD + 1
    /\ net \subseteq Message
    /\ delivered \subseteq opened /\ opened \subseteq net
    /\ gone \subseteq Key
    /\ sessions \in 0 .. MaxSessions
    /\ nextKey \in 3 .. MaxKeys + 3

Init ==
    /\ rec = [p \in Party |-> <<>>]
    /\ net = {}
    /\ opened = {}
    /\ delivered = {}
    /\ gone = {}
    /\ sessions = 0
    /\ nextKey = 3

----------------------------------------------------------------------------
\* SessionBuilder.processPreKeyBundle with a bundle of the other device.
Initiate(p, kind) ==
    /\ sessions < MaxSessions
    /\ nextKey + 1 <= MaxKeys + 2
    /\ LET st == AliceSession(nextKey, nextKey + 1, SignedPreKey(Other(p)), kind)
       IN  rec' = [rec EXCEPT ![p] = Promote(@, st)]
    /\ sessions' = sessions + 1
    /\ nextKey' = nextKey + 2
    /\ UNCHANGED <<net, opened, delivered, gone>>

\* SessionCipher.encrypt: a pre-key message until the session is acknowledged.
Encrypt(p) ==
    /\ rec[p] # <<>>
    /\ rec[p][1].idx < MaxCounter
    /\ LET st == rec[p][1]
       IN  net' = net \cup
               {[from |-> p, pre |-> st.pending,
                 base |-> IF st.pending = "none" THEN 0 ELSE st.base,
                 eph |-> st.eph, ctr |-> st.idx, chain |-> st.chain]}
    /\ rec' = [rec EXCEPT ![p][1].idx = @ + 1]
    /\ UNCHANGED <<opened, delivered, gone, sessions, nextKey>>

\* A decrypt draws a key pair exactly when it takes a ratchet step, that is
\* when the current state ends up sending on another ratchet key of its own.
Install(p, after, m) ==
    /\ rec' = [rec EXCEPT ![p] = after]
    /\ opened' = opened \cup {m}
    /\ nextKey' = IF after[1].eph = nextKey THEN nextKey + 1 ELSE nextKey
    /\ nextKey' <= MaxKeys + 3
    /\ UNCHANGED <<net, sessions>>

\* SessionCipher.decryptWhisperMessage
DecryptWhisper(m) ==
    LET p == Other(m.from)
    IN  /\ m.pre = "none"
        /\ WhisperVerdict(rec[p], m) = "ok"
        /\ Install(p, AfterWhisper(rec[p], m, nextKey), m)
        /\ delivered' = delivered \cup {m}
        /\ UNCHANGED gone

\* SessionCipher.decryptPreKeyWhisperMessage: when the decrypt used a one-time
\* pre-key it is removed before the plaintext is returned; if that fails the
\* session stays and the plaintext is lost.
DecryptPreKey(m) ==
    LET p    == Other(m.from)
        used == m.pre = "otp" /\ Matching(rec[p], m) = {}
    IN  /\ m.pre # "none"
        /\ PreKeyVerdict(rec[p], m, SignedPreKey(p), gone) = "ok"
        /\ Install(p, AfterPreKey(rec[p], m, SignedPreKey(p), nextKey), m)
        /\ \/ /\ delivered' = delivered \cup {m}
              /\ gone' = IF used THEN gone \cup {m.base} ELSE gone
           \/ /\ used /\ RemovalFails
              /\ UNCHANGED <<delivered, gone>>

Next ==
    \/ \E p \in Party, kind \in Bundles : Initiate(p, kind)
    \/ \E p \in Party : Encrypt(p)
    \/ \E m \in net : DecryptWhisper(m)
    \/ \E m \in net : DecryptPreKey(m)

Spec == Init /\ [][Next]_vars

----------------------------------------------------------------------------
\* What the recipient would answer if m arrived now.
Verdict(m) ==
    LET p == Other(m.from)
    IN  IF m.pre = "none" THEN WhisperVerdict(rec[p], m)
        ELSE PreKeyVerdict(rec[p], m, SignedPreKey(p), gone)

\* A message whose plaintext the application has is refused when it arrives
\* again, whichever sessions were built, archived and promoted meanwhile.
DeliveredOnce == \A m \in delivered : Verdict(m) # "ok"

\* The same when sessions, chains and keys are evicted, except for the messages
\* that open a session without a one-time pre-key: once that session is evicted
\* nothing tells them from new ones, while a pre-key that was used and removed
\* does (get_pre_key in process_prekey_impl).
DeliveredOnceEvicting ==
    \A m \in delivered : m.pre # "plain" => Verdict(m) # "ok"

\* While nothing is evicted (sessions, receiver chains, skipped keys) and no
\* jump is too long, every message not yet opened still can be, in whatever
\* order the network chooses.
AlwaysDeliverable == \A m \in net \ opened : Verdict(m) = "ok"

\* "A state that recognized the exact chain and an already-consumed counter is
\* definitive evidence of a replay" (session_cipher.rs): a message reported as
\* a duplicate was processed before.
DuplicateIsReplay == \A m \in net : Verdict(m) = "duplicate" => m \in opened

\* No state of a record, current or archived, would send under a message key
\* already used, although a responder's first chain is fixed by the message
\* that opens the session: "Fresh random ratchet: no counter on this chain can
\* have been spent" (session.rs) is what promote_fresh_state relies on.
SendKeyUnused ==
    \A p \in Party : \A i \in DOMAIN rec[p] : \A m \in net :
        m.from = p /\ m.chain = rec[p][i].chain => m.ctr < rec[p][i].idx
=============================================================================
