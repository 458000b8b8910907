----------------------------- MODULE GroupBridge -----------------------------
(***************************************************************************)
(* One group sender key between a sending and a receiving device, both     *)
(* behind the bridge: GroupSessionBuilder and GroupCipher objects over the *)
(* application's storage.  Every object has a JsStorageAdapter of its own, *)
(* with its own record cache; the objects of a device share one row.  A    *)
(* call is several steps, since it awaits the storage; an object refuses a *)
(* second call meanwhile.  A store may fail, with or without effect, and   *)
(* a device may restart between any two steps.  Distribution messages and  *)
(* ciphertexts may be lost, repeated and reordered.                        *)
(***************************************************************************)
EXTENDS SenderKeyRecord

CONSTANTS
    Slots,        \* the objects of a device that may be alive at once
    MaxChains     \* bound on the sender chains ever created

ASSUME GroupAssumption == MaxChains \in Nat

VARIABLES
    row,          \* the stored record of each device, NoRecord when there is none
    obj,          \* each device's objects
    net,          \* ciphertexts returned to the sending application
    skdms,        \* distribution messages returned to it
    opened,       \* messages a decrypt took the key of
    delivered,    \* those whose plaintext was returned
    nextChain     \* id of the next chain

vars == <<row, obj, net, skdms, opened, delivered, nextChain>>

Device == {"S", "R"}
Point  == [chain : 1 .. MaxChains, iter : Iteration]  \* a ciphertext or a distribution

\* A call is its operation and the message it is given, if any.
Nothing == [chain |-> 0, iter |-> 0]
Op      == [kind : {"none", "encrypt", "create", "process", "decrypt"},
            msg : Point \cup {Nothing}]
NoOp    == [kind |-> "none", msg |-> Nothing]
Gone    == [pc |-> "gone", class |-> "none", cache |-> NoRecord, op |-> NoOp]

\* A builder serves create and process, a cipher encrypt and decrypt.
Serves(class) == IF class = "builder" THEN {"create", "process"} ELSE {"encrypt", "decrypt"}

\* Records stay within what the code means to keep.
TypeOK ==
    /\ row \in [Device -> Record]
    /\ obj \in [Device -> [Slots -> [pc : {"gone", "idle", "loaded", "storing"},
                                     class : {"none", "builder", "cipher"}, cache : Record, op : Op]]]
    /\ net \subseteq Point /\ skdms \subseteq Point
    /\ delivered \subseteq opened /\ opened \subseteq net
    /\ nextChain \in 1 .. MaxChains + 1
    /\ \A d \in Device :
          /\ Len(row[d].states) <= MAX_SENDER_KEY_STATES
          /\ \A i \in DOMAIN row[d].states :
                Cardinality(row[d].states[i].skipped) <= MAX_MESSAGE_KEYS + PRUNE_THRESHOLD

Init ==
    /\ row = [d \in Device |-> NoRecord]
    /\ obj = [d \in Device |-> [s \in Slots |-> Gone]]
    /\ net = {} /\ skdms = {} /\ opened = {} /\ delivered = {}
    /\ nextChain = 1

----------------------------------------------------------------------------
SetObj(d, s, o) == obj' = [obj EXCEPT ![d][s] = o]

\* new GroupSessionBuilder, new GroupCipher
Open(d, s, class) ==
    /\ obj[d][s].pc = "gone"
    /\ SetObj(d, s, [Gone EXCEPT !.pc = "idle", !.class = class])
    /\ UNCHANGED <<row, net, skdms, opened, delivered, nextChain>>

\* The application drops the object.
Close(d, s) ==
    /\ obj[d][s].pc = "idle"
    /\ SetObj(d, s, Gone)
    /\ UNCHANGED <<row, net, skdms, opened, delivered, nextChain>>

\* A call up to the end of load_sender_key, which prefers the cache.
Call(d, s, kind, m) ==
    /\ obj[d][s].pc = "idle"
    /\ kind \in Serves(obj[d][s].class)
    /\ obj[d][s].cache # NoRecord \/ ~ReloadFails(row[d])
    /\ SetObj(d, s, [obj[d][s] EXCEPT
           !.pc    = "loaded",
           !.cache = IF @ # NoRecord THEN @ ELSE Reloaded(row[d]),
           !.op    = [kind |-> kind, msg |-> m]])
    /\ UNCHANGED <<row, net, skdms, opened, delivered, nextChain>>

Loaded(d, s, kind) == obj[d][s].pc = "loaded" /\ obj[d][s].op.kind = kind

\* store_sender_key up to its await: the cache takes the record first.
BeginStore(d, s, r, result) ==
    SetObj(d, s, [obj[d][s] EXCEPT !.pc = "storing", !.cache = r, !.op.msg = result])

Finish(d, s) == SetObj(d, s, [obj[d][s] EXCEPT !.pc = "idle", !.op = NoOp])

\* mutant of Encrypt: the ciphertext is returned before the store
EncryptUnawaited(s) ==
    LET r == obj["S"][s].cache
        m == [chain |-> r.states[1].chain, iter |-> r.states[1].iter]
    IN  /\ Loaded("S", s, "encrypt")
        /\ CanEncrypt(r)
        /\ BeginStore("S", s, Encrypted(r), m)
        /\ net' = net \cup {m}
        /\ UNCHANGED <<row, skdms, opened, delivered, nextChain>>

\* group_encrypt
Encrypt(s) ==
    LET r == obj["S"][s].cache
    IN  /\ Loaded("S", s, "encrypt")
        /\ CanEncrypt(r)
        /\ BeginStore("S", s, Encrypted(r),
                      [chain |-> r.states[1].chain, iter |-> r.states[1].iter])
        /\ UNCHANGED <<row, net, skdms, opened, delivered, nextChain>>

\* build_skdm_from_record
SkdmNext(r) ==                      \* mutant of Skdm: off by one
    [chain |-> r.states[1].chain, iter |-> SatAdd(r.states[1].iter, 1)]
Skdm(r) == [chain |-> r.states[1].chain, iter |-> r.states[1].iter]

\* create_sender_key_distribution_message: describe the record there is,
CreateFromRecord(s) ==
    LET r == obj["S"][s].cache
    IN  /\ Loaded("S", s, "create")
        /\ r # NoRecord
        /\ skdms' = skdms \cup {Skdm(r)}
        /\ Finish("S", s)
        /\ UNCHANGED <<row, net, opened, delivered, nextChain>>

\* or start a chain.
CreateNew(s) ==
    LET r == AddState(NoRecord, nextChain, 0)
    IN  /\ Loaded("S", s, "create")
        /\ obj["S"][s].cache = NoRecord
        /\ nextChain <= MaxChains
        /\ BeginStore("S", s, r, Skdm(r))
        /\ nextChain' = nextChain + 1
        /\ UNCHANGED <<row, net, skdms, opened, delivered>>

\* process_sender_key_distribution_message
Process(s) ==
    LET m == obj["R"][s].op.msg
    IN  /\ Loaded("R", s, "process")
        /\ BeginStore("R", s, AddState(obj["R"][s].cache, m.chain, m.iter), m)
        /\ UNCHANGED <<row, net, skdms, opened, delivered, nextChain>>

\* group_decrypt
Decrypt(s) ==
    LET r == obj["R"][s].cache
        m == obj["R"][s].op.msg
    IN  /\ Loaded("R", s, "decrypt")
        /\ DecryptVerdict(r, m) = "ok"
        /\ BeginStore("R", s, Decrypted(r, m), m)
        /\ opened' = opened \cup {m}
        /\ UNCHANGED <<row, net, skdms, delivered, nextChain>>

\* A call that ends in an error before it stores anything.
Refuse(d, s) ==
    LET o == obj[d][s]
    IN  /\ o.pc = "loaded"
        /\ \/ o.op.kind = "encrypt" /\ ~CanEncrypt(o.cache)
           \/ o.op.kind = "decrypt" /\ DecryptVerdict(o.cache, o.op.msg) # "ok"
        /\ Finish(d, s)
        /\ UNCHANGED <<row, net, skdms, opened, delivered, nextChain>>

\* The storage has the record and the call returns its result.
Stored(d, s) ==
    LET o == obj[d][s]
        yields(kind, set) == IF o.op.kind = kind THEN set \cup {o.op.msg} ELSE set
    IN  /\ o.pc = "storing"
        /\ row' = [row EXCEPT ![d] = o.cache]
        /\ Finish(d, s)
        /\ net' = yields("encrypt", net)
        /\ skdms' = yields("create", skdms)
        /\ delivered' = yields("decrypt", delivered)
        /\ UNCHANGED <<opened, nextChain>>

\* The storage rejects, having written the record or not.
StoreFailed(d, s) ==
    /\ obj[d][s].pc = "storing"
    /\ row' \in {row, [row EXCEPT ![d] = obj[d][s].cache]}
    /\ Finish(d, s)
    /\ UNCHANGED <<net, skdms, opened, delivered, nextChain>>

\* The process of a device restarts.
Restart(d) ==
    /\ obj' = [obj EXCEPT ![d] = [s \in Slots |-> Gone]]
    /\ UNCHANGED <<row, net, skdms, opened, delivered, nextChain>>

\* The sending application rotates its key: it deletes the row, with no
\* object alive that could have it cached.
Rotate ==
    /\ \A s \in Slots : obj["S"][s].pc = "gone"
    /\ row' = [row EXCEPT !["S"] = NoRecord]
    /\ UNCHANGED <<obj, net, skdms, opened, delivered, nextChain>>

Next ==
    \/ \E d \in Device, s \in Slots :
          \/ \E class \in {"builder", "cipher"} : Open(d, s, class)
          \/ Close(d, s)
          \/ Refuse(d, s) \/ Stored(d, s) \/ StoreFailed(d, s)
    \/ \E s \in Slots, kind \in {"encrypt", "create"} : Call("S", s, kind, Nothing)
    \/ \E s \in Slots, m \in skdms : Call("R", s, "process", m)
    \/ \E s \in Slots, m \in net : Call("R", s, "decrypt", m)
    \/ \E s \in Slots :
          Encrypt(s) \/ CreateFromRecord(s) \/ CreateNew(s) \/ Process(s) \/ Decrypt(s)
    \/ \E d \in Device : Restart(d)
    \/ Rotate

Spec == Init /\ [][Next]_vars

----------------------------------------------------------------------------
\* The records a later encrypt or decrypt of d may start from: the caches
\* of its ciphers, and the row as a new object would read it.
Views(d) ==
    {obj[d][s].cache : s \in {t \in Slots : obj[d][t].class = "cipher"}}
        \cup {Reloaded(row[d])}

Sending == {r.states[1] : r \in Views("S") \ {NoRecord}}

\* No call would encrypt under an iteration that a ciphertext the application
\* has was encrypted under, across failed stores, new objects and restarts:
\* "this iteration's (key, IV) must never be re-derivable" (group_cipher.rs).
IterationUnused ==
    \A st \in Sending : \A m \in net : m.chain = st.chain => m.iter < st.iter

\* A distribution message describes the key of every later encrypt: "Caller
\* must hold sender_key_lock [...] across this call and the matching encrypt so
\* both use the same key" (group_cipher.rs).  A later message below the
\* iteration it names could not be read by whoever joined with it.
SkdmCoversLater ==
    \A st \in Sending : \A d \in skdms : d.chain = st.chain => d.iter <= st.iter

\* The same promise, at the moment the distribution message is returned: its key
\* is the one that a cipher opened next finds in the storage.
SkdmKeyStored ==
    [][\A d \in skdms' \ skdms :
          row'["S"] # NoRecord /\ row'["S"].states[1].chain = d.chain]_vars

\* A plaintext is returned once: no call of the receiver would open the message
\* again, whatever distributions were repeated and whatever failed meanwhile.
DeliveredOnce ==
    \A r \in Views("R") : \A m \in delivered : DecryptVerdict(r, m) # "ok"


=============================================================================
