---------------------------- MODULE NoiseTransport ----------------------------
(***************************************************************************)
(* One direction of an established connection: a NoiseSession encodes      *)
(* frames, the transport delivers their bytes in order but cut into chunks *)
(* anywhere, and the decodeFrame of a NoiseSession at the other end        *)
(* (src/noise_session.rs over noise/src/framing.rs) takes them apart.      *)
(*                                                                         *)
(* Neither side sends its frame counter: it is the nonce of the AEAD, and  *)
(* a frame opens only under the counter it was sealed with.  A byte is its *)
(* value and, for the AEAD to recognise, the frame and position it is of.  *)
(***************************************************************************)
EXTENDS Integers, Sequences, FiniteSets, SequencesExt

CONSTANTS
    BASE,            \* values of a byte
    LENGTH_SIZE,     \* FRAME_LENGTH_SIZE
    COUNTER_MOD,     \* 2^32: the counters are u32 and wrap in a release build
    Sizes,           \* ciphertext lengths that occur
    MayNotDecode,    \* whether a frame may hold a node decode_node rejects
    MaxFrames,       \* bound on the frames
    MaxRefused       \* bound on the frames that are too long

ASSUME TransportAssumption ==
    /\ BASE \in Nat \ {0, 1}
    /\ LENGTH_SIZE \in Nat \ {0}
    /\ COUNTER_MOD \in Nat \ {0}
    /\ Sizes \subseteq Nat \ {0}
    /\ MayNotDecode \in BOOLEAN
    /\ MaxFrames \in Nat
    /\ MaxRefused \in Nat

VARIABLES
    wc,         \* write_counter of the encoding session
    frames,     \* the frames it put on the wire, in order
    refused,    \* how many more it encrypted and could not encode
    wire,       \* their bytes not yet fed to the decoding session
    buffer,     \* its FrameDecoder's buffer
    rc,         \* its read_counter
    got,        \* the frames it returned to the application
    lost,       \* frames it decoded in a call that then failed
    result      \* how the last decodeFrame ended: "ok", "decrypt" or "decode"

vars == <<wc, frames, refused, wire, buffer, rc, got, lost, result>>

FRAME_MAX_SIZE == BASE ^ LENGTH_SIZE
Byte  == [v : 0 .. BASE - 1, frame : 0 .. MaxFrames, pos : Nat]
Frame == [ctr : 0 .. COUNTER_MOD - 1, len : Sizes, good : BOOLEAN]

TypeOK ==
    /\ wc \in 0 .. COUNTER_MOD - 1 /\ rc \in 0 .. COUNTER_MOD - 1
    /\ frames \in Seq(Frame) /\ refused \in 0 .. MaxRefused
    /\ wire \in Seq(Byte) /\ buffer \in Seq(Byte)
    /\ got \in Seq(1 .. Len(frames)) /\ lost \subseteq 1 .. Len(frames)
    /\ result \in {"ok", "decrypt", "decode"}

Init ==
    /\ wc = 0 /\ rc = 0
    /\ frames = <<>> /\ refused = 0 /\ wire = <<>> /\ buffer = <<>>
    /\ got = <<>> /\ lost = {}
    /\ result = "ok"

----------------------------------------------------------------------------
\* append_frame_header_into: the length, most significant byte first.
LengthPrefix(len) ==
    [i \in 1 .. LENGTH_SIZE |->
        [v |-> (len \div BASE ^ (LENGTH_SIZE - i)) % BASE, frame |-> 0, pos |-> 0]]

\* The sealed frame; its bytes take any value.
Payload(n, len) ==
    [i \in 1 .. len |-> [v |-> (n + i) % BASE, frame |-> n, pos |-> i]]

\* encodeFrame, encodeFrameRaw
EncodeFrame(len, good) ==
    LET n == Len(frames) + 1
    IN  /\ n <= MaxFrames
        /\ len < FRAME_MAX_SIZE
        /\ wc' = (wc + 1) % COUNTER_MOD
        /\ frames' = Append(frames, [ctr |-> wc, len |-> len, good |-> good])
        /\ wire' = wire \o LengthPrefix(len) \o Payload(n, len)
        /\ UNCHANGED <<refused, buffer, rc, got, lost, result>>

\* The same with a frame that is too long: an error, after encrypt_vec has
\* spent the counter.
EncodeTooLong(len) ==
    /\ refused < MaxRefused
    /\ len >= FRAME_MAX_SIZE
    /\ refused' = refused + 1
    /\ wc' = (wc + 1) % COUNTER_MOD
    /\ UNCHANGED <<frames, wire, buffer, rc, got, lost, result>>

----------------------------------------------------------------------------
\* FrameDecoder::decode_frame
FrameLength(b) ==
    FoldLeft(LAMBDA acc, byte : acc * BASE + byte.v, 0, SubSeq(b, 1, LENGTH_SIZE))

HasFrame(b) == Len(b) >= LENGTH_SIZE /\ Len(b) >= LENGTH_SIZE + FrameLength(b)
FrameOf(b)  == SubSeq(b, LENGTH_SIZE + 1, LENGTH_SIZE + FrameLength(b))
RestOf(b)   == SubSeq(b, LENGTH_SIZE + FrameLength(b) + 1, Len(b))

\* The AEAD opens exactly the whole of a frame sealed under this counter.
Opens(data, n, counter) ==
    frames[n].ctr = counter /\ data = Payload(n, frames[n].len)

\* One turn of the loop in decodeFrame, on a call's buffer, counter, decoded
\* frames and result.  decrypt_vec spends the counter whatever comes of it.
TurnUnspent(call) ==                \* mutant of Turn: spent on success only
    LET data    == FrameOf(call.buffer)
        rest    == [call EXCEPT !.buffer = RestOf(@)]
        sources == {n \in DOMAIN frames : Opens(data, n, call.rc)}
        n       == CHOOSE k \in sources : TRUE
    IN  IF sources = {} THEN [rest EXCEPT !.result = "decrypt"]
        ELSE IF ~frames[n].good THEN [rest EXCEPT !.result = "decode"]
        ELSE [rest EXCEPT !.out = Append(@, n), !.rc = (@ + 1) % COUNTER_MOD]
TurnInFront(call) ==                \* mutant of Turn: the order is reversed
    LET data    == FrameOf(call.buffer)
        rest    == [call EXCEPT !.buffer = RestOf(@), !.rc = (@ + 1) % COUNTER_MOD]
        sources == {n \in DOMAIN frames : Opens(data, n, call.rc)}
        n       == CHOOSE k \in sources : TRUE
    IN  IF sources = {} THEN [rest EXCEPT !.result = "decrypt"]
        ELSE IF ~frames[n].good THEN [rest EXCEPT !.result = "decode"]
        ELSE [rest EXCEPT !.out = <<n>> \o @]
TurnUnwrapped(call) ==              \* mutant of Turn: a counter wider than its nonce
    LET data    == FrameOf(call.buffer)
        rest    == [call EXCEPT !.buffer = RestOf(@), !.rc = @ + 1]
        sources == {n \in DOMAIN frames : Opens(data, n, call.rc)}
        n       == CHOOSE k \in sources : TRUE
    IN  IF sources = {} THEN [rest EXCEPT !.result = "decrypt"]
        ELSE IF ~frames[n].good THEN [rest EXCEPT !.result = "decode"]
        ELSE [rest EXCEPT !.out = Append(@, n)]

Turn(call) ==
    LET data    == FrameOf(call.buffer)
        rest    == [call EXCEPT !.buffer = RestOf(@), !.rc = (@ + 1) % COUNTER_MOD]
        sources == {n \in DOMAIN frames : Opens(data, n, call.rc)}
        n       == CHOOSE k \in sources : TRUE
    IN  IF sources = {} THEN [rest EXCEPT !.result = "decrypt"]
        ELSE IF ~frames[n].good THEN [rest EXCEPT !.result = "decode"]
        ELSE [rest EXCEPT !.out = Append(@, n)]

\* The loop: it ends when no whole frame is buffered, or at the first error, so
\* after at most as many turns as frames were sent.
LoopOnce(call) == IF HasFrame(call.buffer) THEN Turn(call) ELSE call    \* mutant
Loop(call) ==
    LET goesOn(c) == c.result = "ok" /\ HasFrame(c.buffer)
    IN  FoldLeft(LAMBDA c, f : IF goesOn(c) THEN Turn(c) ELSE c, call, frames)

\* decodeFrame with the next k bytes: an error discards what this call had
\* decoded, and leaves the rest in the buffer.
DecodeFrame(k) ==
    /\ k \in 1 .. Len(wire)
    /\ wire' = SubSeq(wire, k + 1, Len(wire))
    /\ \E call \in {Loop([buffer |-> buffer \o SubSeq(wire, 1, k), rc |-> rc,
                          out |-> <<>>, result |-> "ok"])} :
          /\ buffer' = call.buffer
          /\ rc' = call.rc
          /\ result' = call.result
          /\ IF call.result = "ok"
             THEN got' = got \o call.out /\ UNCHANGED lost
             ELSE lost' = lost \cup ToSet(call.out) /\ UNCHANGED got
    /\ UNCHANGED <<wc, frames, refused>>

Next ==
    \/ \E len \in Sizes, good \in BOOLEAN :
          (good \/ MayNotDecode) /\ EncodeFrame(len, good)
    \/ \E len \in Sizes : EncodeTooLong(len)
    \/ \E k \in 1 .. Len(wire) : DecodeFrame(k)

\* The transport keeps delivering what was sent, and the application keeps
\* passing on what arrives: only DecodeFrame takes bytes off the wire.
Deliver == \E k \in 1 .. Len(wire) : wire' = SubSeq(wire, k + 1, Len(wire))

Spec == Init /\ [][Next]_vars /\ WF_wire(Deliver)

----------------------------------------------------------------------------
\* However the bytes are cut and whatever calls failed on a node they could not
\* decode, every frame taken out of the buffer opens: the two counters and the
\* frame boundaries stay in step (decrypt_vec, FrameDecoder::decode_frame),
\* unless a frame too long to encode spent a counter that no frame carries.
InStep == result = "decrypt" => refused > 0

\* The application gets the frames in the order they were encoded, each once,
\* and one is missing before another only if it was not decodable or was
\* decoded by a call that failed on a later frame (the ? in decode_frame).
InOrder ==
    /\ \A i, j \in DOMAIN got : i < j => got[i] < got[j]
    /\ \A n \in DOMAIN frames :
          (\E i \in DOMAIN got : n < got[i]) =>
              n \in ToSet(got) \/ n \in lost \/ ~frames[n].good

\* As long as every node decodes and no frame was too long, every encoded frame
\* reaches the application: decode_frame leaves no whole frame in the buffer.
Sound == refused = 0 /\ \A n \in DOMAIN frames : frames[n].good
EveryFrameArrives ==
    \A n \in 1 .. MaxFrames : Len(frames) >= n ~> n \in ToSet(got) \/ ~Sound

\* "nonce would be reused after 2^32 messages" (error.rs, CounterExhausted): a
\* connection never seals two frames under one counter.
NonceUsedOnce ==
    \A m, n \in DOMAIN frames : frames[m].ctr = frames[n].ctr => m = n
=============================================================================
