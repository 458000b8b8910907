----------------------------- MODULE NoiseState -----------------------------
(***************************************************************************)
(* The symmetric state of a Noise handshake (noise/src/state.rs and the    *)
(* NoiseHandshake that wraps it) and the handshake steps that both ends    *)
(* compute with it, as operators.                                          *)
(*                                                                         *)
(* Cryptography is symbolic.  A key pair is its name, and an agreement the *)
(* set of the two names.  The running hash is the sequence of what was     *)
(* hashed, the chaining key the sequence of what was mixed in.             *)
(***************************************************************************)
EXTENDS Integers, Sequences

\* NoiseState::new; the prologue is the same for everybody.
New(pattern) == [name |-> pattern, hash |-> <<>>, mixed |-> <<>>, counter |-> 0]

Authenticate(n, data) == [n EXCEPT !.hash = Append(@, data)]

\* mix_shared_secret, mix_key
MixKey(n, a, b) == [n EXCEPT !.mixed = Append(@, {a, b}), !.counter = 0]

CipherKey(n) == <<n.name, n.mixed>>

Seal(n, plain) == [key |-> CipherKey(n), ctr |-> n.counter, aad |-> n.hash, plain |-> plain]

Verifies(n, c) == c.key = CipherKey(n) /\ c.ctr = n.counter /\ c.aad = n.hash

\* In the hash a ciphertext needs no aad: that is the hash before it.
Absorb(n, c) == Authenticate(n, <<c.key, c.ctr, c.plain>>)

PassKeepingCounter(n, c) == Absorb(n, c)    \* mutant of Pass
\* encrypt or decrypt c: post_increment_counter, and the ciphertext is hashed.
Pass(n, c) == Absorb([n EXCEPT !.counter = @ + 1], c)

\* decrypt of what does not open: only the counter has moved.
PassFailed(n) == [n EXCEPT !.counter = @ + 1]

SplitAsResponder(n) == [write |-> <<CipherKey(n), 2>>, read |-> <<CipherKey(n), 1>>]   \* mutant
\* finish, split: the keys that follow the last, of the end that sent the hello
Split(n) == [write |-> <<CipherKey(n), 1>>, read |-> <<CipherKey(n), 2>>]

----------------------------------------------------------------------------
(* The two ends of XX and XXfallback, once the client's ephemeral ce is in *)
(* the hash: <- e, ee, s, es; -> s, se.                                    *)

\* What the client has read of a server hello, and whether all of it opened:
\* processHandshakeInit, the first half of process_xx_server_hello_into.
ReadXxHello(n, ce, hello) ==
    LET ee   == MixKey(Authenticate(n, hello.e), ce, hello.e)
        es   == MixKey(Pass(ee, hello.s), ce, hello.s.plain)
    IN  IF ~Verifies(ee, hello.s)            THEN [ok |-> FALSE, noise |-> PassFailed(ee)]
        ELSE IF ~Verifies(es, hello.payload) THEN [ok |-> FALSE, noise |-> PassFailed(es)]
        ELSE [ok |-> TRUE, noise |-> Pass(es, hello.payload)]

\* The client's answer, in the two parts that a NoiseSession is called for:
\* its static key, by processHandshakeFinish, and its payload.
WriteStatic(n, cs, se) ==
    LET s == Seal(n, cs) IN [noise |-> MixKey(Pass(n, s), cs, se), seal |-> s]
WritePayload(n, payload) ==
    LET p == Seal(n, payload) IN [noise |-> Pass(n, p), seal |-> p]

\* The responder of the crate's tests: xx_serve_ext, ik_serve_force_fallback.
ServeXx(pattern, ce, se, ss, cert) ==
    LET ee == MixKey(Authenticate(Authenticate(New(pattern), ce), se), se, ce)
        s  == Seal(ee, ss)
        es == MixKey(Pass(ee, s), ss, ce)
        p  == Seal(es, cert)
    IN  [noise |-> Pass(es, p), msg |-> [e |-> se, s |-> s, payload |-> p]]

\* xx_finish_ext: the server's state afterwards, and whether the finish opened.
ReadXxFinish(n, se, finish) ==
    LET mix == MixKey(Pass(n, finish.s), se, finish.s.plain)
    IN  [ok |-> Verifies(n, finish.s) /\ Verifies(mix, finish.payload),
         noise |-> Pass(mix, finish.payload)]

----------------------------------------------------------------------------
(* IK: <- s; -> e, es, s, ss; <- e, ee, se.                                *)

\* IkHandshakeState::build_client_hello, with the server's static key ss as
\* the client knows it; called again it goes on from where it was.
WriteIkHello(n, ce, cs, ss, payload) ==
    LET es == MixKey(Authenticate(Authenticate(n, ss), ce), ce, ss)
        s  == Seal(es, cs)
        mix == MixKey(Pass(es, s), cs, ss)
        p  == Seal(mix, payload)
    IN  [noise |-> Pass(mix, p), msg |-> [e |-> ce, s |-> s, payload |-> p]]

\* ik_serve_accept, up to the 0-RTT payload: whether the hello opened
ReadIkHello(ss, hello) ==
    LET es  == MixKey(Authenticate(Authenticate(New("IK"), ss), hello.e), ss, hello.e)
        mix == MixKey(Pass(es, hello.s), ss, hello.s.plain)
    IN  [ok |-> Verifies(es, hello.s) /\ Verifies(mix, hello.payload),
         noise |-> Pass(mix, hello.payload)]

NoSeal == [key |-> <<>>, ctr |-> 0, aad |-> <<>>, plain |-> "none"]

\* The rest of ik_serve_accept: a hello without a static key
ServeIk(n, ce, cs, se, cert) ==
    LET se1 == MixKey(MixKey(Authenticate(n, se), se, ce), se, cs)
        p   == Seal(se1, cert)
    IN  [noise |-> Pass(se1, p), msg |-> [e |-> se, s |-> NoSeal, payload |-> p]]

\* IkHandshakeState::read_server_hello, if it has no static key
ReadIkAnswer(n, ce, cs, hello) ==
    LET se1 == MixKey(MixKey(Authenticate(n, hello.e), ce, hello.e), cs, hello.e)
    IN  [ok |-> Verifies(se1, hello.payload), noise |-> Pass(se1, hello.payload)]
=============================================================================
