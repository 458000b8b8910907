--------------------------- MODULE NoiseConnection ---------------------------
(***************************************************************************)
(* A connection of the bridge from its handshake to its frames.  The       *)
(* application opens it with a NoiseSession (XX), or with a NoiseIkSession *)
(* when it has the server's static key from an earlier connection.  The    *)
(* server takes IK or answers it with an XX hello, as it must when the key *)
(* is not its own, and the client goes on with a NoiseXxFallbackSession.   *)
(* The session that results is one end of a NoiseTransport.                *)
(*                                                                         *)
(* The server is the responder of the tests in noise/src/handshake.rs.     *)
(* The application calls a NoiseSession in the documented order.  It may   *)
(* call buildClientHello and buildClientFinish again, and finish early:    *)
(* the objects of IK and of the fallback permit that.                      *)
(*                                                                         *)
(* The frames are the server's, or in XX those of either end: a session    *)
(* that comes from IK or the fallback puts the connection header before    *)
(* its first frame once more (from_ciphers), which is not modelled.        *)
(***************************************************************************)
EXTENDS NoiseTransport, NoiseState

CONSTANTS
    Statics,        \* static keys the server may have
    Trusted,        \* those with a certificate chain that verifies
    MaxBuilds       \* bound on the calls of one builder

ASSUME ConnectionAssumption ==
    /\ Trusted \subseteq Statics
    /\ MaxBuilds \in Nat \ {0}

VARIABLES
    client,     \* the client's end, see Closed
    server,     \* the server's end, see Listening
    built,      \* the IK hellos that the application holds
    hello, answer, finish,   \* messages that were sent
    sealed      \* the ciphertexts of this handshake

connVars == <<client, server, built, hello, answer, finish, sealed>>

\* Key pairs other than the server's static ones
ClientEphemeral == "ce"
ServerEphemeral == "se"
ClientStatic    == "cs"

NoMessage == [e |-> "none"]
NoKeys    == [write |-> <<>>, read |-> <<>>]

\* pc: "closed"; "open" with a NoiseIkSession; "waiting" for the server hello;
\* in XX then "verify", "static" and "sent", in the fallback "fallback"; "up"
\* with a finished session, "failed" without; and "use" once frames flow.
\* static is the key IK was opened with, chain the cert_chain of the fallback,
\* and hellos and finishes count the calls of the two builders.
Closed == [pc |-> "closed", pattern |-> "none", noise |-> New("none"), static |-> "none",
           hellos |-> 0, finishes |-> 0, chain |-> FALSE, keys |-> NoKeys]

\* pc: "listening", "answered", "up", or "failed" on a finish it cannot open
Listening(static) ==
    [pc |-> "listening", static |-> static, noise |-> New("none"), keys |-> NoKeys]

ConnInit ==
    /\ Init
    /\ client = Closed
    /\ \E static \in Statics : server = Listening(static)
    /\ built = {}
    /\ hello = NoMessage /\ answer = NoMessage /\ finish = NoMessage
    /\ sealed = {}

----------------------------------------------------------------------------
(* XX: NoiseSession.                                                       *)

\* NoiseSession::new, which hashes the ephemeral key, and its first frame
OpenXx ==
    /\ client.pc = "closed"
    /\ client' = [Closed EXCEPT !.pc = "waiting", !.pattern = "XX",
                                !.noise = Authenticate(New("XX"), ClientEphemeral)]
    /\ hello' = [e |-> ClientEphemeral, s |-> NoSeal, payload |-> NoSeal]
    /\ UNCHANGED <<server, built, answer, finish, sealed>>

\* processHandshakeInit, which returns the certificate
ProcessHandshakeInit ==
    /\ client.pc = "waiting" /\ client.pattern = "XX"
    /\ answer # NoMessage
    /\ \E r \in {ReadXxHello(client.noise, ClientEphemeral, answer)} :
          client' = [client EXCEPT !.pc = IF r.ok THEN "verify" ELSE "failed", !.noise = r.noise]
    /\ UNCHANGED <<server, built, hello, answer, finish, sealed>>

\* processHandshakeFinish, if the application accepts the certificate
ProcessHandshakeFinish ==
    /\ client.pc = "verify"
    /\ answer.payload.plain \in Trusted
    /\ \E w \in {WriteStatic(client.noise, ClientStatic, answer.e)} :
          /\ client' = [client EXCEPT !.pc = "static", !.noise = w.noise]
          /\ finish' = [s |-> w.seal]
          /\ sealed' = sealed \cup {w.seal}
    /\ UNCHANGED <<server, built, hello, answer>>

\* encrypt, for the payload; encodeFrameRaw then sends both.
SendFinish ==
    /\ client.pc = "static"
    /\ \E w \in {WritePayload(client.noise, "login")} :
          /\ client' = [client EXCEPT !.pc = "sent", !.noise = w.noise]
          /\ finish' = [s |-> finish.s, payload |-> w.seal]
          /\ sealed' = sealed \cup {w.seal}
    /\ UNCHANGED <<server, built, hello, answer>>

FinishInit ==
    /\ client.pc = "sent"
    /\ client' = [client EXCEPT !.pc = "up", !.keys = Split(client.noise)]
    /\ UNCHANGED <<server, built, hello, answer, finish, sealed>>

----------------------------------------------------------------------------
(* IK: NoiseIkSession.                                                     *)

\* NoiseIkSession::new, with the key of a chain that was verified earlier
OpenIk(static) ==
    /\ client.pc = "closed"
    /\ client' = [Closed EXCEPT !.pc = "open", !.pattern = "IK",
                                !.noise = New("IK"), !.static = static]
    /\ UNCHANGED <<server, built, hello, answer, finish, sealed>>

\* buildClientHello
BuildClientHello ==
    /\ client.pc = "open"
    /\ client.hellos < MaxBuilds
    /\ \E w \in {WriteIkHello(client.noise, ClientEphemeral, ClientStatic, client.static, "login")} :
          /\ client' = [client EXCEPT !.noise = w.noise, !.hellos = @ + 1]
          /\ built' = built \cup {w.msg}
          /\ sealed' = sealed \cup {w.msg.s, w.msg.payload}
    /\ UNCHANGED <<server, hello, answer, finish>>

\* The application sends one of those it has built.
SendHello ==
    /\ client.pc = "open"
    /\ hello' \in built
    /\ built' = {}
    /\ client' = [client EXCEPT !.pc = "waiting"]
    /\ UNCHANGED <<server, answer, finish, sealed>>

FromIkFailureInPlace == Authenticate(client.noise, ClientEphemeral)   \* mutant of the next
\* XxFallbackHandshakeState::from_ik_failure: a new state, the old ephemeral
FromIkFailure == Authenticate(New("XXfallback"), ClientEphemeral)

\* readServerHello: the object is spent whatever comes of it.
ReadServerHello ==
    /\ client.pc = "waiting" /\ client.pattern = "IK"
    /\ answer # NoMessage
    /\ IF answer.s # NoSeal
       THEN client' = [client EXCEPT !.pc = "fallback", !.pattern = "XXfallback",
                                     !.noise = FromIkFailure]
       ELSE \E r \in {ReadIkAnswer(client.noise, ClientEphemeral, ClientStatic, answer)} :
               client' = [client EXCEPT !.pc = IF r.ok THEN "up" ELSE "failed",
                                        !.noise = r.noise,
                                        !.keys = IF r.ok THEN Split(r.noise) ELSE NoKeys]
    /\ UNCHANGED <<server, built, hello, answer, finish, sealed>>

----------------------------------------------------------------------------
(* XXfallback: NoiseXxFallbackSession.                                     *)

\* verify_chain, under the default policy: a chain to the decrypted key
VerifyChain(cert, static) == cert \in Trusted /\ cert = static

\* buildClientFinish: an error leaves the state where it was raised.  A finish
\* is sent as soon as it is returned.
BuildClientFinish ==
    /\ client.pc = "fallback"
    /\ client.finishes < MaxBuilds
    /\ \E r \in {ReadXxHello(client.noise, ClientEphemeral, answer)} :
       \E s \in {WriteStatic(r.noise, ClientStatic, answer.e)} :
       \E p \in {WritePayload(s.noise, "login")} :
          IF r.ok /\ VerifyChain(answer.payload.plain, answer.s.plain)
          THEN /\ client' = [client EXCEPT !.noise = p.noise, !.finishes = @ + 1, !.chain = TRUE]
               /\ finish' = [s |-> s.seal, payload |-> p.seal]
               /\ sealed' = sealed \cup {s.seal, p.seal}
          ELSE /\ client' = [client EXCEPT !.noise = r.noise, !.finishes = @ + 1]
               /\ UNCHANGED <<finish, sealed>>
    /\ UNCHANGED <<server, built, hello, answer>>

\* mutant of FinishFallback: a state always has keys
FinishFallbackAnyway ==
    /\ client.pc = "fallback"
    /\ client' = [client EXCEPT !.pc = "up", !.keys = Split(client.noise)]
    /\ UNCHANGED <<server, built, hello, answer, finish, sealed>>

\* finish, by finish_xx_outcome: IncompleteResponse unless a chain was accepted
FinishFallback ==
    /\ client.pc = "fallback"
    /\ client' = [client EXCEPT !.pc = IF client.chain THEN "up" ELSE "failed",
                                !.keys = IF client.chain THEN Split(client.noise) ELSE NoKeys]
    /\ UNCHANGED <<server, built, hello, answer, finish, sealed>>

----------------------------------------------------------------------------
(* The server.                                                             *)

\* The keys of the other end, which reads with the first and writes with the
\* second
ServerKeys(n) == [write |-> <<CipherKey(n), 2>>, read |-> <<CipherKey(n), 1>>]

\* xx_serve_ext, or ik_serve_force_fallback for a hello of IK that it declines
ServeHello ==
    LET pattern == IF hello.s = NoSeal THEN "XX" ELSE "XXfallback"
    IN  /\ server.pc = "listening"
        /\ hello # NoMessage
        /\ \E w \in {ServeXx(pattern, hello.e, ServerEphemeral, server.static, server.static)} :
              /\ server' = [server EXCEPT !.pc = "answered", !.noise = w.noise]
              /\ answer' = w.msg
              /\ sealed' = sealed \cup {w.msg.s, w.msg.payload}
        /\ UNCHANGED <<client, built, hello, finish>>

\* ik_serve_accept
AcceptHello ==
    /\ server.pc = "listening"
    /\ hello # NoMessage
    /\ hello.s # NoSeal
    /\ \E r \in {ReadIkHello(server.static, hello)} :
          /\ r.ok
          /\ \E w \in {ServeIk(r.noise, hello.e, hello.s.plain, ServerEphemeral, server.static)} :
                /\ server' = [server EXCEPT !.pc = "up", !.noise = w.noise,
                                            !.keys = ServerKeys(w.noise)]
                /\ answer' = w.msg
                /\ sealed' = sealed \cup {w.msg.payload}
    /\ UNCHANGED <<client, built, hello, finish>>

\* xx_finish_ext
ServeFinish ==
    /\ server.pc = "answered"
    /\ "payload" \in DOMAIN finish
    /\ \E r \in {ReadXxFinish(server.noise, ServerEphemeral, finish)} :
          server' = [server EXCEPT !.pc = IF r.ok THEN "up" ELSE "failed", !.noise = r.noise,
                                   !.keys = IF r.ok THEN ServerKeys(r.noise) ELSE NoKeys]
    /\ UNCHANGED <<client, built, hello, answer, finish, sealed>>

----------------------------------------------------------------------------
\* Frames flow when both ends have a session.  Nothing of the handshake is read
\* any more: NoiseSession holds no handshake, the other objects are spent.
Paired == client.keys.write = server.keys.read /\ client.keys.read = server.keys.write

Use ==
    /\ client.pc = "up" /\ server.pc = "up"
    /\ Paired
    /\ client' = [Closed EXCEPT !.pc = "use"]
    /\ server' = Listening("none")
    /\ built' = {} /\ sealed' = {}
    /\ hello' = NoMessage /\ answer' = NoMessage /\ finish' = NoMessage

\* What a client does that makes the calls in order, and what a server does
OrderlyStep ==
    \/ client.hellos = 0 /\ BuildClientHello
    \/ SendHello \/ ReadServerHello
    \/ client.finishes = 0 /\ BuildClientFinish
    \/ client.finishes > 0 /\ FinishFallback
    \/ ProcessHandshakeInit \/ ProcessHandshakeFinish \/ SendFinish \/ FinishInit
    \/ ServeHello \/ AcceptHello \/ ServeFinish
    \/ Use

ConnNext ==
    \/ /\ \/ OpenXx \/ ProcessHandshakeInit \/ ProcessHandshakeFinish \/ SendFinish \/ FinishInit
          \/ \E static \in Trusted : OpenIk(static)
          \/ BuildClientHello \/ SendHello \/ ReadServerHello
          \/ BuildClientFinish \/ FinishFallback
          \/ ServeHello \/ AcceptHello \/ ServeFinish
          \/ Use
       /\ UNCHANGED vars
    \/ /\ client.pc = "use"
       /\ Next
       /\ UNCHANGED connVars

\* An application that has opened a connection goes on with it, and so does
\* the server; the rest is the fairness of NoiseTransport.
ConnSpec ==
    /\ ConnInit /\ [][ConnNext]_<<vars, connVars>>
    /\ WF_connVars(OrderlyStep)
    /\ WF_wire(Deliver)

----------------------------------------------------------------------------
\* Two ends that each have a session have each other's keys, and a key for
\* either direction (NoiseState::split), whichever of the three handshakes they
\* went through and however often a hello was built; a finish must not have been
\* built twice (the second call fails, having mixed a key in again).
KeysAgree ==
    client.pc = "up" /\ server.pc = "up" /\ client.finishes <= 1 =>
        Paired /\ client.keys.write # client.keys.read

\* The client has a session only with a server whose static key a chain vouches
\* for: in XX and the fallback one that was verified in this handshake
\* (finish_xx_outcome), in IK the one it was opened with.  IK without a fallback
\* succeeds only if that is the server's key.
ServerIsTrusted ==
    client.pc = "up" =>
        /\ server.static \in Trusted
        /\ client.pattern = "IK" => client.static = server.static

\* No key of a handshake seals two messages under one counter, at either end,
\* also when a builder is called again (post_increment_counter, mix_key).
SealedOnce ==
    \A c, d \in sealed : c.key = d.key /\ c.ctr = d.ctr => c = d

\* A client that makes the calls in order, once each, with a server that has a
\* chain gets to exchange frames, whether or not the static key it knows is
\* still the server's: "Falls back to XX automatically if the server rejects"
\* (noise_session.rs, from_ik_failure).
Orderly ==
    /\ client.hellos <= 1 /\ client.finishes <= 1
    /\ client.pc = "failed" /\ client.pattern = "XXfallback" => client.finishes = 1
Connects ==
    client.pc # "closed" ~>
        client.pc = "use" \/ ~Orderly \/ server.static \notin Trusted
=============================================================================
