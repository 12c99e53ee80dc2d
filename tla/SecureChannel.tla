----------------------------- MODULE SecureChannel -----------------------------
(* One established session of src/client/session.go, seen from both ends: the  *)
(* two cipher states that deriveKeys leaves behind, send (encrypt, then write), *)
(* the read loop's decrypt, and closeConn.                                      *)
(*                                                                              *)
(* The mutex of a Session is released between the step of encrypt that takes a  *)
(* nonce and the step of send that writes the frame, and again between the      *)
(* nonce check of decrypt and the opening of the frame.  Each critical section  *)
(* is one action here, so every interleaving of the goroutines that call send   *)
(* (API handlers, outbox flushes, the read loop's own replies, broadcasts) and  *)
(* of closeConn is a behaviour of the model.                                    *)
EXTENDS Naturals, Sequences, FiniteSets

CONSTANTS Plain,      \* plaintexts
          Writers,    \* Writers[e]: how many goroutines may be inside send at end e
          MaxSends    \* MaxSends[e]: bound on the calls of encrypt at end e

End == {"initiator", "responder"}

ASSUME ChannelAssumption == /\ Writers \in [End -> Nat]
                            /\ MaxSends \in [End -> Nat]

VARIABLES
  sendr,      \* sendr[e], recv[e]: the cipherState pair of the session at end e
  recv,
  sealing,    \* sealing[e]: sends of e that hold a nonce and have not sealed yet
  writing,    \* writing[e]: frames sealed by e and not written yet
  wire,       \* wire[e]: frames written by e that its peer has not read, in order
  link,       \* "up", or "down" once the connection is lost
  conn,       \* conn[e]: "open", "wiped" (keys erased), "closed" (conn.Close too)
  loop,       \* loop[e]: readLoop is at ReadMessage, inside decrypt, or has returned
  opening,    \* opening[e]: the frame that decrypt is about to open, if any
  taken,      \* history: plaintexts of e in the order in which they took a nonce
  sealed,     \* history: every frame that was ever sealed, at either end
  delivered,  \* history: plaintexts handed to handleDecrypted at e, in order
  rejected    \* history: rejected[e]: frames on which decrypt at e returned an error

ends    == <<sendr, recv, conn, link>>
history == <<taken, sealed, delivered, rejected>>
vars    == <<sendr, recv, sealing, writing, wire, link, conn, loop, opening,
             taken, sealed, delivered, rejected>>

Peer(e) == IF e = "initiator" THEN "responder" ELSE "initiator"

--------------------------------------------------------------------------------
(* Keys. *)

SessionKey == {"session:send", "session:recv"}
NilKey     == "nil"     \* the slice was set to nil
ZeroKey    == "zero"    \* the bytes a goroutine still refers to, after the erasure
TornKey    == "torn"    \* the same bytes read while they are being erased
FrameKey   == SessionKey \cup {ZeroKey, TornKey}
CipherState == [key : SessionKey \cup {NilKey}, nonce : Nat]
Frame      == [key : FrameKey, nonce : Nat, plain : Plain]

\* The two directions never share a key: the responder swaps the labels.
DeriveKeys(e) ==
  IF e = "initiator" THEN [send |-> "session:send", recv |-> "session:recv"]
                     ELSE [send |-> "session:recv", recv |-> "session:send"]

\* encrypt and decrypt copy the slice, not the bytes, out of the critical section;
\* what the cipher reads after closeConn has run is the erased array, or an array
\* caught half erased.
KeyBytes(k) == IF k = NilKey THEN {ZeroKey, TornKey} ELSE {k}

\* Two half-erased keys do not agree.
Opens(k, f) == f.key = k /\ k # TornKey

--------------------------------------------------------------------------------
Init ==
  /\ sendr = [e \in End |-> [key |-> DeriveKeys(e).send, nonce |-> 0]]
  /\ recv = [e \in End |-> [key |-> DeriveKeys(e).recv, nonce |-> 0]]
  /\ sealing = [e \in End |-> {}]
  /\ writing = [e \in End |-> {}]
  /\ wire = [e \in End |-> <<>>]
  /\ link = "up"
  /\ conn = [e \in End |-> "open"]
  /\ loop = [e \in End |-> "read"]
  /\ opening = [e \in End |-> {}]
  /\ taken = [e \in End |-> <<>>]
  /\ sealed = {}
  /\ delivered = [e \in End |-> <<>>]
  /\ rejected = [e \in End |-> {}]

\* Mutant: the counter stays.
Advance_Forgotten(c) == c

\* sendr.nonce++ inside encrypt's critical section.
Advance(c) == [key |-> c.key, nonce |-> c.nonce + 1]

(* A call of send.  With the key gone, encrypt returns an error and nothing      *)
(* changes, so only the successful call is an action.                            *)
InSend(e) == Cardinality(sealing[e]) + Cardinality(writing[e])

Encrypt(e, p) ==
  /\ sendr[e].key # NilKey
  /\ Len(taken[e]) < MaxSends[e]
  /\ InSend(e) < Writers[e]
  /\ sealing' = [sealing EXCEPT ![e] = @ \cup {[nonce |-> sendr[e].nonce, plain |-> p]}]
  /\ sendr' = [sendr EXCEPT ![e] = Advance(@)]
  /\ taken' = [taken EXCEPT ![e] = Append(@, p)]
  /\ UNCHANGED <<recv, conn, link, writing, wire, loop, opening, sealed,
                 delivered, rejected>>

Seal(e, c) ==
  /\ c \in sealing[e]
  /\ \E k \in KeyBytes(sendr[e].key) :
       LET f == [key |-> k, nonce |-> c.nonce, plain |-> c.plain]
       IN  /\ writing' = [writing EXCEPT ![e] = @ \cup {f}]
           /\ sealed' = sealed \cup {f}
  /\ sealing' = [sealing EXCEPT ![e] = @ \ {c}]
  /\ UNCHANGED <<sendr, recv, conn, link, wire, loop, opening, taken, delivered,
                 rejected>>

\* On a lost or locally closed connection the frame goes nowhere, whether
\* WriteMessage reports it or not.
Write(e, f) ==
  /\ f \in writing[e]
  /\ writing' = [writing EXCEPT ![e] = @ \ {f}]
  /\ wire' = IF link = "up" /\ conn[e] # "closed"
             THEN [wire EXCEPT ![e] = Append(@, f)] ELSE wire
  /\ UNCHANGED <<ends, sealing, loop, opening, history>>

--------------------------------------------------------------------------------
(* The read loop. *)

\* Mutant: a later nonce is let through.
PassesCheck_OrLater(e, f) == recv[e].key # NilKey /\ f.nonce >= recv[e].nonce

\* The first critical section of decrypt and the nonce check after it.
PassesCheck(e, f) == recv[e].key # NilKey /\ f.nonce = recv[e].nonce

\* ReadMessage returns the next frame, and it passes the check of decrypt ...
ReadFrame(e) ==
  /\ loop[e] = "read"
  /\ conn[e] # "closed"
  /\ wire[Peer(e)] # <<>>
  /\ PassesCheck(e, Head(wire[Peer(e)]))
  /\ wire' = [wire EXCEPT ![Peer(e)] = Tail(@)]
  /\ loop' = [loop EXCEPT ![e] = "open"]
  /\ opening' = [opening EXCEPT ![e] = {Head(wire[Peer(e)])}]
  /\ UNCHANGED <<ends, sealing, writing, history>>

\* ... or it does not: decrypt returns an error and the loop continues.
RefuseFrame(e) ==
  /\ loop[e] = "read"
  /\ conn[e] # "closed"
  /\ wire[Peer(e)] # <<>>
  /\ ~PassesCheck(e, Head(wire[Peer(e)]))
  /\ wire' = [wire EXCEPT ![Peer(e)] = Tail(@)]
  /\ rejected' = [rejected EXCEPT ![e] = @ \cup {Head(wire[Peer(e)])}]
  /\ UNCHANGED <<ends, sealing, writing, loop, opening, taken, sealed, delivered>>

\* Mutant: the counter stays.
Count_Forgotten(c) == c

\* recv.nonce++ after a frame has opened.
Count(c) == [key |-> c.key, nonce |-> c.nonce + 1]

\* The rest of decrypt: open the frame, count the nonce, hand the plaintext on ...
OpenFrame(e, f) ==
  /\ f \in opening[e]
  /\ \E k \in KeyBytes(recv[e].key) : Opens(k, f)
  /\ recv' = [recv EXCEPT ![e] = Count(@)]
  /\ delivered' = [delivered EXCEPT ![e] = Append(@, f.plain)]
  /\ loop' = [loop EXCEPT ![e] = "read"]
  /\ opening' = [opening EXCEPT ![e] = {}]
  /\ UNCHANGED <<sendr, conn, link, sealing, writing, wire, taken, sealed, rejected>>

\* ... or fail to open it, and continue.
FailToOpen(e, f) ==
  /\ f \in opening[e]
  /\ \E k \in KeyBytes(recv[e].key) : ~Opens(k, f)
  /\ rejected' = [rejected EXCEPT ![e] = @ \cup {f}]
  /\ loop' = [loop EXCEPT ![e] = "read"]
  /\ opening' = [opening EXCEPT ![e] = {}]
  /\ UNCHANGED <<ends, sealing, writing, wire, taken, sealed, delivered>>

\* Mutant: a close by the peer goes unnoticed.
ReadError_Local(e) ==
  /\ loop[e] = "read"
  /\ \/ conn[e] = "closed"
     \/ wire[Peer(e)] = <<>> /\ link = "down"
  /\ loop' = [loop EXCEPT ![e] = "exited"]
  /\ UNCHANGED <<ends, sealing, writing, wire, opening, history>>

\* ReadMessage returns an error: this end closed the socket, or nothing is left to
\* read and the connection is lost or was closed by the peer.
ReadError(e) ==
  /\ loop[e] = "read"
  /\ \/ conn[e] = "closed"
     \/ wire[Peer(e)] = <<>> /\ (link = "down" \/ conn[Peer(e)] = "closed")
  /\ loop' = [loop EXCEPT ![e] = "exited"]
  /\ UNCHANGED <<ends, sealing, writing, wire, opening, history>>

\* The read deadline passes while the connection is still there.
ReadTimeout(e) ==
  /\ loop[e] = "read"
  /\ loop' = [loop EXCEPT ![e] = "exited"]
  /\ UNCHANGED <<ends, sealing, writing, wire, opening, history>>

--------------------------------------------------------------------------------
(* closeConn: called by the read loop when it returns, and at any moment by an   *)
(* admin handler, by a replacing connection and by Shutdown.                     *)

WipedState(c) == [key |-> NilKey, nonce |-> c.nonce]

CloseConn_Wipe(e) ==
  /\ conn[e] = "open"
  /\ conn' = [conn EXCEPT ![e] = "wiped"]
  /\ sendr' = [sendr EXCEPT ![e] = WipedState(@)]
  /\ recv' = [recv EXCEPT ![e] = WipedState(@)]
  /\ UNCHANGED <<link, sealing, writing, wire, loop, opening, history>>

CloseConn_Close(e) ==
  /\ conn[e] = "wiped"
  /\ conn' = [conn EXCEPT ![e] = "closed"]
  /\ UNCHANGED <<sendr, recv, link, sealing, writing, wire, loop, opening, history>>

\* The network loses the connection, and with it some tail of what is in flight.
LinkDown ==
  /\ link = "up"
  /\ link' = "down"
  /\ \E i \in 0 .. Len(wire["initiator"]), r \in 0 .. Len(wire["responder"]) :
       wire' = [e \in End |-> SubSeq(wire[e], 1, IF e = "initiator" THEN i ELSE r)]
  /\ UNCHANGED <<sendr, recv, conn, sealing, writing, loop, opening, history>>

--------------------------------------------------------------------------------
Send(e) == \/ \E p \in Plain : Encrypt(e, p)
           \/ \E c \in sealing[e] : Seal(e, c)
           \/ \E f \in writing[e] : Write(e, f)

Decrypt(e) == \/ ReadFrame(e) \/ RefuseFrame(e)
              \/ \E f \in opening[e] : OpenFrame(e, f) \/ FailToOpen(e, f)

ReadLoop(e) == Decrypt(e) \/ ReadError(e) \/ ReadTimeout(e)

CloseConn(e) == CloseConn_Wipe(e) \/ CloseConn_Close(e)

Next == LinkDown \/ \E e \in End : Send(e) \/ ReadLoop(e) \/ CloseConn(e)

Spec == Init /\ [][Next]_vars

\* A goroutine that is inside send, decrypt or closeConn goes on; a frame or an
\* error that is there is read; the deferred closeConn of a returned read loop is
\* reached.  Nobody is obliged to send or to close, and the network to nothing.
Fairness ==
  \A e \in End :
    /\ WF_vars(\E c \in sealing[e] : Seal(e, c))
    /\ WF_vars(\E f \in writing[e] : Write(e, f))
    /\ WF_vars(Decrypt(e))
    /\ WF_vars(ReadError(e))
    /\ WF_vars(loop[e] = "exited" /\ CloseConn_Wipe(e))
    /\ WF_vars(CloseConn_Close(e))

FairSpec == Spec /\ Fairness

--------------------------------------------------------------------------------
(* Properties. *)

\* Every variable keeps its type; nonces stay within the number of calls of encrypt.
TypeOK ==
  /\ sendr \in [End -> CipherState]
  /\ recv \in [End -> CipherState]
  /\ sealing \in [End -> SUBSET [nonce : Nat, plain : Plain]]
  /\ writing \in [End -> SUBSET Frame]
  /\ wire \in [End -> Seq(Frame)]
  /\ link \in {"up", "down"}
  /\ conn \in [End -> {"open", "wiped", "closed"}]
  /\ loop \in [End -> {"read", "open", "exited"}]
  /\ opening \in [End -> SUBSET Frame]
  /\ taken \in [End -> Seq(Plain)]
  /\ sealed \in SUBSET Frame
  /\ delivered \in [End -> Seq(Plain)]
  /\ rejected \in [End -> SUBSET Frame]

\* No nonce is ever used for two plaintexts under one key, in either direction and
\* however many goroutines are inside encrypt: the counter is read and advanced in
\* one critical section and deriveKeys gives the directions different keys.
NonceUsedOnce ==
  \A f, g \in sealed :
    (f.key = g.key /\ f.key \in SessionKey /\ f.nonce = g.nonce) => f = g

\* Once decrypt has refused a frame, neither it nor anything encrypted after it is
\* ever delivered on this session: the sender does not go back and the receiver
\* does not skip, so a single gap ends the direction for good.
GapIsPermanent ==
  \A e \in End : \A f \in rejected[e] : Len(delivered[e]) <= f.nonce

\* While neither end has started to close, decrypt refuses nothing.  It holds for a
\* session with one sending goroutine per end; it is what several of them break.
NothingRefused ==
  (\A e \in End : conn[e] = "open") => (\A e \in End : rejected[e] = {})

\* One direction of the session, seen as an abstract channel.
FromInitiator == INSTANCE PrefixChannel
                   WITH sent <- taken["initiator"], got <- delivered["responder"]
FromResponder == INSTANCE PrefixChannel
                   WITH sent <- taken["responder"], got <- delivered["initiator"]

\* Either direction hands over a prefix of what took a nonce, in that order and
\* without duplicates, whatever the order of the writes, and also while keys are
\* being erased: the strict nonce check of decrypt against the peer's counter.
PrefixDelivery == FromInitiator!Spec /\ FromResponder!Spec

\* The session is still usable at both ends.
Healthy == /\ link = "up"
           /\ \A e \in End : conn[e] = "open" /\ loop[e] # "exited"

\* What send accepted is delivered, unless the session ends first.
SentArrives ==
  \A e \in End : \A n \in 1 .. MaxSends[e] :
    (Len(taken[e]) >= n) ~> (Len(delivered[Peer(e)]) >= n \/ ~Healthy)

\* A session that has ended for one end ends for both: each read loop returns and
\* each connection is closed, with nothing but the peer's close or the loss of the
\* connection to learn it from.
EndsForBoth ==
  (~Healthy) ~> (\A e \in End : conn[e] = "closed" /\ loop[e] = "exited")

================================================================================
