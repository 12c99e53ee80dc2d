-------------------------------- MODULE Handshake --------------------------------
(* Session.handshake at both ends of any number of connections between clients, from  *)
(* the new websocket to the derived keys, and the end of a session whose other half   *)
(* did not come about.  Each end of a connection is a session of its own, run by a     *)
(* goroutine of the client that owns it.  The clients follow the protocol, so that     *)
(* the checks of verifyPeer pass; the network may lose a connection at any time.       *)
(* The secret of a key exchange is the unordered pair of the two ephemeral keys.       *)
EXTENDS Naturals, FiniteSets

CONSTANTS Session,      \* the ends of the connections
          Initiators,   \* the ends that dialled
          Peer,         \* Peer[s]: the other end of the connection of s
          Owner,        \* Owner[s]: the client, by its static key
          Ephemeral,    \* X25519 keys
          Live,         \* the ends of the clients that keep running
          None

ASSUME HandshakeAssumption ==
  /\ Peer \in [Session -> Session]
  /\ \A s \in Session : /\ Peer[Peer[s]] = s
                        /\ (s \in Initiators) # (Peer[s] \in Initiators)
                        /\ Owner[s] # Owner[Peer[s]]
  /\ Live \subseteq Session
  /\ None \notin Ephemeral

VARIABLES
  pc,      \* pc[s]: where handshake is, and what became of the session
  eph,     \* eph[s]: the ephemeral key generated for s
  out,     \* out[s]: the key exchange that s has written and its peer not yet read
  got,     \* got[s]: the key exchange that s has read
  keys,    \* keys[s]: the keys and the peer that deriveKeys has set
  lost     \* the ends whose connection the network has lost

vars == <<pc, eph, out, got, keys, lost>>

Over(s) == pc[s] \in {"failed", "ended"}     \* the socket of s is closed

Init ==
  /\ pc = [s \in Session |-> "start"]
  /\ eph = [s \in Session |-> None]
  /\ out = [s \in Session |-> None]
  /\ got = [s \in Session |-> None]
  /\ keys = [s \in Session |-> None]
  /\ lost = {}

Step(s, from, to) == pc[s] = from /\ pc' = [pc EXCEPT ![s] = to]

\* doSend fills in the ephemeral key, the static key and the signature of the one
\* with the other.
KeyExchange(s) == [pub |-> eph[s], static |-> Owner[s], signature |-> <<Owner[s], eph[s]>>]

VerifyPeer(s, d) == d.static # Owner[s] /\ d.signature = <<d.static, d.pub>>

Label(name, k, l) == <<name, {k, l}>>

\* Mutant: both ends use the labels alike.
DeriveKeys_NoSwap(s, d) ==
  [send |-> Label("session:send", eph[s], d.pub), recv |-> Label("session:recv", eph[s], d.pub),
   peer |-> d.static]

DeriveKeys(s, d) ==
  LET sendKey == Label("session:send", eph[s], d.pub)
      recvKey == Label("session:recv", eph[s], d.pub)
  IN IF s \in Initiators THEN [send |-> sendKey, recv |-> recvKey, peer |-> d.static]
                         ELSE [send |-> recvKey, recv |-> sendKey, peer |-> d.static]

----------------------------------------------------------------------------------
\* Mutant: the key of an earlier handshake is used again.
Fresh_Reused(k) == TRUE

Fresh(k) == \A t \in Session : eph[t] # k

\* Mutant: the responder writes before it reads.
AfterGenerate_Swapped(s) == "send"

AfterGenerate(s) == IF s \in Initiators THEN "send" ELSE "recv"

Generate(s) ==
  /\ Step(s, "start", AfterGenerate(s))
  /\ \E k \in Ephemeral : Fresh(k) /\ eph' = [eph EXCEPT ![s] = k]
  /\ UNCHANGED <<out, got, keys, lost>>

\* Until a lost connection is noticed, a write succeeds and its data is lost.
DoSend(s) ==
  /\ Step(s, "send", IF got[s] = None THEN "recv" ELSE "derive")
  /\ out' = IF s \in lost THEN out ELSE [out EXCEPT ![s] = KeyExchange(s)]
  /\ UNCHANGED <<eph, got, keys, lost>>

\* The write fails on a lost connection, or on one that the peer has closed.
DoSendFails(s) ==
  /\ Step(s, "send", "failed")
  /\ s \in lost \/ Over(Peer[s])
  /\ UNCHANGED <<eph, out, got, keys, lost>>

DoRecv(s) ==
  /\ out[Peer[s]] # None
  /\ Step(s, "recv", IF s \in Initiators THEN "derive" ELSE "send")
  /\ got' = [got EXCEPT ![s] = out[Peer[s]]]
  /\ out' = [out EXCEPT ![Peer[s]] = None]
  /\ UNCHANGED <<eph, keys, lost>>

\* Mutant: doRecv without a read deadline.
DoRecvFails_NoDeadline(s) ==
  /\ Step(s, "recv", "failed")
  /\ s \in lost \/ Over(Peer[s])
  /\ UNCHANGED <<eph, out, got, keys, lost>>

\* The read deadline passes, or the connection ends.
DoRecvFails(s) ==
  /\ Step(s, "recv", "failed")
  /\ UNCHANGED <<eph, out, got, keys, lost>>

Derive(s) ==
  /\ Step(s, "derive", "serving")
  /\ VerifyPeer(s, got[s])
  /\ keys' = [keys EXCEPT ![s] = DeriveKeys(s, got[s])]
  /\ UNCHANGED <<eph, out, got, lost>>

Handshake(s) ==
  Generate(s) \/ DoSend(s) \/ DoSendFails(s) \/ DoRecv(s) \/ DoRecvFails(s) \/ Derive(s)

\* Mutant: the failed end keeps its socket open.
ReadFails_PeerKept(s) ==
  /\ Step(s, "serving", "ended")
  /\ s \in lost \/ pc[Peer[s]] = "ended"
  /\ UNCHANGED <<eph, out, got, keys, lost>>

\* The read loop of an established session finds the connection lost, or closed by the
\* other end, whose handshake or read loop has ended.
ReadFails(s) ==
  /\ Step(s, "serving", "ended")
  /\ s \in lost \/ Over(Peer[s])
  /\ UNCHANGED <<eph, out, got, keys, lost>>

\* The network loses a connection, with what is in flight on it.
Lose(s) ==
  /\ s \notin lost
  /\ lost' = lost \cup {s, Peer[s]}
  /\ out' = [out EXCEPT ![s] = None, ![Peer[s]] = None]
  /\ UNCHANGED <<pc, eph, got, keys>>

Next == \E s \in Session : Handshake(s) \/ ReadFails(s) \/ Lose(s)

Spec == Init /\ [][Next]_vars

(* The handshake of a client that runs goes on, doSend and doRecv having deadlines, and *)
(* its read loop notices that the connection has ended.  Nothing is assumed of the       *)
(* other clients, which may stall with the connection open.                             *)
FairSpec == Spec /\ \A s \in Live : WF_vars(Handshake(s)) /\ WF_vars(ReadFails(s))

----------------------------------------------------------------------------------
(* Properties *)

Exchange == [pub : Ephemeral, static : {Owner[s] : s \in Session},
             signature : {Owner[s] : s \in Session} \X Ephemeral]

SecretKey == {"session:send", "session:recv"} \X SUBSET Ephemeral

SessionKeys == [send : SecretKey, recv : SecretKey, peer : {Owner[s] : s \in Session}]

\* The values of the state; an end past its first step has an ephemeral key, and
\* one that is about to derive its keys has read the other's key exchange.
TypeOK ==
  /\ pc \in [Session -> {"start", "send", "recv", "derive", "serving", "failed", "ended"}]
  /\ eph \in [Session -> Ephemeral \cup {None}]
  /\ \A s \in Session : pc[s] # "start" => eph[s] # None
  /\ out \in [Session -> Exchange \cup {None}]
  /\ got \in [Session -> Exchange \cup {None}]
  /\ \A s \in Session : pc[s] = "derive" => got[s] # None
  /\ keys \in [Session -> SessionKeys \cup {None}]
  /\ lost \subseteq Session

\* Two ends of a connection that have both derived keys have the same two keys, each
\* sends with the one the other receives with, and each knows the other's static key:
\* the state in which SecureChannel starts (deriveKeys, the labels swapped by role).
Agreement ==
  \A s \in Session : keys[s] # None /\ keys[Peer[s]] # None =>
    /\ keys[s].send = keys[Peer[s]].recv
    /\ keys[s].send # keys[s].recv
    /\ keys[s].peer = Owner[Peer[s]]

\* No key is shared with another connection, not even by the same two clients, so
\* that nonces may start at 0 on each of them (handshake generates a key per session).
KeysAreFresh ==
  \A s, t \in Session : keys[s] # None /\ keys[t] # None /\ t \notin {s, Peer[s]} =>
    {keys[s].send, keys[s].recv} \cap {keys[t].send, keys[t].recv} = {}

\* An initiator that has keys, and goes on to save the peer and flush its outbox, does
\* not face a responder whose handshake failed: the responder does nothing that can
\* fail after it has written its key exchange (the order of doRecv and doSend).
InitiatorNotAlone ==
  \A s \in Initiators \cap Session : keys[s] # None => pc[Peer[s]] # "failed"

\* A handshake comes to an end although the peer never answers: both waits of it have
\* deadlines (doSend, doRecv).
HandshakeEnds == \A s \in Live : <>(pc[s] \in {"serving", "failed", "ended"})

\* A session does not outlive the failed handshake of the other end: a responder that
\* is left alone by a timeout of the initiator notices the closed socket.
HalfOpenEnds == \A s \in Live : (pc[Peer[s]] = "failed") ~> Over(s)
==================================================================================
