----------------------------- MODULE HandshakeProofs -----------------------------
(* Proofs about Handshake, for any number of clients and connections. *)
EXTENDS Handshake, TLAPS

USE ZenonT(1), SMTT(30)

(* Type correctness. *)

LEMMA InitTypeOK == Init => TypeOK
BY DEF Init, TypeOK

LEMMA NextTypeOK == TypeOK /\ [Next]_vars => TypeOK'
<1> SUFFICES ASSUME TypeOK, [Next]_vars PROVE TypeOK'
  OBVIOUS
<1> USE HandshakeAssumption DEF TypeOK, Step
<1>1. ASSUME NEW s \in Session, Generate(s) PROVE TypeOK'
  BY <1>1 DEF Generate, AfterGenerate
<1>2. ASSUME NEW s \in Session, DoSend(s) PROVE TypeOK'
  <2>1. eph[s] \in Ephemeral
    BY <1>2 DEF DoSend
  <2>2. KeyExchange(s) \in Exchange
    BY <2>1 DEF KeyExchange, Exchange
  <2> QED
    BY <1>2, <2>2 DEF DoSend
<1>3. ASSUME NEW s \in Session, DoSendFails(s) \/ DoRecvFails(s) \/ ReadFails(s) PROVE TypeOK'
  BY <1>3 DEF DoSendFails, DoRecvFails, ReadFails
<1>4. ASSUME NEW s \in Session, DoRecv(s) PROVE TypeOK'
  BY <1>4 DEF DoRecv
<1>5. ASSUME NEW s \in Session, Derive(s) PROVE TypeOK'
  <2>1. got[s] \in Exchange /\ eph[s] \in Ephemeral
    BY <1>5 DEF Derive
  <2>2. got[s].pub \in Ephemeral /\ got[s].static \in {Owner[t] : t \in Session}
    BY <2>1 DEF Exchange
  <2>3. DeriveKeys(s, got[s]) \in SessionKeys
    BY <2>1, <2>2 DEF DeriveKeys, Label, SessionKeys, SecretKey
  <2> QED
    BY <1>5, <2>3 DEF Derive
<1>6. ASSUME NEW s \in Session, Lose(s) PROVE TypeOK'
  BY <1>6 DEF Lose
<1>7. CASE UNCHANGED vars
  BY <1>7 DEF vars
<1> QED
  BY <1>1, <1>2, <1>3, <1>4, <1>5, <1>6, <1>7 DEF Next, Handshake

\* Whatever is written, read or lost, the state keeps its type, and no end is past the
\* generation of its ephemeral key without having one.
THEOREM TypeCorrect == Spec => []TypeOK
BY InitTypeOK, NextTypeOK, PTL DEF Spec

----------------------------------------------------------------------------------
(* Where an end's values come from.  What is in flight or has been read is the key      *)
(* exchange of the end it belongs to; the keys are made from the two ephemeral keys of  *)
(* the connection; and no two ends have the same ephemeral key.  Ephemeral keys are      *)
(* never changed, so that all of this stays true of the values already handed over.     *)

Sent(s, d) == eph[s] # None /\ d = KeyExchange(s)

InFlight == \A s \in Session : out[s] # None => Sent(s, out[s])

ReadFromPeer == \A s \in Session : got[s] # None => Sent(Peer[s], got[s])

DerivedFromBoth ==
  \A s \in Session : keys[s] # None =>
    /\ eph[s] # None /\ eph[Peer[s]] # None
    /\ keys[s] = DeriveKeys(s, KeyExchange(Peer[s]))

OwnEphemeral ==
  /\ \A s, t \in Session : eph[s] # None /\ eph[s] = eph[t] => s = t
  /\ \A s \in Session : pc[s] = "start" => eph[s] = None

OriginInv == InFlight /\ ReadFromPeer /\ DerivedFromBoth /\ OwnEphemeral

LEMMA InitOriginInv == Init => OriginInv
BY DEF Init, OriginInv, InFlight, ReadFromPeer, DerivedFromBoth, OwnEphemeral

(* A step that keeps the ephemeral keys there are keeps what was made from them. *)
LEMMA EphemeralKept ==
  ASSUME TypeOK, \A t \in Session : eph[t] # None => eph'[t] = eph[t]
  PROVE  /\ \A t \in Session : \A d : Sent(t, d) => Sent(t, d)'
         /\ DerivedFromBoth /\ UNCHANGED keys => DerivedFromBoth'
<1>1. \A t \in Session : eph[t] # None => KeyExchange(t)' = KeyExchange(t)
  BY DEF KeyExchange
<1>2. \A t \in Session : \A d : Sent(t, d) => Sent(t, d)'
  BY <1>1 DEF Sent
<1>3. ASSUME DerivedFromBoth, UNCHANGED keys PROVE DerivedFromBoth'
  <2>1. ASSUME NEW t \in Session, keys'[t] # None
        PROVE  /\ eph'[t] # None /\ eph'[Peer[t]] # None
               /\ keys'[t] = DeriveKeys(t, KeyExchange(Peer[t]))'
    <3>1. eph[t] # None /\ eph[Peer[t]] # None /\ Peer[t] \in Session
      BY <1>3, <2>1, HandshakeAssumption DEF DerivedFromBoth
    <3>2. DeriveKeys(t, KeyExchange(Peer[t]))' = DeriveKeys(t, KeyExchange(Peer[t]))
      BY <1>1, <3>1 DEF DeriveKeys, Label
    <3> QED
      BY <1>3, <2>1, <3>1, <3>2 DEF DerivedFromBoth
  <2> QED
    BY <2>1 DEF DerivedFromBoth
<1> QED
  BY <1>2, <1>3

LEMMA NextOriginInv == TypeOK /\ OriginInv /\ [Next]_vars => OriginInv'
<1> SUFFICES ASSUME TypeOK, OriginInv, [Next]_vars PROVE OriginInv'
  OBVIOUS
<1> USE HandshakeAssumption DEF OriginInv, Step
<1>1. ASSUME NEW s \in Session, Generate(s) PROVE OriginInv'
  <2>1. PICK k \in Ephemeral : Fresh(k) /\ eph' = [eph EXCEPT ![s] = k]
    BY <1>1, ZenonT(30) DEF Generate
  <2>2. \A t \in Session : eph[t] # None => eph'[t] = eph[t]
    BY <1>1, <2>1 DEF Generate, OwnEphemeral, TypeOK
  <2>3. /\ pc' = [pc EXCEPT ![s] = AfterGenerate(s)]
        /\ AfterGenerate(s) \in {"send", "recv"}
        /\ UNCHANGED <<out, got, keys>>
    BY <1>1 DEF Generate, AfterGenerate
  <2>4. InFlight' /\ ReadFromPeer' /\ DerivedFromBoth'
    BY <2>2, <2>3, EphemeralKept DEF InFlight, ReadFromPeer
  <2>5. OwnEphemeral'
    BY <2>1, <2>3 DEF OwnEphemeral, Fresh, TypeOK
  <2> QED
    BY <2>4, <2>5
<1>2. ASSUME NEW s \in Session, DoSend(s) PROVE OriginInv'
  <2>1. Sent(s, KeyExchange(s))
    BY <1>2 DEF DoSend, Sent, TypeOK
  <2>2. \A t \in Session : eph[t] # None => eph'[t] = eph[t]
    BY <1>2 DEF DoSend
  <2>3. InFlight'
    BY <1>2, <2>1, <2>2, EphemeralKept DEF DoSend, InFlight, TypeOK
  <2>4. ReadFromPeer' /\ DerivedFromBoth'
    BY <1>2, <2>2, EphemeralKept DEF DoSend, ReadFromPeer
  <2>5. OwnEphemeral'
    BY <1>2 DEF DoSend, OwnEphemeral, TypeOK
  <2> QED
    BY <2>3, <2>4, <2>5
<1>3. ASSUME NEW s \in Session, DoSendFails(s) \/ DoRecvFails(s) \/ ReadFails(s)
      PROVE OriginInv'
  <2>1. UNCHANGED <<eph, out, got, keys>>
    BY <1>3 DEF DoSendFails, DoRecvFails, ReadFails
  <2>2. InFlight' /\ ReadFromPeer' /\ DerivedFromBoth'
    BY <2>1, EphemeralKept DEF InFlight, ReadFromPeer
  <2>3. OwnEphemeral'
    BY <1>3, <2>1 DEF DoSendFails, DoRecvFails, ReadFails, OwnEphemeral, TypeOK
  <2> QED
    BY <2>2, <2>3
<1>4. ASSUME NEW s \in Session, DoRecv(s) PROVE OriginInv'
  <2>1. \A t \in Session : eph[t] # None => eph'[t] = eph[t]
    BY <1>4 DEF DoRecv
  <2>2. InFlight'
    BY <1>4, <2>1, EphemeralKept DEF DoRecv, InFlight, TypeOK
  <2>3. ReadFromPeer'
    BY <1>4, <2>1, EphemeralKept DEF DoRecv, InFlight, ReadFromPeer, TypeOK
  <2>4. DerivedFromBoth'
    BY <1>4, <2>1, EphemeralKept DEF DoRecv
  <2>5. OwnEphemeral'
    BY <1>4 DEF DoRecv, OwnEphemeral, TypeOK
  <2> QED
    BY <2>2, <2>3, <2>4, <2>5
<1>5. ASSUME NEW s \in Session, Derive(s) PROVE OriginInv'
  <2>1. got[s] = KeyExchange(Peer[s]) /\ eph[Peer[s]] # None
    BY <1>5 DEF Derive, TypeOK, ReadFromPeer, Sent
  <2>2. eph[s] # None /\ UNCHANGED eph
    BY <1>5 DEF Derive, TypeOK
  <2>3. keys' = [keys EXCEPT ![s] = DeriveKeys(s, KeyExchange(Peer[s]))]
    BY <1>5, <2>1 DEF Derive
  <2>4. \A t \in Session : DeriveKeys(t, KeyExchange(Peer[t]))' = DeriveKeys(t, KeyExchange(Peer[t]))
    BY <2>2 DEF DeriveKeys, Label, KeyExchange
  <2>5. DerivedFromBoth'
    BY <2>1, <2>2, <2>3, <2>4 DEF DerivedFromBoth, TypeOK
  <2>6. InFlight' /\ ReadFromPeer'
    BY <1>5, <2>2, EphemeralKept DEF Derive, InFlight, ReadFromPeer
  <2>7. OwnEphemeral'
    BY <1>5 DEF Derive, OwnEphemeral, TypeOK
  <2> QED
    BY <2>5, <2>6, <2>7
<1>6. ASSUME NEW s \in Session, Lose(s) PROVE OriginInv'
  <2>1. UNCHANGED <<pc, eph, got, keys>>
    BY <1>6 DEF Lose
  <2>2. InFlight'
    BY <1>6, EphemeralKept DEF Lose, InFlight, TypeOK
  <2>3. ReadFromPeer' /\ DerivedFromBoth' /\ OwnEphemeral'
    BY <2>1, EphemeralKept DEF ReadFromPeer, OwnEphemeral
  <2> QED
    BY <2>2, <2>3
<1>7. CASE UNCHANGED vars
  BY <1>7, EphemeralKept DEF vars, InFlight, ReadFromPeer, OwnEphemeral
<1> QED
  BY <1>1, <1>2, <1>3, <1>4, <1>5, <1>6, <1>7 DEF Next, Handshake

LEMMA OriginHolds == Spec => []OriginInv
BY InitOriginInv, NextOriginInv, TypeCorrect, PTL DEF Spec
\* The ends of a connection that have both derived keys agree on them and on who the
\* other is.  ECDH is commutative, the labels are swapped by role, and both ends have
\* read the key exchange the other has written (OriginInv).
THEOREM KeysAgree == Spec => []Agreement
<1>1. TypeOK /\ OriginInv => Agreement
  <2> SUFFICES ASSUME TypeOK, OriginInv,
                      NEW s \in Session, keys[s] # None, keys[Peer[s]] # None
               PROVE  /\ keys[s].send = keys[Peer[s]].recv
                      /\ keys[s].send # keys[s].recv
                      /\ keys[s].peer = Owner[Peer[s]]
    BY DEF Agreement
  <2>1. Peer[s] \in Session /\ Peer[Peer[s]] = s /\ (s \in Initiators) # (Peer[s] \in Initiators)
    BY HandshakeAssumption
  <2>2. /\ keys[s] = DeriveKeys(s, KeyExchange(Peer[s]))
        /\ keys[Peer[s]] = DeriveKeys(Peer[s], KeyExchange(s))
    BY <2>1 DEF OriginInv, DerivedFromBoth
  <2>3. {eph[s], eph[Peer[s]]} = {eph[Peer[s]], eph[s]}
    OBVIOUS
  <2>4. CASE s \in Initiators
    BY <2>1, <2>2, <2>3, <2>4 DEF DeriveKeys, KeyExchange, Label
  <2>5. CASE s \notin Initiators
    BY <2>1, <2>2, <2>3, <2>5 DEF DeriveKeys, KeyExchange, Label
  <2> QED
    BY <2>4, <2>5
<1> QED
  BY <1>1, TypeCorrect, OriginHolds, PTL

\* Sessions of different connections have no key in common: their secrets are made of
\* ephemeral keys that no two ends share.
THEOREM KeysAreOwn == Spec => []KeysAreFresh
<1>1. TypeOK /\ OriginInv => KeysAreFresh
  <2> SUFFICES ASSUME TypeOK, OriginInv, NEW s \in Session, NEW t \in Session,
                      keys[s] # None, keys[t] # None, t \notin {s, Peer[s]}
               PROVE  {keys[s].send, keys[s].recv} \cap {keys[t].send, keys[t].recv} = {}
    BY DEF KeysAreFresh
  <2> DEFINE Secret(u) == {eph[u], eph[Peer[u]]}
  <2>1. /\ Peer[s] \in Session /\ Peer[t] \in Session
        /\ keys[s] = DeriveKeys(s, KeyExchange(Peer[s])) /\ eph[s] # None
        /\ keys[t] = DeriveKeys(t, KeyExchange(Peer[t])) /\ eph[t] # None
    BY HandshakeAssumption DEF OriginInv, DerivedFromBoth
  <2>2. eph[t] \notin Secret(s)
    BY <2>1 DEF OriginInv, OwnEphemeral
  <2>3. Secret(s) # Secret(t)
    BY <2>2
  <2>4. /\ keys[s].send[2] = Secret(s) /\ keys[s].recv[2] = Secret(s)
        /\ keys[t].send[2] = Secret(t) /\ keys[t].recv[2] = Secret(t)
    BY <2>1 DEF DeriveKeys, KeyExchange, Label
  <2> QED
    BY <2>3, <2>4
<1> QED
  BY <1>1, TypeCorrect, OriginHolds, PTL

----------------------------------------------------------------------------------
(* The responder is past everything that can fail once the initiator can have heard     *)
(* of it: its key exchange is written last.                                            *)

Committed(s) == pc[s] \in {"derive", "serving", "ended"}

OrderInv ==
  /\ \A s \in Session : keys[s] # None => got[s] # None
  /\ \A s \in Session : pc[s] = "send" /\ s \notin Initiators => got[s] # None
  /\ \A s \in Initiators \cap Session :
       out[Peer[s]] # None \/ got[s] # None => Committed(Peer[s])

LEMMA NextOrderInv == TypeOK /\ OrderInv /\ [Next]_vars => OrderInv'
<1> SUFFICES ASSUME TypeOK, OrderInv, [Next]_vars PROVE OrderInv'
  OBVIOUS
<1> USE HandshakeAssumption DEF TypeOK, OrderInv, Committed, Step
<1>1. ASSUME NEW s \in Session, Generate(s) PROVE OrderInv'
  BY <1>1 DEF Generate, AfterGenerate
<1>2. ASSUME NEW s \in Session, DoSend(s) PROVE OrderInv'
  BY <1>2 DEF DoSend
<1>3. ASSUME NEW s \in Session, DoSendFails(s) \/ DoRecvFails(s) \/ ReadFails(s)
      PROVE OrderInv'
  BY <1>3 DEF DoSendFails, DoRecvFails, ReadFails
<1>4. ASSUME NEW s \in Session, DoRecv(s) PROVE OrderInv'
  BY <1>4 DEF DoRecv
<1>5. ASSUME NEW s \in Session, Derive(s) PROVE OrderInv'
  BY <1>5 DEF Derive
<1>6. ASSUME NEW s \in Session, Lose(s) PROVE OrderInv'
  BY <1>6 DEF Lose
<1>7. CASE UNCHANGED vars
  BY <1>7 DEF vars
<1> QED
  BY <1>1, <1>2, <1>3, <1>4, <1>5, <1>6, <1>7 DEF Next, Handshake

\* An initiator with keys never faces a responder whose handshake failed, in any number
\* of concurrent handshakes and wherever connections are lost.
THEOREM InitiatorHasAPeer == Spec => []InitiatorNotAlone
<1>1. Init => OrderInv
  BY HandshakeAssumption DEF Init, OrderInv
<1>2. OrderInv => InitiatorNotAlone
  BY DEF OrderInv, InitiatorNotAlone, Committed
<1> QED
  BY <1>1, <1>2, TypeCorrect, NextOrderInv, PTL DEF Spec
==================================================================================
