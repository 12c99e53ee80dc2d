-------------------------- MODULE SecureChannelProofs --------------------------
(* Proofs about SecureChannel for every set of plaintexts, every number of       *)
(* sending goroutines and every number of calls of encrypt.                      *)
EXTENDS SecureChannel, FiniteSetTheorems, TLAPS

\* Most leaves are propositional or about sets: Zenon first, which is the faster one there.
USE ZenonT(1), SMTT(30)

--------------------------------------------------------------------------------
(* Type correctness. *)

\* The two ends are each other's peers.
LEMMA PeerFacts ==
  ASSUME NEW e \in End
  PROVE  /\ Peer(e) \in End
         /\ Peer(e) # e
         /\ Peer(Peer(e)) = e
  BY DEF Peer, End

\* Dropping the head, or any tail, of a wire leaves a wire.
LEMMA WireFacts ==
  ASSUME NEW s \in Seq(Frame)
  PROVE  /\ s # <<>> => /\ Head(s) \in Frame
                        /\ Tail(s) \in Seq(Frame)
                        /\ Len(Tail(s)) = Len(s) - 1
                        /\ Head(s) = s[1]
                        /\ \A i \in 1 .. Len(Tail(s)) : Tail(s)[i] = s[i + 1]
         /\ \A n \in 0 .. Len(s) : /\ SubSeq(s, 1, n) \in Seq(Frame)
                                   /\ Len(SubSeq(s, 1, n)) = n
                                   /\ \A i \in 1 .. n : SubSeq(s, 1, n)[i] = s[i]
  OBVIOUS

\* Advancing and erasing a cipher state leaves a cipher state.
LEMMA CipherStateFacts ==
  ASSUME NEW c \in CipherState
  PROVE  /\ Advance(c) \in CipherState
         /\ Count(c) \in CipherState
         /\ WipedState(c) \in CipherState
         /\ c.nonce \in Nat
  BY DEF CipherState, Advance, Count, WipedState, NilKey

\* The fields of a frame, and the frame that Seal builds.
LEMMA FrameFacts ==
  /\ \A f \in Frame : f.nonce \in Nat /\ f.plain \in Plain /\ f.key \in FrameKey
  /\ \A s \in CipherState : KeyBytes(s.key) \subseteq FrameKey
  /\ \A k \in FrameKey, n \in Nat, p \in Plain :
       [key |-> k, nonce |-> n, plain |-> p] \in Frame
  BY DEF Frame, CipherState, FrameKey, KeyBytes, NilKey, ZeroKey, TornKey

\* What LinkDown leaves of a wire is a beginning of it.
LEMMA CutFacts ==
  ASSUME TypeOK, LinkDown, NEW e \in End
  PROVE  /\ wire' \in [End -> Seq(Frame)]
         /\ Len(wire'[e]) <= Len(wire[e])
         /\ \A i \in 1 .. Len(wire'[e]) : /\ i \in 1 .. Len(wire[e])
                                          /\ wire'[e][i] = wire[e][i]
<1>1. PICK i \in 0 .. Len(wire["initiator"]), r \in 0 .. Len(wire["responder"]) :
        wire' = [d \in End |-> SubSeq(wire[d], 1, IF d = "initiator" THEN i ELSE r)]
  BY DEF LinkDown
<1> DEFINE cut(d) == IF d = "initiator" THEN i ELSE r
<1>2. ASSUME NEW d \in End
      PROVE  wire[d] \in Seq(Frame) /\ cut(d) \in 0 .. Len(wire[d])
  BY DEF TypeOK, End
<1>3. \A d \in End : wire'[d] = SubSeq(wire[d], 1, cut(d))
  BY <1>1
<1> HIDE DEF cut
<1>4. ASSUME NEW d \in End
      PROVE  /\ wire'[d] \in Seq(Frame)
             /\ Len(wire'[d]) = cut(d)
             /\ \A j \in 1 .. cut(d) : wire'[d][j] = wire[d][j]
  <2>1. wire[d] \in Seq(Frame) /\ cut(d) \in 0 .. Len(wire[d])
    BY <1>2
  <2>2. /\ SubSeq(wire[d], 1, cut(d)) \in Seq(Frame)
        /\ Len(SubSeq(wire[d], 1, cut(d))) = cut(d)
        /\ \A j \in 1 .. cut(d) : SubSeq(wire[d], 1, cut(d))[j] = wire[d][j]
    BY <2>1, WireFacts
  <2> QED
    BY <1>3, <2>2, ZenonT(30)
<1>5. wire' \in [End -> Seq(Frame)]
  BY <1>1, <1>4
<1>6. wire[e] \in Seq(Frame) /\ cut(e) \in 0 .. Len(wire[e])
  BY <1>2
<1> QED
  BY <1>4, <1>5, <1>6

\* The initial state is well typed.
LEMMA InitTypeOK == Init => TypeOK
  BY DEF Init, TypeOK, CipherState, DeriveKeys, SessionKey, End

\* Each action keeps the types.
LEMMA NextTypeOK == TypeOK /\ [Next]_vars => TypeOK'
<1> SUFFICES ASSUME TypeOK, [Next]_vars
             PROVE  TypeOK'
  OBVIOUS
<1> USE DEF TypeOK
<1>1. ASSUME NEW e \in End, NEW p \in Plain, Encrypt(e, p)
      PROVE  TypeOK'
  BY <1>1, CipherStateFacts DEF Encrypt
<1>2. ASSUME NEW e \in End, NEW c \in sealing[e], Seal(e, c)
      PROVE  TypeOK'
  <2>1. c.nonce \in Nat /\ c.plain \in Plain
    OBVIOUS
  <2>2. PICK k \in KeyBytes(sendr[e].key) :
          LET f == [key |-> k, nonce |-> c.nonce, plain |-> c.plain]
          IN  /\ writing' = [writing EXCEPT ![e] = @ \cup {f}]
              /\ sealed' = sealed \cup {f}
    BY <1>2, ZenonT(30) DEF Seal
  <2>3. [key |-> k, nonce |-> c.nonce, plain |-> c.plain] \in Frame
    <3>1. sendr[e] \in CipherState
      OBVIOUS
    <3>2. k \in FrameKey
      BY <3>1, FrameFacts
    <3> QED
      BY <2>1, <3>1, <3>2, FrameFacts
  <2>4. writing' \in [End -> SUBSET Frame] /\ sealed' \in SUBSET Frame
    BY <2>2, <2>3
  <2>5. sealing' \in [End -> SUBSET [nonce : Nat, plain : Plain]]
    BY <1>2 DEF Seal
  <2> QED
    BY <1>2, <2>4, <2>5 DEF Seal
<1>3. ASSUME NEW e \in End, NEW f \in writing[e], Write(e, f)
      PROVE  TypeOK'
  BY <1>3 DEF Write, ends, history
<1>4. ASSUME NEW e \in End, ReadFrame(e) \/ RefuseFrame(e)
      PROVE  TypeOK'
  <2>1. /\ Peer(e) \in End
        /\ Head(wire[Peer(e)]) \in Frame
        /\ Tail(wire[Peer(e)]) \in Seq(Frame)
    BY <1>4, PeerFacts, WireFacts DEF ReadFrame, RefuseFrame
  <2>2. CASE ReadFrame(e)
    BY <2>1, <2>2 DEF ReadFrame, ends, history
  <2>3. CASE RefuseFrame(e)
    BY <2>1, <2>3 DEF RefuseFrame, ends
  <2> QED
    BY <1>4, <2>2, <2>3
<1>5. ASSUME NEW e \in End, NEW f \in opening[e], OpenFrame(e, f) \/ FailToOpen(e, f)
      PROVE  TypeOK'
  <2>1. f \in Frame /\ f.plain \in Plain /\ Count(recv[e]) \in CipherState
    BY FrameFacts, CipherStateFacts
  <2>2. CASE OpenFrame(e, f)
    BY <2>1, <2>2 DEF OpenFrame
  <2>3. CASE FailToOpen(e, f)
    BY <2>1, <2>3 DEF FailToOpen, ends
  <2> QED
    BY <1>5, <2>2, <2>3
<1>6. ASSUME NEW e \in End, ReadError(e) \/ ReadTimeout(e)
      PROVE  TypeOK'
  BY <1>6, ZenonT(30) DEF ReadError, ReadTimeout, ends, history
<1>7. ASSUME NEW e \in End, CloseConn(e)
      PROVE  TypeOK'
  <2>1. CASE CloseConn_Wipe(e)
    <3>1. WipedState(sendr[e]) \in CipherState /\ WipedState(recv[e]) \in CipherState
      BY CipherStateFacts
    <3>2. sendr' \in [End -> CipherState] /\ recv' \in [End -> CipherState]
      BY <2>1, <3>1 DEF CloseConn_Wipe
    <3>3. conn' \in [End -> {"open", "wiped", "closed"}]
      BY <2>1 DEF CloseConn_Wipe
    <3> QED
      BY <2>1, <3>2, <3>3 DEF CloseConn_Wipe, history
  <2>2. CASE CloseConn_Close(e)
    BY <2>2 DEF CloseConn_Close, history
  <2> QED
    BY <1>7, <2>1, <2>2 DEF CloseConn
<1>8. CASE LinkDown
  <2>1. wire' \in [End -> Seq(Frame)]
    BY <1>8, CutFacts DEF End
  <2> QED
    BY <1>8, <2>1 DEF LinkDown, history
<1>9. CASE UNCHANGED vars
  BY <1>9 DEF vars
<1> QED
  BY <1>1, <1>2, <1>3, <1>4, <1>5, <1>6, <1>7, <1>8, <1>9
  DEF Next, Send, ReadLoop, Decrypt

\* The state of a session keeps its types in every behaviour.
THEOREM TypeCorrect == Spec => []TypeOK
  BY InitTypeOK, NextTypeOK, PTL DEF Spec

--------------------------------------------------------------------------------
(* The inductive invariant behind NonceUsedOnce and PrefixDelivery.              *)

\* A cipher state holds the key deriveKeys gave it, or nothing.
KeysInv ==
  \A e \in End : /\ sendr[e].key \in {DeriveKeys(e).send, NilKey}
                 /\ recv[e].key \in {DeriveKeys(e).recv, NilKey}

\* The counters count what took a nonce and what was delivered.
CountInv ==
  \A e \in End : /\ sendr[e].nonce = Len(taken[e])
                 /\ recv[e].nonce = Len(delivered[e])

\* x carries the plaintext that took its nonce, q being the plaintexts in the order
\* in which they took theirs.
Took(q, x) == /\ x.nonce < Len(q)
              /\ x.plain = q[x.nonce + 1]

\* Everything on its way from e carries what took its nonce.
CarriesInv ==
  \A e \in End : /\ \A c \in sealing[e] : Took(taken[e], c)
                 /\ \A f \in writing[e] : Took(taken[e], f)
                 /\ \A i \in 1 .. Len(wire[e]) : Took(taken[e], wire[e][i])
                 /\ \A f \in opening[Peer(e)] : Took(taken[e], f)

\* So does everything ever sealed under the key of that direction.
SealedInv ==
  \A e \in End : \A f \in sealed : f.key = DeriveKeys(e).send => Took(taken[e], f)

\* The frame being opened is the one the receiver waits for.
CheckedInv == \A e \in End : \A f \in opening[e] : f.nonce = recv[e].nonce

OrderInv == TypeOK /\ KeysInv /\ CountInv /\ CarriesInv /\ SealedInv /\ CheckedInv

\* What took a nonce keeps it when another plaintext takes the next one.
LEMMA TookStable ==
  ASSUME NEW q \in Seq(Plain), NEW p \in Plain, NEW x, x.nonce \in Nat, Took(q, x)
  PROVE  Took(Append(q, p), x)
<1>1. /\ Len(Append(q, p)) = Len(q) + 1
      /\ \A i \in 1 .. Len(q) : Append(q, p)[i] = q[i]
  OBVIOUS
<1> QED
  BY <1>1 DEF Took

\* The initial state satisfies the invariant.
LEMMA InitOrderInv == Init => OrderInv
<1> SUFFICES ASSUME Init PROVE OrderInv
  OBVIOUS
<1>1. TypeOK
  BY InitTypeOK
<1>2. KeysInv /\ CountInv /\ SealedInv
  BY DEF Init, KeysInv, CountInv, SealedInv
<1>3. CarriesInv /\ CheckedInv
  BY PeerFacts DEF Init, CarriesInv, CheckedInv
<1> QED
  BY <1>1, <1>2, <1>3 DEF OrderInv

\* Each action keeps the invariant.
LEMMA NextOrderInv == OrderInv /\ [Next]_vars => OrderInv'
<1> SUFFICES ASSUME OrderInv, [Next]_vars
             PROVE  OrderInv'
  OBVIOUS
<1>0. TypeOK /\ TypeOK'
  BY NextTypeOK DEF OrderInv
<1>1. ASSUME NEW e \in End, NEW p \in Plain, Encrypt(e, p)
      PROVE  OrderInv'
  <2> DEFINE c == [nonce |-> sendr[e].nonce, plain |-> p]
  <2>1. KeysInv'
    BY <1>0, <1>1 DEF OrderInv, KeysInv, TypeOK, Encrypt, Advance
  <2>2. taken[e] \in Seq(Plain) /\ sendr[e].nonce = Len(taken[e])
    BY <1>0 DEF OrderInv, CountInv, TypeOK
  <2>3. /\ Len(taken'[e]) = Len(taken[e]) + 1
        /\ taken'[e][Len(taken[e]) + 1] = p
    BY <1>0, <1>1, <2>2 DEF Encrypt, TypeOK
  <2>4. CountInv'
    BY <1>0, <1>1, <2>3 DEF OrderInv, CountInv, TypeOK, Encrypt, Advance
  <2>5. ASSUME NEW d \in End, NEW x, x.nonce \in Nat, Took(taken[d], x)
        PROVE  Took(taken'[d], x)
    <3>1. taken[d] \in Seq(Plain)
      BY <1>0 DEF TypeOK
    <3>2. taken'[d] = taken[d] \/ taken'[d] = Append(taken[d], p)
      BY <1>0, <1>1 DEF Encrypt, TypeOK
    <3> QED
      BY <2>5, <3>1, <3>2, TookStable, ZenonT(30)
  <2>6. CarriesInv'
    <3> SUFFICES ASSUME NEW d \in End
                 PROVE  /\ \A b \in sealing'[d] : Took(taken'[d], b)
                        /\ \A f \in writing[d] : Took(taken'[d], f)
                        /\ \A i \in 1 .. Len(wire[d]) : Took(taken'[d], wire[d][i])
                        /\ \A f \in opening[Peer(d)] : Took(taken'[d], f)
      BY <1>1 DEF CarriesInv, Encrypt
    <3>1. Took(taken'[e], c)
      BY <2>2, <2>3 DEF Took
    <3>2. \A b \in sealing[d] : b.nonce \in Nat /\ Took(taken[d], b)
      BY <1>0 DEF OrderInv, CarriesInv, TypeOK
    <3>3. \A b \in sealing'[d] : b \in sealing[d] \/ (d = e /\ b = c)
      BY <1>0, <1>1 DEF Encrypt, TypeOK
    <3>4. \A b \in sealing'[d] : Took(taken'[d], b)
      <4> HIDE DEF c
      <4> QED
        BY <2>5, <3>1, <3>2, <3>3
    <3>5. \A f \in writing[d] : f.nonce \in Nat /\ Took(taken[d], f)
      BY <1>0, FrameFacts DEF OrderInv, CarriesInv, TypeOK
    <3>6. ASSUME NEW i \in 1 .. Len(wire[d])
          PROVE  wire[d][i].nonce \in Nat /\ Took(taken[d], wire[d][i])
      <4>1. wire[d] \in Seq(Frame)
        BY <1>0 DEF TypeOK
      <4>2. wire[d][i] \in Frame
        BY <4>1
      <4> QED
        BY <4>2, FrameFacts DEF OrderInv, CarriesInv
    <3>7. \A f \in opening[Peer(d)] : f.nonce \in Nat /\ Took(taken[d], f)
      BY <1>0, FrameFacts, PeerFacts DEF OrderInv, CarriesInv, TypeOK
    <3> QED
      BY <2>5, <3>4, <3>5, <3>6, <3>7
  <2>7. SealedInv'
    BY <1>0, <1>1, <2>5, FrameFacts DEF OrderInv, SealedInv, TypeOK, Encrypt
  <2>8. CheckedInv'
    BY <1>1 DEF OrderInv, CheckedInv, Encrypt
  <2> QED
    BY <1>0, <2>1, <2>4, <2>6, <2>7, <2>8 DEF OrderInv
<1>2. ASSUME NEW e \in End, NEW c \in sealing[e], Seal(e, c)
      PROVE  OrderInv'
  <2>1. PICK k \in KeyBytes(sendr[e].key) :
          LET f == [key |-> k, nonce |-> c.nonce, plain |-> c.plain]
          IN  /\ writing' = [writing EXCEPT ![e] = @ \cup {f}]
              /\ sealed' = sealed \cup {f}
    BY <1>2, ZenonT(30) DEF Seal
  <2> DEFINE f == [key |-> k, nonce |-> c.nonce, plain |-> c.plain]
  <2>2. Took(taken[e], f)
    BY DEF OrderInv, CarriesInv, Took
  <2>3. taken' = taken
    BY <1>2 DEF Seal
  <2>4. \A d \in End : f.key = DeriveKeys(d).send => d = e
    BY DEF OrderInv, KeysInv, KeyBytes, NilKey, ZeroKey, TornKey, DeriveKeys, End
  <2>5. KeysInv' /\ CountInv' /\ CheckedInv'
    BY <1>2 DEF OrderInv, KeysInv, CountInv, CheckedInv, Seal
  <2>6. SealedInv'
    BY <2>1, <2>2, <2>3, <2>4 DEF OrderInv, SealedInv
  <2>7. CarriesInv'
    <3>1. \A d \in End : /\ sealing'[d] \subseteq sealing[d]
                         /\ \A g \in writing'[d] : g \in writing[d] \/ (d = e /\ g = f)
      BY <1>0, <1>2, <2>1 DEF Seal, TypeOK
    <3>2. wire' = wire /\ opening' = opening
      BY <1>2 DEF Seal
    <3> QED
      BY <2>2, <2>3, <3>1, <3>2 DEF OrderInv, CarriesInv
  <2> QED
    BY <1>0, <2>5, <2>6, <2>7 DEF OrderInv
<1>3. ASSUME NEW e \in End, NEW f \in writing[e], Write(e, f)
      PROVE  OrderInv'
  <2>1. taken' = taken
    BY <1>3 DEF Write, history
  <2>2. KeysInv' /\ CountInv' /\ SealedInv' /\ CheckedInv'
    BY <1>3, <2>1 DEF OrderInv, KeysInv, CountInv, SealedInv, CheckedInv, Write, ends,
                      history
  <2>3. ASSUME NEW d \in End, NEW i \in 1 .. Len(wire'[d])
        PROVE  Took(taken[d], wire'[d][i])
    <3>1. wire[d] \in Seq(Frame) /\ f \in Frame
      BY <1>0 DEF TypeOK
    <3>2. wire'[d] = wire[d] \/ (d = e /\ wire'[d] = Append(wire[d], f))
      BY <1>0, <1>3 DEF Write, TypeOK
    <3>3. (i \in 1 .. Len(wire[d]) /\ wire'[d][i] = wire[d][i]) \/ (d = e /\ wire'[d][i] = f)
      BY <3>1, <3>2
    <3> QED
      BY <3>3 DEF OrderInv, CarriesInv
  <2>4. CarriesInv'
    <3>1. \A d \in End : writing'[d] \subseteq writing[d]
      BY <1>0, <1>3 DEF Write, TypeOK
    <3>2. sealing' = sealing /\ opening' = opening
      BY <1>3 DEF Write
    <3> QED
      BY <2>1, <2>3, <3>1, <3>2 DEF OrderInv, CarriesInv
  <2> QED
    BY <1>0, <2>2, <2>4 DEF OrderInv
<1>4. ASSUME NEW e \in End, ReadFrame(e) \/ RefuseFrame(e)
      PROVE  OrderInv'
  <2> DEFINE s == Peer(e)
  <2>1. taken' = taken
    BY <1>4 DEF ReadFrame, RefuseFrame, history
  <2>2. KeysInv' /\ CountInv' /\ SealedInv'
    BY <1>4, <2>1 DEF OrderInv, KeysInv, CountInv, SealedInv, ReadFrame, RefuseFrame, ends,
                      history
  <2>3. /\ s \in End
        /\ Peer(s) = e
        /\ wire[s] \in Seq(Frame)
        /\ wire[s] # <<>>
    BY <1>0, <1>4, PeerFacts DEF ReadFrame, RefuseFrame, TypeOK
  <2>9. wire' = [wire EXCEPT ![s] = Tail(@)]
    BY <1>4 DEF ReadFrame, RefuseFrame
  <2>4. Took(taken[s], Head(wire[s]))
    BY <2>3, WireFacts DEF OrderInv, CarriesInv
  <2>5. ASSUME NEW d \in End, NEW i \in 1 .. Len(wire'[d])
        PROVE  Took(taken[d], wire'[d][i])
    <3>1. CASE d = s
      <4>1. wire'[d] = Tail(wire[s])
        BY <1>0, <2>3, <2>9, <3>1 DEF TypeOK
      <4>2. i + 1 \in 1 .. Len(wire[s]) /\ wire'[d][i] = wire[s][i + 1]
        BY <2>3, <4>1, WireFacts
      <4> QED
        BY <2>3, <3>1, <4>2 DEF OrderInv, CarriesInv
    <3>2. CASE d # s
      BY <1>0, <2>9, <3>2 DEF OrderInv, CarriesInv, TypeOK
    <3> QED
      BY <3>1, <3>2
  <2>6. \A d \in End : \A f \in opening'[d] :
          f \in opening[d] \/ (d = e /\ f = Head(wire[s]) /\ f.nonce = recv[e].nonce)
    <3>1. CASE ReadFrame(e)
      BY <1>0, <3>1 DEF ReadFrame, PassesCheck, TypeOK
    <3>2. CASE RefuseFrame(e)
      BY <3>2 DEF RefuseFrame
    <3> QED
      BY <1>4, <3>1, <3>2
  <2>7. CarriesInv'
    <3>1. sealing' = sealing /\ writing' = writing
      BY <1>4 DEF ReadFrame, RefuseFrame
    <3>2. \A d \in End : \A f \in opening'[Peer(d)] : Took(taken[d], f)
      BY <2>3, <2>4, <2>6, PeerFacts DEF OrderInv, CarriesInv
    <3> QED
      BY <2>1, <2>5, <3>1, <3>2 DEF OrderInv, CarriesInv
  <2>8. CheckedInv'
    <3>1. recv' = recv
      BY <1>4 DEF ReadFrame, RefuseFrame, ends
    <3> QED
      BY <2>6, <3>1 DEF OrderInv, CheckedInv
  <2> QED
    BY <1>0, <2>2, <2>7, <2>8 DEF OrderInv
<1>5. ASSUME NEW e \in End, NEW f \in opening[e], OpenFrame(e, f) \/ FailToOpen(e, f)
      PROVE  OrderInv'
  <2>1. taken' = taken
    BY <1>5 DEF OpenFrame, FailToOpen
  <2>2. KeysInv' /\ SealedInv'
    <3>1. sendr' = sendr /\ sealed' = sealed
      BY <1>5 DEF OpenFrame, FailToOpen, ends
    <3>2. \A d \in End : recv'[d].key = recv[d].key
      <4>1. CASE OpenFrame(e, f)
        BY <1>0, <4>1 DEF OpenFrame, Count, TypeOK
      <4>2. CASE FailToOpen(e, f)
        BY <4>2 DEF FailToOpen, ends
      <4> QED
        BY <1>5, <4>1, <4>2
    <3> QED
      BY <2>1, <3>1, <3>2 DEF OrderInv, KeysInv, SealedInv
  <2>3. \A d \in End : opening'[d] = IF d = e THEN {} ELSE opening[d]
    BY <1>0, <1>5 DEF OpenFrame, FailToOpen, TypeOK
  <2>4. CarriesInv'
    <3>1. sealing' = sealing /\ writing' = writing /\ wire' = wire
      BY <1>5 DEF OpenFrame, FailToOpen
    <3> QED
      BY <2>1, <2>3, <3>1, PeerFacts DEF OrderInv, CarriesInv
  <2>5. CountInv'
    <3>1. CASE OpenFrame(e, f)
      <4>1. delivered[e] \in Seq(Plain) /\ recv[e].nonce = Len(delivered[e])
        BY <1>0 DEF OrderInv, CountInv, TypeOK
      <4>2. /\ recv'[e].nonce = recv[e].nonce + 1
            /\ Len(delivered'[e]) = Len(delivered[e]) + 1
        BY <1>0, <3>1, <4>1 DEF OpenFrame, Count, TypeOK
      <4>3. \A d \in End : d # e => recv'[d] = recv[d] /\ delivered'[d] = delivered[d]
        BY <1>0, <3>1 DEF OpenFrame, TypeOK
      <4>4. sendr' = sendr /\ taken' = taken
        BY <3>1 DEF OpenFrame
      <4> QED
        BY <4>1, <4>2, <4>3, <4>4 DEF OrderInv, CountInv
    <3>2. CASE FailToOpen(e, f)
      BY <3>2 DEF OrderInv, CountInv, FailToOpen, ends
    <3> QED
      BY <1>5, <3>1, <3>2
  <2>6. CheckedInv'
    <3>1. \A d \in End : d # e => recv'[d] = recv[d]
      BY <1>0, <1>5 DEF OpenFrame, FailToOpen, ends, TypeOK
    <3> QED
      BY <2>3, <3>1 DEF OrderInv, CheckedInv
  <2> QED
    BY <1>0, <2>2, <2>4, <2>5, <2>6 DEF OrderInv
<1>6. ASSUME NEW e \in End, ReadError(e) \/ ReadTimeout(e)
      PROVE  OrderInv'
  <2>1. UNCHANGED <<sendr, recv, sealing, writing, wire, opening, taken, sealed, delivered>>
    BY <1>6 DEF ReadError, ReadTimeout, ends, history
  <2>2. KeysInv' /\ CountInv' /\ SealedInv' /\ CheckedInv'
    BY <2>1 DEF OrderInv, KeysInv, CountInv, SealedInv, CheckedInv
  <2>3. CarriesInv'
    BY <2>1 DEF OrderInv, CarriesInv, Took
  <2> QED
    BY <1>0, <2>2, <2>3 DEF OrderInv
<1>7. ASSUME NEW e \in End, CloseConn(e)
      PROVE  OrderInv'
  <2>1. \A d \in End : /\ sendr'[d].nonce = sendr[d].nonce
                       /\ recv'[d].nonce = recv[d].nonce
                       /\ sendr'[d].key \in {sendr[d].key, NilKey}
                       /\ recv'[d].key \in {recv[d].key, NilKey}
    <3>1. CASE CloseConn_Wipe(e)
      BY <1>0, <3>1 DEF CloseConn_Wipe, WipedState, TypeOK
    <3>2. CASE CloseConn_Close(e)
      BY <3>2 DEF CloseConn_Close
    <3> QED
      BY <1>7, <3>1, <3>2 DEF CloseConn
  <2>2. UNCHANGED <<sealing, writing, wire, opening, taken, sealed, delivered>>
    BY <1>7 DEF CloseConn, CloseConn_Wipe, CloseConn_Close, history
  <2>3. KeysInv' /\ CountInv' /\ CheckedInv'
    BY <2>1, <2>2 DEF OrderInv, KeysInv, CountInv, CheckedInv
  <2>4. CarriesInv' /\ SealedInv'
    BY <2>2 DEF OrderInv, CarriesInv, SealedInv, Took
  <2> QED
    BY <1>0, <2>3, <2>4 DEF OrderInv
<1>8. CASE LinkDown
  <2>1. taken' = taken
    BY <1>8 DEF LinkDown, history
  <2>2. UNCHANGED <<sendr, recv, sealing, writing, opening, sealed, taken, delivered>>
    BY <1>8 DEF LinkDown, history
  <2>3. KeysInv' /\ CountInv' /\ SealedInv' /\ CheckedInv'
    BY <2>1, <2>2 DEF OrderInv, KeysInv, CountInv, SealedInv, CheckedInv
  <2>4. ASSUME NEW d \in End, NEW i \in 1 .. Len(wire'[d])
        PROVE  i \in 1 .. Len(wire[d]) /\ wire'[d][i] = wire[d][i]
    BY <1>0, <1>8, CutFacts
  <2>5. CarriesInv'
    BY <2>1, <2>2, <2>4 DEF OrderInv, CarriesInv
  <2> QED
    BY <1>0, <2>3, <2>5 DEF OrderInv
<1>9. CASE UNCHANGED vars
  BY <1>0, <1>9 DEF OrderInv, KeysInv, CountInv, CarriesInv, SealedInv, CheckedInv, Took, vars
<1> QED
  BY <1>1, <1>2, <1>3, <1>4, <1>5, <1>6, <1>7, <1>8, <1>9
  DEF Next, Send, ReadLoop, Decrypt

\* The invariant holds in every behaviour.
LEMMA OrderInvariant == Spec => []OrderInv
  BY InitOrderInv, NextOrderInv, PTL DEF Spec

\* encrypt never seals two plaintexts under one key and nonce, however many
\* goroutines call it at either end and whenever closeConn erases the keys.
THEOREM NoncesAreUnique == Spec => []NonceUsedOnce
<1>1. OrderInv => NonceUsedOnce
  <2> SUFFICES ASSUME OrderInv, NEW f \in sealed, NEW g \in sealed,
                      f.key = g.key, f.key \in SessionKey, f.nonce = g.nonce
               PROVE  f = g
    BY DEF NonceUsedOnce
  <2>1. PICK e \in End : f.key = DeriveKeys(e).send
    BY DEF SessionKey, DeriveKeys, End
  <2>2. f.plain = g.plain
    BY <2>1, ZenonT(30) DEF OrderInv, SealedInv, Took
  <2>3. f \in Frame /\ g \in Frame
    BY DEF OrderInv, TypeOK
  <2> QED
    BY <2>2, <2>3 DEF Frame
<1> QED
  BY <1>1, OrderInvariant, PTL

\* A step of the session is a step of the abstract channel, in either direction.
LEMMA DirectionStep ==
  ASSUME OrderInv, [Next]_vars, NEW s \in End
  PROVE  \/ \E p \in Plain : /\ taken'[s] = Append(taken[s], p)
                             /\ delivered'[Peer(s)] = delivered[Peer(s)]
         \/ /\ Len(delivered[Peer(s)]) < Len(taken[s])
            /\ delivered'[Peer(s)] =
                 Append(delivered[Peer(s)], taken[s][Len(delivered[Peer(s)]) + 1])
            /\ taken'[s] = taken[s]
         \/ taken'[s] = taken[s] /\ delivered'[Peer(s)] = delivered[Peer(s)]
<1>0. TypeOK /\ Peer(s) \in End /\ Peer(Peer(s)) = s
  BY PeerFacts DEF OrderInv
<1>1. ASSUME NEW e \in End, NEW p \in Plain, Encrypt(e, p)
      PROVE  /\ delivered' = delivered
             /\ taken'[s] = taken[s] \/ taken'[s] = Append(taken[s], p)
  BY <1>0, <1>1 DEF Encrypt, TypeOK
<1>2. ASSUME NEW e \in End, NEW f \in opening[e], OpenFrame(e, f), e = Peer(s)
      PROVE  /\ Len(delivered[e]) < Len(taken[s])
             /\ delivered'[e] = Append(delivered[e], taken[s][Len(delivered[e]) + 1])
             /\ taken' = taken
  <2>1. f.nonce = Len(delivered[e])
    BY DEF OrderInv, CheckedInv, CountInv
  <2>2. Took(taken[s], f)
    BY <1>0, <1>2 DEF OrderInv, CarriesInv
  <2>3. delivered'[e] = Append(delivered[e], f.plain) /\ taken' = taken
    BY <1>0, <1>2 DEF OpenFrame, TypeOK
  <2> QED
    BY <2>1, <2>2, <2>3 DEF Took
<1>3. ASSUME NEW e \in End, NEW f \in opening[e], OpenFrame(e, f), e # Peer(s)
      PROVE  taken' = taken /\ delivered'[Peer(s)] = delivered[Peer(s)]
  BY <1>0, <1>3 DEF OpenFrame, TypeOK
<1>4. \/ \E e \in End, p \in Plain : Encrypt(e, p)
      \/ \E e \in End : \E f \in opening[e] : OpenFrame(e, f)
      \/ taken' = taken /\ delivered' = delivered
  BY DEF Next, Send, ReadLoop, Decrypt, CloseConn, Seal, Write, ReadFrame, RefuseFrame,
         FailToOpen, ReadError, ReadTimeout, CloseConn_Wipe, CloseConn_Close, LinkDown,
         vars, history
<1> QED
  BY <1>1, <1>2, <1>3, <1>4

\* Each direction of a session implements the abstract channel PrefixChannel: the
\* peer's application is handed a prefix of what was submitted to encrypt, in the
\* order of submission, whatever the order in which the frames were written.
THEOREM SessionDeliversPrefix == Spec => PrefixDelivery
<1>1. Init => FromInitiator!Init /\ FromResponder!Init
  BY DEF Init, FromInitiator!Init, FromResponder!Init, End
<1>2. OrderInv /\ [Next]_vars => /\ [FromInitiator!Next]_(FromInitiator!vars)
                                 /\ [FromResponder!Next]_(FromResponder!vars)
  <2> SUFFICES ASSUME OrderInv, [Next]_vars
               PROVE  /\ [FromInitiator!Next]_(FromInitiator!vars)
                      /\ [FromResponder!Next]_(FromResponder!vars)
    OBVIOUS
  <2>1. /\ "initiator" \in End
        /\ "responder" \in End
        /\ Peer("initiator") = "responder"
        /\ Peer("responder") = "initiator"
    BY DEF End, Peer
  <2>2. [FromInitiator!Next]_(FromInitiator!vars)
    BY <2>1, DirectionStep DEF FromInitiator!Next, FromInitiator!Submit, FromInitiator!Hand,
                               FromInitiator!vars
  <2>3. [FromResponder!Next]_(FromResponder!vars)
    BY <2>1, DirectionStep DEF FromResponder!Next, FromResponder!Submit, FromResponder!Hand,
                               FromResponder!vars
  <2> QED
    BY <2>2, <2>3
<1> QED
  BY <1>1, <1>2, OrderInvariant, PTL DEF Spec, PrefixDelivery, FromInitiator!Spec,
                                         FromResponder!Spec

--------------------------------------------------------------------------------
(* The inductive invariant behind GapIsPermanent: a nonce is in one place at a   *)
(* time, and none that is still on its way has been delivered.                   *)

OnWire(e) == {wire[e][i] : i \in 1 .. Len(wire[e])}

\* No nonce is in both of A and B.
Apart(A, B) == \A x \in A, y \in B : x.nonce # y.nonce

\* The places a nonce goes through: S being sealed, W being written, L on the wire,
\* O being opened, R refused.
Separate(S, W, L, O, R) ==
  /\ Apart(S, W) /\ Apart(S, L) /\ Apart(S, O) /\ Apart(S, R)
  /\ Apart(W, L) /\ Apart(W, O) /\ Apart(W, R)
  /\ Apart(L, O) /\ Apart(L, R)
  /\ Apart(O, R)

PlacesInv ==
  \A e \in End :
    Separate(sealing[e], writing[e], OnWire(e), opening[Peer(e)], rejected[Peer(e)])

\* Within a place, too, a nonce is there once.
OnceInv ==
  \A e \in End :
    /\ \A f, g \in writing[e] : f.nonce = g.nonce => f = g
    /\ \A i, j \in 1 .. Len(wire[e]) : wire[e][i].nonce = wire[e][j].nonce => i = j

\* A refused frame took its nonce from the sender's counter.
RefusedInv == \A e \in End : \A f \in rejected[Peer(e)] : f.nonce < Len(taken[e])

\* Nothing that is on its way, and nothing refused, is behind the receiver's counter.
AheadInv ==
  \A e \in End :
    \A x \in sealing[e] \cup writing[e] \cup OnWire(e) \cup rejected[Peer(e)] :
      recv[Peer(e)].nonce <= x.nonce

\* The receiver's counter does not pass the sender's.
BehindInv == \A e \in End : Len(delivered[Peer(e)]) <= Len(taken[e])

GapInv == OrderInv /\ PlacesInv /\ OnceInv /\ RefusedInv /\ AheadInv /\ BehindInv

\* Places that lose elements stay apart.
LEMMA SeparateShrinks ==
  ASSUME NEW S, NEW W, NEW L, NEW O, NEW R, Separate(S, W, L, O, R),
         NEW S2 \in SUBSET S, NEW W2 \in SUBSET W, NEW L2 \in SUBSET L,
         NEW O2 \in SUBSET O, NEW R2 \in SUBSET R
  PROVE  Separate(S2, W2, L2, O2, R2)
  BY DEF Separate, Apart

\* A nonce that moves to the next place leaves the places apart: from the counter to
\* S, from S to W, from W to L, from L to O or R, from O to R.
LEMMA SeparateMoves ==
  ASSUME NEW S, NEW W, NEW L, NEW O, NEW R, Separate(S, W, L, O, R), NEW x, NEW y,
         x.nonce = y.nonce
  PROVE  /\ (\A z \in W \cup L \cup O \cup R : z.nonce # x.nonce)
              => Separate(S \cup {x}, W, L, O, R)
         /\ \A S2 \in SUBSET S : (y \in S /\ Apart(S2, {y}))
              => Separate(S2, W \cup {x}, L, O, R)
         /\ \A W2 \in SUBSET W : (y \in W /\ Apart(W2, {y}))
              => Separate(S, W2, L \cup {x}, O, R)
         /\ \A L2 \in SUBSET L : (y \in L /\ Apart(L2, {y}))
              => Separate(S, W, L2, {x}, R) /\ Separate(S, W, L2, O, R \cup {x})
         /\ y \in O => Separate(S, W, L, {}, R \cup {x})
<1> USE DEF Separate, Apart
<1>1. (\A z \in W \cup L \cup O \cup R : z.nonce # x.nonce)
        => Separate(S \cup {x}, W, L, O, R)
  OBVIOUS
<1>2. ASSUME NEW S2 \in SUBSET S, y \in S, Apart(S2, {y})
      PROVE  Separate(S2, W \cup {x}, L, O, R)
  BY <1>2
<1>3. ASSUME NEW W2 \in SUBSET W, y \in W, Apart(W2, {y})
      PROVE  Separate(S, W2, L \cup {x}, O, R)
  BY <1>3
<1>4. ASSUME NEW L2 \in SUBSET L, y \in L, Apart(L2, {y})
      PROVE  Separate(S, W, L2, {x}, R) /\ Separate(S, W, L2, O, R \cup {x})
  BY <1>4
<1>5. y \in O => Separate(S, W, L, {}, R \cup {x})
  OBVIOUS
<1> HIDE DEF Separate, Apart
<1> QED
  BY <1>1, <1>2, <1>3, <1>4, <1>5, ZenonT(30)

\* What is on the wires after a frame is appended, read or lost.
LEMMA OnWireFacts ==
  ASSUME TypeOK, TypeOK', NEW e \in End
  PROVE  /\ wire' = wire => OnWire(e)' = OnWire(e)
         /\ \A f \in Frame : wire'[e] = Append(wire[e], f)
              => OnWire(e)' = OnWire(e) \cup {f}
         /\ wire[e] # <<>> /\ wire'[e] = Tail(wire[e])
              => OnWire(e)' \subseteq OnWire(e) /\ Head(wire[e]) \in OnWire(e)
         /\ LinkDown => OnWire(e)' \subseteq OnWire(e)
         /\ OnWire(e) \subseteq Frame
<1>1. wire[e] \in Seq(Frame) /\ wire'[e] \in Seq(Frame)
  BY DEF TypeOK
<1>2. wire' = wire => OnWire(e)' = OnWire(e)
  BY DEF OnWire
<1>3. ASSUME NEW f \in Frame, wire'[e] = Append(wire[e], f)
      PROVE  OnWire(e)' = OnWire(e) \cup {f}
  <2>1. /\ Len(wire'[e]) = Len(wire[e]) + 1
        /\ wire'[e][Len(wire[e]) + 1] = f
        /\ \A i \in 1 .. Len(wire[e]) : wire'[e][i] = wire[e][i]
        /\ Len(wire[e]) \in Nat
    BY <1>1, <1>3
  <2>2. ASSUME NEW g \in OnWire(e)'
        PROVE  g \in OnWire(e) \cup {f}
    <3>1. PICK i \in 1 .. Len(wire'[e]) : g = wire'[e][i]
      BY DEF OnWire
    <3>2. i \in 1 .. Len(wire[e]) \/ i = Len(wire[e]) + 1
      BY <2>1
    <3> QED
      BY <2>1, <3>1, <3>2 DEF OnWire
  <2>3. ASSUME NEW g \in OnWire(e) \cup {f}
        PROVE  g \in OnWire(e)'
    <3>1. PICK i \in 1 .. Len(wire'[e]) : g = wire'[e][i]
      BY <2>1 DEF OnWire
    <3> QED
      BY <3>1 DEF OnWire
  <2> QED
    BY <2>2, <2>3
<1>4. ASSUME wire[e] # <<>>, wire'[e] = Tail(wire[e])
      PROVE  OnWire(e)' \subseteq OnWire(e) /\ Head(wire[e]) \in OnWire(e)
  <2>1. /\ Len(wire'[e]) = Len(wire[e]) - 1
        /\ Head(wire[e]) = wire[e][1]
        /\ \A i \in 1 .. Len(wire'[e]) : wire'[e][i] = wire[e][i + 1]
        /\ 1 \in 1 .. Len(wire[e])
    BY <1>1, <1>4, WireFacts
  <2>2. ASSUME NEW g \in OnWire(e)'
        PROVE  g \in OnWire(e)
    <3>1. PICK i \in 1 .. Len(wire'[e]) : g = wire'[e][i]
      BY DEF OnWire
    <3>2. i + 1 \in 1 .. Len(wire[e])
      BY <1>1, <2>1
    <3> QED
      BY <2>1, <3>1, <3>2, ZenonT(30) DEF OnWire
  <2> QED
    BY <2>1, <2>2 DEF OnWire
<1>5. LinkDown => OnWire(e)' \subseteq OnWire(e)
  BY CutFacts DEF OnWire
<1>6. OnWire(e) \subseteq Frame
  BY <1>1 DEF OnWire
<1> QED
  BY <1>2, <1>3, <1>4, <1>5, <1>6

\* The initial state satisfies the invariant.
LEMMA InitGapInv == Init => GapInv
<1> SUFFICES ASSUME Init PROVE GapInv
  OBVIOUS
<1>1. \A e \in End : /\ sealing[e] = {} /\ writing[e] = {} /\ wire[e] = <<>>
                     /\ opening[Peer(e)] = {} /\ rejected[Peer(e)] = {}
  BY PeerFacts DEF Init
<1>2. \A e \in End : OnWire(e) = {}
  BY <1>1 DEF OnWire
<1>4. BehindInv
  BY PeerFacts DEF Init, BehindInv
<1>3. PlacesInv /\ OnceInv /\ RefusedInv /\ AheadInv
  BY <1>1, <1>2 DEF PlacesInv, OnceInv, RefusedInv, AheadInv, Separate, Apart
<1> QED
  BY <1>3, <1>4, InitOrderInv DEF GapInv

\* Each action keeps the invariant.
LEMMA NextGapInv == GapInv /\ [Next]_vars => GapInv'
<1> SUFFICES ASSUME GapInv, [Next]_vars
             PROVE  GapInv'
  OBVIOUS
<1>0. OrderInv /\ OrderInv' /\ TypeOK /\ TypeOK'
  BY NextOrderInv DEF GapInv, OrderInv
<1>a. ASSUME NEW e \in End
      PROVE  \A x \in sealing[e] \cup writing[e] \cup OnWire(e) \cup opening[Peer(e)]
                        \cup rejected[Peer(e)] : x.nonce \in Nat /\ x.nonce < Len(taken[e])
  <2>1. \A x \in sealing[e] : x.nonce \in Nat
    BY <1>0 DEF TypeOK
  <2>2. \A x \in writing[e] \cup OnWire(e) \cup opening[Peer(e)] \cup rejected[Peer(e)] :
          x.nonce \in Nat
    BY <1>0, FrameFacts, OnWireFacts, PeerFacts DEF TypeOK
  <2> QED
    BY <1>0, <2>1, <2>2 DEF OrderInv, CarriesInv, Took, GapInv, RefusedInv, OnWire
<1>b. ASSUME NEW e \in End
      PROVE  Separate(sealing[e], writing[e], OnWire(e), opening[Peer(e)], rejected[Peer(e)])
  BY DEF GapInv, PlacesInv
<1>c. \A e \in End : /\ recv[e].nonce \in Nat
                     /\ Peer(e) \in End
                     /\ Peer(Peer(e)) = e
  BY <1>0, CipherStateFacts, PeerFacts DEF TypeOK
<1>d. BehindInv'
  <2> SUFFICES ASSUME NEW e \in End
               PROVE  Len(delivered'[Peer(e)]) <= Len(taken'[e])
    BY DEF BehindInv
  <2>1. /\ delivered[Peer(e)] \in Seq(Plain)
        /\ taken[e] \in Seq(Plain)
        /\ Len(delivered[Peer(e)]) <= Len(taken[e])
    BY <1>0, <1>c DEF TypeOK, GapInv, BehindInv
  <2> QED
    BY <1>0, <2>1, DirectionStep
<1>1. ASSUME NEW e \in End, NEW p \in Plain, Encrypt(e, p)
      PROVE  GapInv'
  <2> DEFINE c == [nonce |-> sendr[e].nonce, plain |-> p]
  <2>1. /\ UNCHANGED <<writing, wire, opening, rejected, recv>>
        /\ \A d \in End : sealing'[d] = IF d = e THEN sealing[e] \cup {c} ELSE sealing[d]
    BY <1>0, <1>1 DEF Encrypt, TypeOK
  <2>2. c.nonce = Len(taken[e])
    BY <1>0 DEF OrderInv, CountInv
  <2>3. \A d \in End : OnWire(d)' = OnWire(d)
    BY <2>1 DEF OnWire
  <2>4. \A d \in End : Len(taken[d]) <= Len(taken'[d])
    BY <1>0, <1>1 DEF Encrypt, TypeOK
  <2> HIDE DEF c
  <2>5. Separate(sealing[e] \cup {c}, writing[e], OnWire(e), opening[Peer(e)],
                 rejected[Peer(e)])
    <3>1. \A z \in writing[e] \cup OnWire(e) \cup opening[Peer(e)] \cup rejected[Peer(e)] :
            z.nonce # c.nonce
      BY <1>a, <2>2
    <3> QED
      BY <1>b, <3>1, SeparateMoves, ZenonT(30)
  <2>6. PlacesInv'
    BY <1>b, <2>1, <2>3, <2>5 DEF PlacesInv
  <2>7. OnceInv'
    BY <2>1 DEF GapInv, OnceInv
  <2>8. RefusedInv'
    <3>1. \A d \in End : \A f \in rejected[Peer(d)] : f.nonce < Len(taken'[d])
      <4> SUFFICES ASSUME NEW d \in End, NEW f \in rejected[Peer(d)]
                   PROVE  f.nonce < Len(taken'[d])
        OBVIOUS
      <4>1. taken[d] \in Seq(Plain) /\ taken'[d] \in Seq(Plain)
        BY <1>0 DEF TypeOK
      <4> QED
        BY <1>a, <2>4, <4>1
    <3> QED
      BY <2>1, <3>1 DEF RefusedInv
  <2>9. AheadInv'
    <3>1. recv[Peer(e)].nonce <= c.nonce
      <4>1. recv[Peer(e)].nonce = Len(delivered[Peer(e)])
        BY <1>0, <1>c DEF OrderInv, CountInv
      <4> QED
        BY <2>2, <4>1 DEF GapInv, BehindInv
    <3> QED
      BY <2>1, <2>3, <3>1 DEF GapInv, AheadInv
  <2> QED
    BY <1>0, <1>d, <2>6, <2>7, <2>8, <2>9 DEF GapInv
<1>2. ASSUME NEW e \in End, NEW c \in sealing[e], Seal(e, c)
      PROVE  GapInv'
  <2>1. PICK k \in KeyBytes(sendr[e].key) :
          LET f == [key |-> k, nonce |-> c.nonce, plain |-> c.plain]
          IN  /\ writing' = [writing EXCEPT ![e] = @ \cup {f}]
              /\ sealed' = sealed \cup {f}
    BY <1>2, ZenonT(30) DEF Seal
  <2> DEFINE f == [key |-> k, nonce |-> c.nonce, plain |-> c.plain]
  <2>2. /\ UNCHANGED <<wire, opening, rejected, recv, taken>>
        /\ \A d \in End : sealing'[d] = IF d = e THEN sealing[e] \ {c} ELSE sealing[d]
    BY <1>0, <1>2 DEF Seal, TypeOK
  <2>3. \A d \in End : writing'[d] = IF d = e THEN writing[e] \cup {f} ELSE writing[d]
    BY <1>0, <2>1 DEF TypeOK
  <2>4. \A d \in End : OnWire(d)' = OnWire(d)
    BY <2>2 DEF OnWire
  <2>5. Apart(sealing[e] \ {c}, {c})
    <3> SUFFICES ASSUME NEW b \in sealing[e], b.nonce = c.nonce
                 PROVE  b = c
      BY DEF Apart
    <3>1. b.plain = c.plain
      BY <1>0 DEF OrderInv, CarriesInv, Took
    <3>2. b \in [nonce : Nat, plain : Plain] /\ c \in [nonce : Nat, plain : Plain]
      BY <1>0 DEF TypeOK
    <3> QED
      BY <3>1, <3>2
  <2>6. f.nonce = c.nonce
    OBVIOUS
  <2> HIDE DEF f
  <2>7. Separate(sealing[e] \ {c}, writing[e] \cup {f}, OnWire(e), opening[Peer(e)],
                 rejected[Peer(e)])
    BY <1>b, <2>5, <2>6, SeparateMoves, ZenonT(30)
  <2>8. PlacesInv'
    BY <1>b, <2>2, <2>3, <2>4, <2>7 DEF PlacesInv
  <2>9. OnceInv'
    <3>1. \A g \in writing[e] : g.nonce # f.nonce
      BY <1>b, <2>6 DEF Separate, Apart
    <3> QED
      BY <2>2, <2>3, <3>1 DEF GapInv, OnceInv
  <2>10. RefusedInv' /\ AheadInv'
    BY <2>2, <2>3, <2>4, <2>6 DEF GapInv, RefusedInv, AheadInv
  <2> QED
    BY <1>0, <1>d, <2>8, <2>9, <2>10 DEF GapInv
<1>3. ASSUME NEW e \in End, NEW f \in writing[e], Write(e, f)
      PROVE  GapInv'
  <2>1. /\ UNCHANGED <<sealing, opening, rejected, recv, taken>>
        /\ \A d \in End : writing'[d] = IF d = e THEN writing[e] \ {f} ELSE writing[d]
    BY <1>0, <1>3 DEF Write, TypeOK, ends, history
  <2>2. wire' = wire \/ wire' = [wire EXCEPT ![e] = Append(@, f)]
    BY <1>3 DEF Write
  <2>3. f \in Frame
    BY <1>0 DEF TypeOK
  <2>4. CASE wire' = wire
    <3>1. \A d \in End : OnWire(d)' = OnWire(d)
      BY <2>4 DEF OnWire
    <3>2. PlacesInv'
      BY <1>b, <2>1, <3>1, SeparateShrinks DEF PlacesInv
    <3>3. OnceInv' /\ RefusedInv' /\ AheadInv'
      BY <2>1, <2>4, <3>1 DEF GapInv, OnceInv, RefusedInv, AheadInv
    <3> QED
      BY <1>0, <1>d, <3>2, <3>3 DEF GapInv
  <2>5. CASE wire' = [wire EXCEPT ![e] = Append(@, f)]
    <3>1. /\ wire'[e] = Append(wire[e], f)
          /\ \A d \in End \ {e} : wire'[d] = wire[d]
      BY <1>0, <2>5 DEF TypeOK
    <3>2. /\ OnWire(e)' = OnWire(e) \cup {f}
          /\ \A d \in End \ {e} : OnWire(d)' = OnWire(d)
      BY <1>0, <2>3, <3>1, OnWireFacts DEF OnWire
    <3>3. Apart(writing[e] \ {f}, {f})
      BY DEF GapInv, OnceInv, Apart
    <3>4. Separate(sealing[e], writing[e] \ {f}, OnWire(e) \cup {f}, opening[Peer(e)],
                   rejected[Peer(e)])
      BY <1>b, <3>3, SeparateMoves, ZenonT(30)
    <3>5. PlacesInv'
      BY <1>b, <2>1, <3>2, <3>4 DEF PlacesInv
    <3>6. OnceInv'
      <4>1. wire[e] \in Seq(Frame)
        BY <1>0 DEF TypeOK
      <4>2. \A i \in 1 .. Len(wire[e]) : wire[e][i].nonce # f.nonce
        BY <1>b DEF Separate, Apart, OnWire
      <4>3. /\ Len(wire'[e]) = Len(wire[e]) + 1
            /\ wire'[e][Len(wire[e]) + 1] = f
            /\ \A i \in 1 .. Len(wire[e]) : wire'[e][i] = wire[e][i]
        BY <3>1, <4>1, <2>3
      <4>4. \A i, j \in 1 .. Len(wire'[e]) : wire'[e][i].nonce = wire'[e][j].nonce => i = j
        <5> SUFFICES ASSUME NEW i \in 1 .. Len(wire'[e]), NEW j \in 1 .. Len(wire'[e]),
                            wire'[e][i].nonce = wire'[e][j].nonce
                     PROVE  i = j
          OBVIOUS
        <5>1. /\ i \in 1 .. Len(wire[e]) \/ i = Len(wire[e]) + 1
              /\ j \in 1 .. Len(wire[e]) \/ j = Len(wire[e]) + 1
          BY <4>1, <4>3
        <5>2. CASE i \in 1 .. Len(wire[e]) /\ j \in 1 .. Len(wire[e])
          BY <4>3, <5>2 DEF GapInv, OnceInv
        <5>3. CASE i = Len(wire[e]) + 1 \/ j = Len(wire[e]) + 1
          BY <4>2, <4>3, <5>1, <5>3
        <5> QED
          BY <5>1, <5>2, <5>3
      <4> QED
        BY <2>1, <3>1, <4>4, ZenonT(30) DEF GapInv, OnceInv
    <3>7. RefusedInv' /\ AheadInv'
      BY <2>1, <3>2 DEF GapInv, RefusedInv, AheadInv
    <3> QED
      BY <1>0, <1>d, <3>5, <3>6, <3>7 DEF GapInv
  <2> QED
    BY <2>2, <2>4, <2>5
<1>4. ASSUME NEW e \in End, ReadFrame(e) \/ RefuseFrame(e)
      PROVE  GapInv'
  <2> DEFINE s == Peer(e)
             h == Head(wire[s])
  <2>1. s \in End /\ Peer(s) = e
    BY <1>c
  <2>2. /\ wire[s] # <<>>
        /\ wire' = [wire EXCEPT ![s] = Tail(@)]
        /\ UNCHANGED <<sealing, writing, recv, taken>>
    BY <1>4 DEF ReadFrame, RefuseFrame, ends, history
  <2>3. /\ wire'[s] = Tail(wire[s])
        /\ \A d \in End \ {s} : wire'[d] = wire[d]
    BY <1>0, <2>1, <2>2 DEF TypeOK
  <2>4. /\ wire[s] \in Seq(Frame)
        /\ Len(wire'[s]) = Len(wire[s]) - 1
        /\ h = wire[s][1]
        /\ \A i \in 1 .. Len(wire'[s]) : wire'[s][i] = wire[s][i + 1]
        /\ 1 \in 1 .. Len(wire[s])
    <3>1. wire[s] \in Seq(Frame)
      BY <1>0, <2>1 DEF TypeOK
    <3>2. /\ Len(Tail(wire[s])) = Len(wire[s]) - 1
          /\ h = wire[s][1]
          /\ \A i \in 1 .. Len(Tail(wire[s])) : Tail(wire[s])[i] = wire[s][i + 1]
      BY <2>2, <3>1, WireFacts
    <3>3. 1 \in 1 .. Len(wire[s])
      BY <2>2, <3>1
    <3> QED
      BY <2>3, <3>1, <3>2, <3>3
  <2>5. /\ OnWire(s)' \subseteq OnWire(s)
        /\ h \in OnWire(s)
        /\ \A d \in End \ {s} : OnWire(d)' = OnWire(d)
    BY <1>0, <2>1, <2>2, <2>3, OnWireFacts DEF OnWire
  <2>6. Apart(OnWire(s)', {h})
    <3> SUFFICES ASSUME NEW g \in OnWire(s)', g.nonce = h.nonce
                 PROVE  FALSE
      BY DEF Apart
    <3>1. PICK i \in 1 .. Len(wire'[s]) : g = wire'[s][i]
      BY DEF OnWire
    <3>2. /\ i + 1 \in 1 .. Len(wire[s])
          /\ wire[s][i + 1].nonce = wire[s][1].nonce
          /\ i + 1 # 1
      BY <2>4, <3>1
    <3> QED
      BY <2>1, <2>4, <3>2 DEF GapInv, OnceInv
  <2> HIDE DEF h
  <2>7. /\ Separate(sealing[s], writing[s], OnWire(s)', {h}, rejected[e])
        /\ Separate(sealing[s], writing[s], OnWire(s)', opening[e], rejected[e] \cup {h})
    BY <1>b, <2>1, <2>5, <2>6, SeparateMoves, ZenonT(30)
  <2>8. \/ /\ opening'[e] = {h} /\ rejected'[e] = rejected[e]
           /\ \A d \in End \ {e} : opening'[d] = opening[d] /\ rejected'[d] = rejected[d]
        \/ /\ opening'[e] = opening[e] /\ rejected'[e] = rejected[e] \cup {h}
           /\ \A d \in End \ {e} : opening'[d] = opening[d] /\ rejected'[d] = rejected[d]
    <3>1. CASE ReadFrame(e)
      BY <1>0, <3>1 DEF ReadFrame, history, TypeOK, h
    <3>2. CASE RefuseFrame(e)
      BY <1>0, <3>2 DEF RefuseFrame, TypeOK, h
    <3> QED
      BY <1>4, <3>1, <3>2
  <2>9. \A d \in End : d # s => Peer(d) # e
    BY DEF Peer, End
  <2>10. PlacesInv'
    <3> SUFFICES ASSUME NEW d \in End
                 PROVE  Separate(sealing[d], writing[d], OnWire(d)', opening'[Peer(d)],
                                 rejected'[Peer(d)])
      BY <2>2 DEF PlacesInv
    <3>1. CASE d = s
      BY <2>1, <2>7, <2>8, <3>1
    <3>2. CASE d # s
      BY <1>b, <1>c, <2>5, <2>8, <2>9, <3>2
    <3> QED
      BY <3>1, <3>2
  <2>11. OnceInv'
    <3>1. ASSUME NEW i \in 1 .. Len(wire'[s]), NEW j \in 1 .. Len(wire'[s]),
                 wire'[s][i].nonce = wire'[s][j].nonce
          PROVE  i = j
      <4>1. i + 1 \in 1 .. Len(wire[s]) /\ j + 1 \in 1 .. Len(wire[s])
        BY <2>4
      <4>2. wire[s][i + 1].nonce = wire[s][j + 1].nonce
        BY <2>4, <3>1
      <4>3. i + 1 = j + 1
        BY <2>1, <4>1, <4>2 DEF GapInv, OnceInv
      <4> QED
        BY <4>3
    <3> QED
      BY <2>2, <2>3, <3>1 DEF GapInv, OnceInv
  <2>12. \A d \in End : rejected'[Peer(d)] \subseteq rejected[Peer(d)]
                          \cup (IF d = s THEN {h} ELSE {})
    BY <1>c, <2>1, <2>8, <2>9
  <2>13. RefusedInv'
    <3>1. h.nonce < Len(taken[s])
      BY <1>a, <2>1, <2>5
    <3> QED
      BY <2>2, <2>12, <3>1 DEF GapInv, RefusedInv
  <2>14. AheadInv'
    <3>1. recv[Peer(s)].nonce <= h.nonce
      BY <2>1, <2>5 DEF GapInv, AheadInv
    <3> QED
      BY <2>2, <2>5, <2>12, <3>1 DEF GapInv, AheadInv
  <2> QED
    BY <1>0, <1>d, <2>10, <2>11, <2>13, <2>14 DEF GapInv
<1>5. ASSUME NEW e \in End, NEW f \in opening[e], OpenFrame(e, f) \/ FailToOpen(e, f)
      PROVE  GapInv'
  <2> DEFINE s == Peer(e)
  <2>1. /\ s \in End
        /\ Peer(s) = e
        /\ \A d \in End : d # s => Peer(d) # e
    BY <1>c DEF Peer, End
  <2>2. /\ UNCHANGED <<sealing, writing, wire, taken>>
        /\ \A d \in End : opening'[d] = IF d = e THEN {} ELSE opening[d]
        /\ \A d \in End : d # e => rejected'[d] = rejected[d] /\ recv'[d] = recv[d]
    BY <1>0, <1>5 DEF OpenFrame, FailToOpen, ends, TypeOK
  <2>3. \/ rejected'[e] = rejected[e] /\ recv'[e].nonce = recv[e].nonce + 1
        \/ rejected'[e] = rejected[e] \cup {f} /\ recv'[e] = recv[e]
    <3>1. CASE OpenFrame(e, f)
      BY <1>0, <3>1 DEF OpenFrame, Count, TypeOK
    <3>2. CASE FailToOpen(e, f)
      BY <1>0, <3>2 DEF FailToOpen, ends, TypeOK
    <3> QED
      BY <1>5, <3>1, <3>2
  <2>4. \A d \in End : OnWire(d)' = OnWire(d)
    BY <2>2 DEF OnWire
  <2>5. f.nonce = recv[e].nonce /\ f.nonce \in Nat
    BY <1>0, <1>c DEF OrderInv, CheckedInv
  <2>6. PlacesInv'
    <3> SUFFICES ASSUME NEW d \in End
                 PROVE  Separate(sealing[d], writing[d], OnWire(d), opening'[Peer(d)],
                                 rejected'[Peer(d)])
      BY <2>2, <2>4 DEF PlacesInv
    <3>1. CASE d = s
      <4>1. /\ Separate(sealing[s], writing[s], OnWire(s), opening[e], rejected[e])
            /\ opening'[e] = {}
        BY <1>b, <2>1, <2>2
      <4>2. Separate(sealing[s], writing[s], OnWire(s), {}, rejected[e] \cup {f})
        BY <4>1, SeparateMoves, ZenonT(30)
      <4>3. Separate(sealing[s], writing[s], OnWire(s), {}, rejected[e])
        BY <4>2 DEF Separate, Apart
      <4> QED
        BY <2>1, <2>3, <3>1, <4>1, <4>2, <4>3, ZenonT(30)
    <3>2. CASE d # s
      BY <1>b, <1>c, <2>1, <2>2, <3>2
    <3> QED
      BY <3>1, <3>2
  <2>7. OnceInv'
    BY <2>2 DEF GapInv, OnceInv
  <2>8. RefusedInv'
    <3>1. f.nonce < Len(taken[s])
      BY <1>a, <2>1
    <3> QED
      BY <2>1, <2>2, <2>3, <3>1, <1>c DEF GapInv, RefusedInv
  <2>9. AheadInv'
    <3> SUFFICES ASSUME NEW d \in End,
                        NEW x \in sealing[d] \cup writing[d] \cup OnWire(d)
                                    \cup rejected'[Peer(d)]
                 PROVE  recv'[Peer(d)].nonce <= x.nonce
      BY <2>2, <2>4 DEF AheadInv
    <3>1. CASE d # s
      BY <1>c, <2>1, <2>2, <3>1 DEF GapInv, AheadInv
    <3>2. CASE d = s /\ rejected'[e] = rejected[e] \cup {f} /\ recv'[e] = recv[e]
      BY <2>1, <2>5, <3>2 DEF GapInv, AheadInv
    <3>3. CASE d = s /\ rejected'[e] = rejected[e] /\ recv'[e].nonce = recv[e].nonce + 1
      <4>1. x.nonce # f.nonce
        BY <1>b, <2>1, <3>3 DEF Separate, Apart
      <4>2. x.nonce \in Nat /\ recv[e].nonce <= x.nonce
        BY <1>a, <2>1, <3>3 DEF GapInv, AheadInv
      <4> QED
        BY <2>1, <2>5, <3>3, <4>1, <4>2
    <3> QED
      BY <2>3, <3>1, <3>2, <3>3
  <2> QED
    BY <1>0, <1>d, <2>6, <2>7, <2>8, <2>9 DEF GapInv
<1>6. ASSUME UNCHANGED <<sealing, writing, wire, opening, rejected, taken>>,
             \A d \in End : recv'[d].nonce = recv[d].nonce
      PROVE  GapInv'
  <2>1. \A d \in End : OnWire(d)' = OnWire(d)
    BY <1>6 DEF OnWire
  <2>2. PlacesInv' /\ OnceInv' /\ RefusedInv'
    BY <1>6, <2>1 DEF GapInv, PlacesInv, OnceInv, RefusedInv
  <2>3. AheadInv'
    BY <1>6, <1>c, <2>1 DEF GapInv, AheadInv
  <2> QED
    BY <1>0, <1>d, <2>2, <2>3 DEF GapInv
<1>7. ASSUME NEW e \in End, ReadError(e) \/ ReadTimeout(e)
      PROVE  GapInv'
  BY <1>6, <1>7 DEF ReadError, ReadTimeout, ends, history
<1>8. ASSUME NEW e \in End, CloseConn(e)
      PROVE  GapInv'
  <2>1. CASE CloseConn_Wipe(e)
    <3>1. \A d \in End : recv'[d].nonce = recv[d].nonce
      BY <1>0, <2>1 DEF CloseConn_Wipe, WipedState, TypeOK
    <3> QED
      BY <1>6, <2>1, <3>1 DEF CloseConn_Wipe, history
  <2>2. CASE CloseConn_Close(e)
    BY <1>6, <2>2 DEF CloseConn_Close, history
  <2> QED
    BY <1>8, <2>1, <2>2 DEF CloseConn
<1>9. CASE LinkDown
  <2>1. UNCHANGED <<sealing, writing, opening, rejected, taken, recv>>
    BY <1>9 DEF LinkDown, history
  <2>2. \A d \in End : OnWire(d)' \subseteq OnWire(d)
    BY <1>0, <1>9, OnWireFacts
  <2>3. PlacesInv'
    <3> SUFFICES ASSUME NEW d \in End
                 PROVE  Separate(sealing[d], writing[d], OnWire(d)', opening[Peer(d)],
                                 rejected[Peer(d)])
      BY <2>1 DEF PlacesInv
    <3>1. Separate(sealing[d], writing[d], OnWire(d), opening[Peer(d)], rejected[Peer(d)])
      BY <1>b
    <3>2. OnWire(d)' \subseteq OnWire(d)
      BY <2>2
    <3> QED
      BY <3>1, <3>2 DEF Separate, Apart
  <2>4. OnceInv'
    BY <1>0, <1>9, <2>1, CutFacts DEF GapInv, OnceInv
  <2>5. RefusedInv' /\ AheadInv'
    BY <2>1, <2>2 DEF GapInv, RefusedInv, AheadInv
  <2> QED
    BY <1>0, <1>d, <2>3, <2>4, <2>5 DEF GapInv
<1>10. CASE UNCHANGED vars
  BY <1>6, <1>10 DEF vars
<1> QED
  BY <1>1, <1>2, <1>3, <1>4, <1>5, <1>7, <1>8, <1>9, <1>10
  DEF Next, Send, ReadLoop, Decrypt

\* Once decrypt has refused a frame, no plaintext that took a later nonce is ever
\* delivered on the session, for any number of senders and any schedule.
THEOREM GapsArePermanent == Spec => []GapIsPermanent
<1>1. GapInv => GapIsPermanent
  BY PeerFacts DEF GapInv, OrderInv, CountInv, AheadInv, GapIsPermanent
<1> QED
  BY <1>1, InitGapInv, NextGapInv, PTL DEF Spec

--------------------------------------------------------------------------------
(* One goroutine per end that sends: the frames of a direction form a line.      *)

\* No end sends from more than one goroutine.
SingleWriter == \A e \in End : Writers[e] <= 1

AllOpen == \A e \in End : conn[e] = "open"

\* The cipher states are erased only by closeConn.
KeptInv ==
  \A e \in End : conn[e] = "open" => sendr[e].key # NilKey /\ recv[e].key # NilKey

\* A frame is being opened only by a read loop that is inside decrypt.
InsideInv == \A e \in End : opening[e] # {} => loop[e] = "open"

\* The nonce of the first frame that the peer of e has yet to read.
Expected(e) == recv[Peer(e)].nonce + (IF opening[Peer(e)] = {} THEN 0 ELSE 1)

\* The nonce that follows the last frame on the wire of e.
Following(e) == Expected(e) + Len(wire[e])

\* The frames on the wire have the nonces that the peer expects, one after the other,
\* and the key of their direction.
LineInv(e) ==
  /\ \A i \in 1 .. Len(wire[e]) : /\ wire[e][i].nonce = Expected(e) + i - 1
                                  /\ wire[e][i].key = DeriveKeys(e).send
  /\ \A f \in writing[e] \cup opening[Peer(e)] : f.key = DeriveKeys(e).send

\* While the connection is there, the next nonce is the one after the wire, or it is
\* held by the one call of send.
HeldInv(e) ==
  \/ /\ sealing[e] = {} /\ writing[e] = {}
     /\ sendr[e].nonce = Following(e)
  \/ /\ \/ \E c \in sealing[e] : sealing[e] = {c} /\ writing[e] = {} /\ c.nonce = Following(e)
        \/ \E f \in writing[e] : sealing[e] = {} /\ writing[e] = {f} /\ f.nonce = Following(e)
     /\ sendr[e].nonce = Following(e) + 1

LineUpInv ==
  AllOpen => \A e \in End : /\ LineInv(e)
                            /\ link = "up" => HeldInv(e)
                            /\ rejected[e] = {}

WriterInv == OrderInv /\ KeptInv /\ InsideInv /\ LineUpInv

\* The key that e sends with is the one its peer opens with, and it is not torn.
LEMMA KeyFacts ==
  ASSUME NEW e \in End
  PROVE  /\ DeriveKeys(Peer(e)).recv = DeriveKeys(e).send
         /\ DeriveKeys(Peer(e)).send = DeriveKeys(e).recv
         /\ DeriveKeys(e).send \notin {NilKey, TornKey}
         /\ DeriveKeys(e).recv \notin {NilKey, TornKey}
  BY DEF DeriveKeys, Peer, End, NilKey, TornKey

\* A direction whose variables stay as they are keeps its line.
LEMMA LineStutters ==
  ASSUME NEW d \in End, wire'[d] = wire[d], sealing'[d] = sealing[d],
         writing'[d] = writing[d], sendr'[d].nonce = sendr[d].nonce,
         opening'[Peer(d)] = opening[Peer(d)], recv'[Peer(d)].nonce = recv[Peer(d)].nonce
  PROVE  (LineInv(d) => LineInv(d)') /\ (HeldInv(d) => HeldInv(d)')
<1>1. Expected(d)' = Expected(d) /\ Following(d)' = Following(d)
  BY DEF Expected, Following
<1> QED
  BY <1>1 DEF LineInv, HeldInv

\* The numbers of a line.
LEMMA LineNumbers ==
  ASSUME TypeOK, NEW e \in End
  PROVE  /\ wire[e] \in Seq(Frame) /\ Len(wire[e]) \in Nat
         /\ recv[Peer(e)].nonce \in Nat /\ sendr[e].nonce \in Nat
         /\ Expected(e) \in Nat /\ Following(e) \in Nat
<1>1. wire[e] \in Seq(Frame) /\ recv[Peer(e)] \in CipherState /\ sendr[e] \in CipherState
  BY PeerFacts DEF TypeOK
<1>2. Len(wire[e]) \in Nat
  BY <1>1
<1>3. recv[Peer(e)].nonce \in Nat /\ sendr[e].nonce \in Nat
  BY <1>1, CipherStateFacts
<1> QED
  BY <1>1, <1>2, <1>3 DEF Expected, Following

LEMMA InitWriterInv == Init => WriterInv
<1> SUFFICES ASSUME Init PROVE WriterInv
  OBVIOUS
<1>1. OrderInv
  BY InitOrderInv
<1>2. KeptInv /\ InsideInv
  BY KeyFacts DEF Init, KeptInv, InsideInv
<1>3. ASSUME NEW e \in End
      PROVE  LineInv(e) /\ HeldInv(e) /\ rejected[e] = {}
  <2>1. /\ wire[e] = <<>> /\ sealing[e] = {} /\ writing[e] = {} /\ opening[Peer(e)] = {}
        /\ sendr[e].nonce = 0 /\ recv[Peer(e)].nonce = 0 /\ rejected[e] = {}
    BY PeerFacts DEF Init
  <2> QED
    BY <2>1 DEF LineInv, HeldInv, Expected, Following
<1> QED
  BY <1>1, <1>2, <1>3 DEF WriterInv, LineUpInv

\* closeConn is the only action that erases a key, and decrypt the only one that opens.
LEMMA NextKeptInv == WriterInv /\ [Next]_vars => KeptInv' /\ InsideInv'
<1> SUFFICES ASSUME WriterInv, [Next]_vars
             PROVE  KeptInv' /\ InsideInv'
  OBVIOUS
<1>0. TypeOK /\ KeptInv /\ InsideInv
  BY DEF WriterInv, OrderInv
<1>1. ASSUME NEW e \in End, Send(e)
      PROVE  KeptInv' /\ InsideInv'
  <2>1. /\ recv' = recv /\ conn' = conn /\ loop' = loop /\ opening' = opening
        /\ \A d \in End : sendr'[d].key = sendr[d].key
    <3>1. ASSUME NEW p \in Plain, Encrypt(e, p) PROVE <2>1
      BY <1>0, <3>1 DEF Encrypt, Advance, TypeOK
    <3>2. ASSUME NEW c \in sealing[e], Seal(e, c) PROVE <2>1
      BY <3>2 DEF Seal
    <3>3. ASSUME NEW f \in writing[e], Write(e, f) PROVE <2>1
      BY <3>3 DEF Write, ends
    <3> QED
      BY <1>1, <3>1, <3>2, <3>3 DEF Send
  <2> QED
    BY <1>0, <2>1 DEF KeptInv, InsideInv
<1>2. ASSUME NEW e \in End, NEW f \in opening[e], OpenFrame(e, f)
      PROVE  KeptInv' /\ InsideInv'
  <2>1. /\ sendr' = sendr /\ conn' = conn
        /\ \A d \in End : recv'[d].key = recv[d].key
    BY <1>0, <1>2 DEF OpenFrame, Count, TypeOK
  <2>2. \A d \in End : opening'[d] = {} \/ (opening'[d] = opening[d] /\ loop'[d] = loop[d])
    BY <1>0, <1>2 DEF OpenFrame, TypeOK
  <2> QED
    BY <1>0, <2>1, <2>2 DEF KeptInv, InsideInv
<1>3. ASSUME NEW e \in End,
             \/ ReadFrame(e) \/ RefuseFrame(e) \/ ReadError(e) \/ ReadTimeout(e)
             \/ \E f \in opening[e] : FailToOpen(e, f)
      PROVE  KeptInv' /\ InsideInv'
  <2>1. UNCHANGED <<sendr, recv, conn>>
    BY <1>3 DEF ReadFrame, RefuseFrame, ReadError, ReadTimeout, FailToOpen, ends
  <2>2. \A d \in End : \/ opening'[d] = {}
                       \/ loop'[d] = "open"
                       \/ opening'[d] = opening[d] /\ loop'[d] = loop[d]
                       \/ opening'[d] = opening[d] /\ loop[d] = "read"
    BY <1>0, <1>3 DEF ReadFrame, RefuseFrame, ReadError, ReadTimeout, FailToOpen, TypeOK
  <2> QED
    BY <1>0, <2>1, <2>2 DEF KeptInv, InsideInv
<1>5. ASSUME NEW e \in End, CloseConn_Wipe(e)
      PROVE  KeptInv' /\ InsideInv'
  <2>1. \A d \in End : conn'[d] = "open" =>
          conn[d] = "open" /\ sendr'[d] = sendr[d] /\ recv'[d] = recv[d]
    BY <1>0, <1>5 DEF CloseConn_Wipe, TypeOK
  <2>2. UNCHANGED <<opening, loop>>
    BY <1>5 DEF CloseConn_Wipe
  <2> QED
    BY <1>0, <2>1, <2>2 DEF KeptInv, InsideInv
<1>6. ASSUME NEW e \in End, CloseConn_Close(e)
      PROVE  KeptInv' /\ InsideInv'
  <2>1. \A d \in End : conn'[d] = "open" => conn[d] = "open"
    BY <1>0, <1>6 DEF CloseConn_Close, TypeOK
  <2>2. UNCHANGED <<sendr, recv, opening, loop>>
    BY <1>6 DEF CloseConn_Close
  <2> QED
    BY <1>0, <2>1, <2>2 DEF KeptInv, InsideInv
<1>4. CASE LinkDown \/ UNCHANGED vars
  BY <1>0, <1>4 DEF KeptInv, InsideInv, LinkDown, vars
<1> QED
  BY <1>1, <1>2, <1>3, <1>4, <1>5, <1>6 DEF Next, ReadLoop, Decrypt, CloseConn

\* Each action keeps the line, with one goroutine per end.
LEMMA NextLineUpInv ==
  ASSUME SingleWriter, WriterInv, [Next]_vars
  PROVE  LineUpInv'
<1> SUFFICES ASSUME AllOpen'
             PROVE  \A d \in End : /\ LineInv(d)'
                                   /\ link' = "up" => HeldInv(d)'
                                   /\ rejected'[d] = {}
  BY DEF LineUpInv
<1>0. TypeOK
  BY DEF WriterInv, OrderInv
<1>i. \A d \in End : opening[d] # {} => loop[d] = "open"
  BY DEF WriterInv, InsideInv
<1>f. /\ DOMAIN sendr = End /\ DOMAIN recv = End /\ DOMAIN sealing = End /\ DOMAIN writing = End
      /\ DOMAIN wire = End /\ DOMAIN conn = End /\ DOMAIN opening = End
  BY <1>0 DEF TypeOK
<1>a. AllOpen
  <2>1. \A d \in End : conn'[d] = "open" => conn[d] = "open"
    <3>1. ASSUME NEW e \in End, CloseConn(e) PROVE <2>1
      BY <1>f, <3>1 DEF CloseConn, CloseConn_Wipe, CloseConn_Close
    <3>2. ASSUME NEW e \in End, Send(e) \/ ReadLoop(e) PROVE <2>1
      BY <3>2 DEF Send, Encrypt, Seal, Write, ReadLoop, Decrypt, ReadFrame, RefuseFrame,
                  OpenFrame, FailToOpen, ReadError, ReadTimeout, ends
    <3> QED
      BY <3>1, <3>2 DEF Next, LinkDown, vars
  <2> QED
    BY <2>1 DEF AllOpen
<1>b. \A d \in End : LineInv(d) /\ (link = "up" => HeldInv(d)) /\ rejected[d] = {}
  BY <1>a DEF WriterInv, LineUpInv
<1>c. \A d \in End : /\ conn[d] = "open"
                     /\ sendr[d].key = DeriveKeys(d).send
                     /\ recv[d].key = DeriveKeys(d).recv
  BY <1>a DEF AllOpen, WriterInv, OrderInv, KeysInv, KeptInv
<1>1. ASSUME NEW e \in End, NEW p \in Plain, Encrypt(e, p), NEW d \in End
      PROVE  LineInv(d)' /\ (link' = "up" => HeldInv(d)') /\ rejected'[d] = {}
  <2> DEFINE c == [nonce |-> sendr[e].nonce, plain |-> p]
  <2>1. UNCHANGED <<recv, link, writing, wire, opening, rejected>>
    BY <1>1 DEF Encrypt
  <2>2. Expected(d)' = Expected(d) /\ Following(d)' = Following(d)
    BY <2>1 DEF Expected, Following
  <2>3. LineInv(d)' /\ rejected'[d] = {}
    BY <1>b, <2>1, <2>2 DEF LineInv
  <2>4. CASE d # e
    BY <1>f, <1>1, <1>b, <2>1, <2>3, <2>4, LineStutters DEF Encrypt
  <2>5. CASE d = e
    <3> SUFFICES ASSUME link = "up" PROVE HeldInv(e)'
      BY <2>1, <2>3, <2>5
    <3>1. sealing[e] = {} /\ writing[e] = {}
      <4>1. \A x : Cardinality({x}) = 1
        BY FS_Singleton, ZenonT(30)
      <4>2. Cardinality({}) = 0
        BY FS_EmptySet
      <4>3. InSend(e) < Writers[e] /\ Writers[e] \in Nat /\ Writers[e] <= 1
        BY <1>1, ChannelAssumption DEF Encrypt, SingleWriter
      <4>4. ASSUME NEW x, sealing[e] = {x}, writing[e] = {} PROVE FALSE
        <5>1. InSend(e) = 1 + 0
          BY <4>1, <4>2, <4>4, ZenonT(30) DEF InSend
        <5> QED
          BY <4>3, <5>1
      <4>5. ASSUME NEW x, sealing[e] = {}, writing[e] = {x} PROVE FALSE
        <5>1. InSend(e) = 0 + 1
          BY <4>1, <4>2, <4>5, ZenonT(30) DEF InSend
        <5> QED
          BY <4>3, <5>1
      <4> QED
        BY <1>b, <4>4, <4>5, ZenonT(30) DEF HeldInv
    <3>2. sendr[e].nonce = Following(e)
      BY <1>b, <3>1 DEF HeldInv
    <3>3. sealing'[e] = {c} /\ writing'[e] = {} /\ c \in sealing'[e]
      BY <1>f, <1>1, <2>1, <3>1 DEF Encrypt
    <3>4. sendr'[e].nonce = sendr[e].nonce + 1 /\ c.nonce = sendr[e].nonce
      BY <1>f, <1>1 DEF Encrypt, Advance
    <3> QED
      BY <2>2, <2>5, <3>2, <3>3, <3>4 DEF HeldInv
  <2> QED
    BY <2>4, <2>5
<1>2. ASSUME NEW e \in End, NEW c \in sealing[e], Seal(e, c), NEW d \in End
      PROVE  LineInv(d)' /\ (link' = "up" => HeldInv(d)') /\ rejected'[d] = {}
  <2> DEFINE f == [key |-> DeriveKeys(e).send, nonce |-> c.nonce, plain |-> c.plain]
  <2>1. UNCHANGED <<sendr, recv, link, wire, opening, rejected>>
    BY <1>2 DEF Seal
  <2>2. Expected(d)' = Expected(d) /\ Following(d)' = Following(d)
    BY <2>1 DEF Expected, Following
  <2>3. /\ writing' = [writing EXCEPT ![e] = @ \cup {f}]
        /\ sealing' = [sealing EXCEPT ![e] = @ \ {c}]
    <3>1. KeyBytes(sendr[e].key) = {DeriveKeys(e).send}
      BY <1>c, KeyFacts DEF KeyBytes
    <3> QED
      BY <1>2, <3>1, ZenonT(30) DEF Seal
  <2>4. CASE d # e
    BY <1>f, <1>b, <2>1, <2>3, <2>4, LineStutters
  <2>5. CASE d = e
    <3>1. /\ writing'[e] = writing[e] \cup {f} /\ sealing'[e] = sealing[e] \ {c}
          /\ f.nonce = c.nonce /\ f.key = DeriveKeys(e).send
      BY <1>f, <2>3
    <3> HIDE DEF f
    <3>2. LineInv(e)'
      BY <1>b, <2>1, <2>2, <2>5, <3>1 DEF LineInv
    <3>3. link' = "up" => HeldInv(e)'
      <4> SUFFICES ASSUME link = "up" PROVE HeldInv(e)'
        BY <2>1
      <4>1. sealing[e] = {c} /\ writing[e] = {} /\ c.nonce = Following(e)
              /\ sendr[e].nonce = Following(e) + 1
        BY <1>b, <1>2 DEF HeldInv
      <4>2. sealing'[e] = {} /\ writing'[e] = {f} /\ f \in writing'[e]
        BY <3>1, <4>1
      <4> QED
        BY <2>1, <2>2, <2>5, <3>1, <4>1, <4>2 DEF HeldInv
    <3> QED
      BY <1>b, <2>1, <2>5, <3>2, <3>3
  <2> QED
    BY <2>4, <2>5
<1>3. ASSUME NEW e \in End, NEW f \in writing[e], Write(e, f), NEW d \in End
      PROVE  LineInv(d)' /\ (link' = "up" => HeldInv(d)') /\ rejected'[d] = {}
  <2>1. UNCHANGED <<sendr, recv, link, sealing, opening, rejected>>
    BY <1>3 DEF Write, ends, history
  <2>2. /\ writing' = [writing EXCEPT ![e] = @ \ {f}]
        /\ wire' = IF link = "up" THEN [wire EXCEPT ![e] = Append(@, f)] ELSE wire
    BY <1>3, <1>c DEF Write
  <2>3. Expected(d)' = Expected(d)
    BY <2>1 DEF Expected
  <2>4. CASE d # e
    BY <1>f, <1>b, <2>1, <2>2, <2>4, LineStutters
  <2>5. CASE d = e /\ link # "up"
    <3>1. writing'[e] \subseteq writing[e] /\ wire' = wire
      BY <1>f, <2>2, <2>5
    <3> QED
      BY <1>b, <2>1, <2>3, <2>5, <3>1 DEF LineInv
  <2>6. CASE d = e /\ link = "up"
    <3>1. /\ sealing[e] = {} /\ writing[e] = {f} /\ f.nonce = Following(e)
          /\ sendr[e].nonce = Following(e) + 1
      BY <1>b, <2>6 DEF HeldInv
    <3>2. writing'[e] = {} /\ wire'[e] = Append(wire[e], f)
      BY <1>f, <2>2, <2>6, <3>1
    <3>3. /\ wire[e] \in Seq(Frame) /\ f \in Frame /\ f.key = DeriveKeys(e).send
          /\ Expected(e) \in Nat /\ Len(wire[e]) \in Nat
      BY <1>0, <1>b, LineNumbers DEF TypeOK, LineInv
    <3>4. /\ Len(wire'[e]) = Len(wire[e]) + 1
          /\ wire'[e][Len(wire[e]) + 1] = f
          /\ \A i \in 1 .. Len(wire[e]) : wire'[e][i] = wire[e][i]
      BY <3>2, <3>3
    <3>5. Following(e)' = Following(e) + 1
      BY <2>3, <2>6, <3>3, <3>4 DEF Following
    <3>6. HeldInv(e)'
      BY <2>1, <3>1, <3>2, <3>5 DEF HeldInv
    <3>7. ASSUME NEW i \in 1 .. Len(wire'[e])
          PROVE  wire'[e][i].nonce = Expected(e) + i - 1 /\ wire'[e][i].key = DeriveKeys(e).send
      <4>1. i \in 1 .. Len(wire[e]) \/ i = Len(wire[e]) + 1
        BY <3>3, <3>4
      <4>2. CASE i \in 1 .. Len(wire[e])
        BY <1>b, <3>4, <4>2 DEF LineInv
      <4>3. CASE i = Len(wire[e]) + 1
        BY <3>1, <3>3, <3>4, <4>3 DEF Following
      <4> QED
        BY <4>1, <4>2, <4>3
    <3>8. LineInv(e)'
      BY <1>b, <2>1, <2>3, <2>6, <3>2, <3>7 DEF LineInv
    <3> QED
      BY <1>b, <2>1, <2>6, <3>6, <3>8
  <2> QED
    BY <2>4, <2>5, <2>6
<1>4. ASSUME NEW e \in End, ReadFrame(e) \/ RefuseFrame(e), NEW d \in End
      PROVE  LineInv(d)' /\ (link' = "up" => HeldInv(d)') /\ rejected'[d] = {}
  <2> DEFINE s == Peer(e)
             h == Head(wire[s])
  <2>1. /\ s \in End /\ Peer(s) = e /\ s # e /\ \A x \in End : Peer(x) = e => x = s
        /\ wire[s] # <<>> /\ opening[e] = {}
    BY <1>i, <1>4, PeerFacts DEF ReadFrame, RefuseFrame
  <2>2. /\ wire[s] \in Seq(Frame) /\ Len(wire[s]) \in Nat /\ h = wire[s][1]
        /\ Len(Tail(wire[s])) = Len(wire[s]) - 1
        /\ \A i \in 1 .. Len(Tail(wire[s])) : Tail(wire[s])[i] = wire[s][i + 1]
        /\ 1 \in 1 .. Len(wire[s]) /\ recv[e].nonce \in Nat
    BY <1>0, <2>1, WireFacts, LineNumbers
  <2>3. Expected(s) = recv[e].nonce /\ h.nonce = recv[e].nonce /\ h.key = DeriveKeys(s).send
    BY <1>b, <2>1, <2>2 DEF Expected, LineInv
  <2>4. PassesCheck(e, h)
    BY <1>c, <2>3, KeyFacts DEF PassesCheck
  <2>5. ReadFrame(e)
    BY <1>4, <2>4 DEF RefuseFrame
  <2>6. /\ UNCHANGED <<sendr, recv, link, sealing, writing, rejected>>
        /\ wire' = [wire EXCEPT ![s] = Tail(@)] /\ opening' = [opening EXCEPT ![e] = {h}]
    BY <2>5 DEF ReadFrame, ends, history
  <2>7. CASE d # s
    <3>1. Peer(d) # e
      BY <2>1, <2>7
    <3>2. wire'[d] = wire[d] /\ opening'[Peer(d)] = opening[Peer(d)]
      BY <1>f, <2>6, <2>7, <3>1, PeerFacts
    <3> QED
      BY <1>b, <2>6, <3>2, LineStutters, ZenonT(30)
  <2>8. CASE d = s
    <3>1. wire'[s] = Tail(wire[s]) /\ opening'[e] = {h}
      BY <1>f, <2>1, <2>6
    <3>2. Expected(s)' = Expected(s) + 1 /\ Following(s)' = Following(s)
      <4>1. Expected(s)' = recv[e].nonce + 1
        BY <2>1, <2>6, <3>1, ZenonT(30) DEF Expected
      <4>2. Len(wire'[s]) = Len(wire[s]) - 1
        BY <2>2, <3>1
      <4>3. Following(s)' = Expected(s)' + Len(wire'[s]) /\ Following(s) = Expected(s) + Len(wire[s])
        BY DEF Following
      <4> HIDE DEF s
      <4> QED
        BY <2>2, <2>3, <4>1, <4>2, <4>3
    <3>3. ASSUME NEW i \in 1 .. Len(wire'[s])
          PROVE  wire'[s][i].nonce = Expected(s)' + i - 1 /\ wire'[s][i].key = DeriveKeys(s).send
      <4>1. i + 1 \in 1 .. Len(wire[s]) /\ wire'[s][i] = wire[s][i + 1]
        BY <2>2, <3>1
      <4>2. wire[s][i + 1].nonce = Expected(s) + (i + 1) - 1
        BY <1>b, <2>1, <4>1 DEF LineInv
      <4> QED
        <5>1. Expected(s) + (i + 1) - 1 = Expected(s)' + i - 1
          BY <2>2, <2>3, <3>2
        <5>2. wire[s][i + 1].key = DeriveKeys(s).send
          BY <1>b, <2>1, <4>1 DEF LineInv
        <5> QED
          BY <4>1, <4>2, <5>1, <5>2
    <3>4. LineInv(s)'
      BY <1>b, <2>1, <2>3, <2>6, <3>1, <3>3 DEF LineInv
    <3>5. link' = "up" => HeldInv(s)'
      BY <1>b, <2>1, <2>6, <3>2 DEF HeldInv
    <3> QED
      BY <1>b, <2>6, <2>8, <3>4, <3>5
  <2> QED
    BY <2>7, <2>8
<1>5. ASSUME NEW e \in End, NEW f \in opening[e], OpenFrame(e, f) \/ FailToOpen(e, f),
             NEW d \in End
      PROVE  LineInv(d)' /\ (link' = "up" => HeldInv(d)') /\ rejected'[d] = {}
  <2> DEFINE s == Peer(e)
  <2>1. s \in End /\ Peer(s) = e /\ \A x \in End : Peer(x) = e => x = s
    BY PeerFacts
  <2>2. f.key = recv[e].key /\ KeyBytes(recv[e].key) = {recv[e].key} /\ recv[e].key # TornKey
    BY <1>b, <1>c, <2>1, KeyFacts DEF LineInv, KeyBytes
  <2>3. OpenFrame(e, f)
    BY <1>5, <2>2 DEF FailToOpen, Opens
  <2>4. /\ UNCHANGED <<sendr, link, sealing, writing, wire, rejected>>
        /\ recv' = [recv EXCEPT ![e] = Count(@)] /\ opening' = [opening EXCEPT ![e] = {}]
    BY <2>3 DEF OpenFrame
  <2>5. CASE d # s
    <3>1. Peer(d) # e
      BY <2>1, <2>5
    <3>2. recv'[Peer(d)] = recv[Peer(d)] /\ opening'[Peer(d)] = opening[Peer(d)]
      BY <1>f, <2>4, <3>1, PeerFacts
    <3> QED
      BY <1>b, <2>4, <3>2, LineStutters
  <2>6. CASE d = s
    <3>1. recv'[e].nonce = recv[e].nonce + 1 /\ opening'[e] = {} /\ opening[e] # {}
      BY <1>f, <2>4 DEF Count
    <3>2. Expected(s)' = Expected(s) /\ Following(s)' = Following(s)
      <4>1. Expected(s)' = recv'[e].nonce + 0 /\ Expected(s) = recv[e].nonce + 1
        BY <2>1, <3>1 DEF Expected
      <4>2. recv[e].nonce \in Nat
        BY <1>0, <2>1, LineNumbers
      <4> QED
        BY <2>4, <3>1, <4>1, <4>2 DEF Following
    <3> QED
      BY <1>b, <2>1, <2>4, <2>6, <3>1, <3>2 DEF LineInv, HeldInv
  <2> QED
    BY <2>5, <2>6
<1>6. ASSUME UNCHANGED <<sendr, recv, link, sealing, writing, wire, opening, rejected>>, NEW d \in End
      PROVE  LineInv(d)' /\ (link' = "up" => HeldInv(d)') /\ rejected'[d] = {}
  BY <1>6, <1>b, LineStutters
<1>7. ASSUME NEW e \in End, CloseConn(e)
      PROVE  FALSE
  <2>1. conn'[e] # "open"
    BY <1>f, <1>7 DEF CloseConn, CloseConn_Wipe, CloseConn_Close
  <2> QED
    BY <2>1 DEF AllOpen
<1>8. ASSUME LinkDown, NEW d \in End
      PROVE  LineInv(d)' /\ (link' = "up" => HeldInv(d)') /\ rejected'[d] = {}
  <2>1. UNCHANGED <<recv, writing, opening, rejected>> /\ link' # "up"
    BY <1>8 DEF LinkDown, history
  <2>2. \A i \in 1 .. Len(wire'[d]) : i \in 1 .. Len(wire[d]) /\ wire'[d][i] = wire[d][i]
    BY <1>0, <1>8, CutFacts
  <2>3. Expected(d)' = Expected(d)
    BY <2>1 DEF Expected
  <2> QED
    BY <1>b, <2>1, <2>2, <2>3 DEF LineInv
<1> QED
  <2>1. ASSUME NEW e \in End, ReadError(e) \/ ReadTimeout(e)
        PROVE  UNCHANGED <<sendr, recv, link, sealing, writing, wire, opening, rejected>>
    BY <2>1 DEF ReadError, ReadTimeout, ends, history
  <2>2. CASE UNCHANGED vars
    BY <1>6, <2>2 DEF vars
  <2> QED
    BY <1>1, <1>2, <1>3, <1>4, <1>5, <1>6, <1>7, <1>8, <2>1, <2>2
    DEF Next, Send, ReadLoop, Decrypt

\* As long as no end sends from more than one goroutine, and until one of them begins to
\* close, decrypt refuses nothing: whatever is read carries the nonce that is expected and
\* opens under the key of its direction, also while the connection is lost.
THEOREM OneWriterNothingRefused ==
  ASSUME SingleWriter
  PROVE  Spec => []NothingRefused
<1>1. Init => WriterInv
  BY InitWriterInv
<1>2. WriterInv /\ [Next]_vars => WriterInv'
  BY NextOrderInv, NextKeptInv, NextLineUpInv DEF WriterInv
<1>3. WriterInv => NothingRefused
  BY DEF WriterInv, LineUpInv, AllOpen, NothingRefused
<1> QED
  BY <1>1, <1>2, <1>3, PTL DEF Spec

================================================================================
