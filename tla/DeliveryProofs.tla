------------------------------ MODULE DeliveryProofs ------------------------------
(* Proofs about Delivery, for any number of messages, flushes and sessions. *)
EXTENDS Delivery, TLAPS

\* Most leaves are propositional or about sets: Zenon first, which is the faster one there.
USE ZenonT(1), SMTT(30)

(* Type correctness. *)

LEMMA InitTypeOK == Init => TypeOK
<1> SUFFICES ASSUME Init PROVE TypeOK
  OBVIOUS
<1>1. LinkTypeOK
  <2>1. chan \in Seq(Signal)
    BY DEF Init
  <2>2. count \in 0 .. MaxSessions
    BY DeliveryAssumption DEF Init
  <2> QED
    BY <2>1, <2>2, ZenonT(30) DEF Init, LinkTypeOK
<1>2. ProcTypeOK
  BY DeliveryAssumption DEF Init, ProcTypeOK, Label
<1>3. TextTypeOK
  BY DeliveryAssumption DEF Init, TextTypeOK, Text, Change, Proc
<1> QED
  BY <1>1, <1>2, <1>3 DEF Init, TypeOK

LEMMA FlightTypeOK == TypeOK => ChangesInFlight \subseteq Msg
BY DEF TypeOK, TextTypeOK, ChangesInFlight

\* Taking a signal off the channel, and adding one that carries no change or one of a
\* message, leaves only changes of messages in flight.
LEMMA TailTexts ==
  ASSUME TypeOK, chan # <<>>, chan' = Tail(chan), about' = about
  PROVE  /\ chan' \in Seq(Signal)
         /\ \A i \in 1 .. Len(chan') : chan'[i] = chan[i + 1] /\ i + 1 \in 1 .. Len(chan)
         /\ \A i \in 1 .. Len(chan') : IsChange(chan'[i]) => about'[chan'[i].id] \in Msg
BY DEF TypeOK, LinkTypeOK, TextTypeOK

LEMMA AppendTexts ==
  ASSUME TypeOK, NEW sig \in Signal, chan' = Append(chan, sig), about' = about,
         IsChange(sig) => about[sig.id] \in Msg
  PROVE  /\ chan' \in Seq(Signal)
         /\ \A i \in 1 .. Len(chan') : IsChange(chan'[i]) => about'[chan'[i].id] \in Msg
BY DEF TypeOK, LinkTypeOK, TextTypeOK

LEMMA SignalTypes ==
  /\ Notice \in Signal /\ ~IsChange(Notice)
  /\ \A m \in Msg : Sig("message", m) \in Signal /\ ~IsChange(Sig("message", m))
  /\ \A c \in Edits : Sig("update", c) \in Signal
  /\ \A c \in Deletes : Sig("delete", c) \in Signal
BY DEF Notice, Sig, Signal, IsChange

LEMMA FindTypeOK ==
  ASSUME TypeOK, NEW c \in Change, NEW to \in {"edit", "erase"}, FindOwn(c, to) PROVE TypeOK'
<1>1. c \in Proc
  BY DEF Proc
<1>2. LinkTypeOK' /\ ProcTypeOK'
  BY <1>1 DEF TypeOK, FindOwn, Step, Goto, link, history, LinkTypeOK, ProcTypeOK, Label
<1>3. about' \in [Change -> Msg \cup {None}] /\ about'[c] \in Msg
      /\ \A d \in Change : d # c => about'[d] = about[d]
  BY DEF TypeOK, FindOwn, TextTypeOK
<1>4. \A d \in Change : pc'[d] \in {"edit", "erase", "update", "revoke"} => about'[d] \in Msg
  BY <1>1, <1>3 DEF TypeOK, FindOwn, Step, Goto, ProcTypeOK, TextTypeOK, Proc
<1>5. \A i \in 1 .. Len(chan') : IsChange(chan'[i]) => about'[chan'[i].id] \in Msg
  <2> SUFFICES ASSUME NEW i \in 1 .. Len(chan), IsChange(chan[i]) PROVE about'[chan[i].id] \in Msg
    BY DEF FindOwn, link
  <2>1. chan[i] \in Signal
    BY DEF TypeOK, LinkTypeOK
  <2>2. chan[i].id \in Change
    BY <2>1 DEF Signal, IsChange, Change, Notice, Sig
  <2> QED
    BY <1>3, <2>2 DEF TypeOK, TextTypeOK
<1> QED
  BY <1>2, <1>3, <1>4, <1>5 DEF TypeOK, FindOwn, TextTypeOK, link, history

LEMMA BroadcastTypeOK ==
  ASSUME TypeOK, NEW c \in Change, NEW from \in {"update", "revoke"}, NEW type, NEW text,
         Sig(type, c) \in Signal, Broadcast(c, from, type, text)
  PROVE  TypeOK'
<1>1. c \in Proc /\ about[c] \in Msg
  BY DEF TypeOK, TextTypeOK, Broadcast, Step, Proc
<1>2. /\ chan' \in Seq(Signal)
      /\ \A i \in 1 .. Len(chan') : IsChange(chan'[i]) => about'[chan'[i].id] \in Msg
  <2>1. Sig(type, c).id = c
    BY DEF Sig
  <2>2. CASE chan' = chan
    BY <2>2 DEF Broadcast, TypeOK, LinkTypeOK, TextTypeOK
  <2>3. CASE chan' = Append(chan, Sig(type, c))
    BY <1>1, <2>1, <2>3, AppendTexts DEF Broadcast
  <2> QED
    BY <2>2, <2>3 DEF Broadcast
<1>3. LinkTypeOK' /\ ProcTypeOK'
  BY <1>1, <1>2 DEF TypeOK, Broadcast, Step, Goto, history, LinkTypeOK, ProcTypeOK, Label
<1>4. TextTypeOK'
  BY <1>1, <1>2, ZenonT(30) DEF TypeOK, Broadcast, Step, Goto, Proc, ProcTypeOK, TextTypeOK
<1> QED
  BY <1>3, <1>4 DEF TypeOK, Broadcast, history

LEMMA NextTypeOK == TypeOK /\ [Next]_vars => TypeOK'
<1> SUFFICES ASSUME TypeOK, [Next]_vars PROVE TypeOK'
  OBVIOUS
<1> USE DEF TypeOK, Step, Goto, Return, link, local, texts, history
<1>1. ASSUME NEW m \in Msg, SendMessage(m) PROVE TypeOK'
  <2>1. m \in Proc /\ Change \subseteq Proc
    BY DEF Proc
  <2>2. CASE LoadSession(m)
    <3>1. TextTypeOK'
      BY <2>1, <2>2 DEF LoadSession, StoreOwn, ProcTypeOK, TextTypeOK, Text
    <3> QED
      BY <2>1, <2>2, <3>1 DEF LoadSession, LinkTypeOK, ProcTypeOK, Label
  <2>3. CASE LoadNone(m)
    <3>1. TextTypeOK'
      BY <2>1, <2>3 DEF LoadNone, StoreOwn, ProcTypeOK, TextTypeOK, Text
    <3> QED
      BY <2>1, <2>3, <3>1 DEF LoadNone, LinkTypeOK, ProcTypeOK, Label
  <2>4. CASE QueueSignal(m) \/ SendFails(m)
    <3>1. TextTypeOK'
      BY <2>1, <2>4, ZenonT(30) DEF QueueSignal, SendFails, ProcTypeOK, TextTypeOK
    <3>2. ProcTypeOK'
      BY <2>1, <2>4, DeliveryAssumption DEF QueueSignal, SendFails, ProcTypeOK, Label
    <3> QED
      BY <2>4, <3>1, <3>2 DEF QueueSignal, SendFails, LinkTypeOK
  <2>5. CASE SendNow(m)
    <3>1. LinkTypeOK'
      BY <2>5, SignalTypes DEF SendNow, Write, LinkTypeOK
    <3>2. ProcTypeOK'
      BY <2>1, <2>5, DeliveryAssumption DEF SendNow, ProcTypeOK, Label
    <3>3. \A i \in 1 .. Len(chan') : IsChange(chan'[i]) => about'[chan'[i].id] \in Msg
      BY <2>5, AppendTexts, SignalTypes DEF SendNow, Write
    <3>4. TextTypeOK'
      BY <2>1, <2>5, <3>3 DEF SendNow, ProcTypeOK, TextTypeOK
    <3> QED
      BY <2>5, <3>1, <3>2, <3>4 DEF SendNow, Write
  <2> QED
    BY <1>1, <2>2, <2>3, <2>4, <2>5 DEF SendMessage
<1>2. ASSUME NEW m \in Msg, RemoveEntry(m) PROVE TypeOK'
  BY <1>2 DEF RemoveEntry, LinkTypeOK, ProcTypeOK, TextTypeOK
<1>3. ASSUME NEW p \in Proc, NEW from \in {"idle", "start"}, FlushOutbox(p, from) PROVE TypeOK'
  <2> USE DeliveryAssumption DEF ProcTypeOK, Label
  <2>0. Change \subseteq Proc
    BY DEF Proc
  <2>1. CASE ReadOutbox(p, from)
    <3>1. TextTypeOK'
      BY <2>0, <1>3, <2>1 DEF ReadOutbox, TextTypeOK
    <3> QED
      BY <1>3, <2>1, <3>1 DEF ReadOutbox, LinkTypeOK
  <2>2. CASE FlushLoad(p)
    <3>1. TextTypeOK'
      BY <2>0, <2>2 DEF FlushLoad, TextTypeOK
    <3> QED
      BY <2>2, <3>1 DEF FlushLoad, LinkTypeOK
  <2>3. CASE FlushSend(p)
    <3>1. PICK m \in batch[p] : Write(m)
      BY <2>3 DEF FlushSend
    <3>2. m \in Msg
      BY <3>1
    <3>3. LinkTypeOK'
      BY <2>3, <3>1, <3>2, SignalTypes DEF FlushSend, Write, LinkTypeOK
    <3>4. \A i \in 1 .. Len(chan') : IsChange(chan'[i]) => about'[chan'[i].id] \in Msg
      BY <2>3, <3>1, <3>2, AppendTexts, SignalTypes, ZenonT(30) DEF FlushSend, Write
    <3>5. TextTypeOK'
      BY <2>0, <2>3, <3>4 DEF FlushSend, TextTypeOK
    <3>6. ProcTypeOK'
      BY <2>3 DEF FlushSend
    <3> QED
      BY <2>3, <3>1, <3>2, <3>3, <3>5, <3>6 DEF FlushSend, Write
  <2>4. CASE FlushFails(p) \/ FlushEnds(p)
    <3>1. TextTypeOK'
      BY <2>0, <2>4, ZenonT(30) DEF FlushFails, FlushEnds, TextTypeOK
    <3>2. ProcTypeOK'
      BY <2>4 DEF FlushFails, FlushEnds
    <3> QED
      BY <2>4, <3>1, <3>2 DEF FlushFails, FlushEnds, LinkTypeOK
  <2>5. CASE DeleteEntry(p)
    <3>1. TextTypeOK'
      BY <2>0, <2>5 DEF DeleteEntry, TextTypeOK
    <3> QED
      BY <2>5, <3>1 DEF DeleteEntry, LinkTypeOK
  <2> QED
    BY <1>3, <2>1, <2>2, <2>3, <2>4, <2>5 DEF FlushOutbox
<1>4. ASSUME NEW n \in Start, Started(n) PROVE TypeOK'
  <2>1. TextTypeOK'
    BY <1>4 DEF Started, Proc, ProcTypeOK, TextTypeOK
  <2> QED
    BY <1>4, <2>1 DEF Started, Proc, LinkTypeOK, ProcTypeOK, Label, Side
<1>5. CASE Connect
  <2>1. count + 1 \in Proc /\ count' \in 0 .. MaxSessions
    BY <1>5, DeliveryAssumption DEF Connect, Start, Proc, LinkTypeOK
  <2>2. row' \in [Side -> {None, "pending", "accepted"}]
    BY <1>5 DEF Connect, FirstRow, LinkTypeOK
  <2>3. stat' \in [Side -> {None, "pending", "accepted"}]
    BY <1>5 DEF Connect, FirstRow, LinkTypeOK, Side
  <2>4. LinkTypeOK'
    BY <1>5, <2>1, <2>2, <2>3 DEF Connect, LinkTypeOK
  <2>5. ProcTypeOK'
    BY <1>5, <2>1 DEF Connect, ProcTypeOK, Label
  <2>6. TextTypeOK'
    BY <1>5, <2>1 DEF Connect, Proc, ProcTypeOK, TextTypeOK
  <2> QED
    BY <1>5, <2>4, <2>5, <2>6 DEF Connect
<1>6. CASE Drop
  <2>1. chan' = <<>> /\ chan' \in Seq(Signal)
    BY <1>6 DEF Drop
  <2>2. TextTypeOK'
    BY <1>6, <2>1, FlightTypeOK DEF Drop, TextTypeOK
  <2> QED
    BY <1>6, <2>1, <2>2, ZenonT(30) DEF Drop, LinkTypeOK, ProcTypeOK
<1>7. CASE Unregister
  BY <1>7, ZenonT(30) DEF Unregister, LinkTypeOK, ProcTypeOK, TextTypeOK
<1>8. CASE ReceiveNotice
  BY <1>8, ZenonT(30) DEF ReceiveNotice, Accepted, LinkTypeOK, ProcTypeOK, TextTypeOK, Side
<1>9. CASE Receive
  <2>1. Head(chan) \in Signal /\ (IsChange(Head(chan)) => about[Head(chan).id] \in Msg)
    BY <1>9 DEF Receive, LinkTypeOK, TextTypeOK
  <2>2. LinkTypeOK'
    BY <1>9 DEF Receive, Accepted, LinkTypeOK, Side
  <2>3. theirs' \in [Msg -> Text] /\ missed' \subseteq Msg
    <3>1. CASE Ignore(Head(chan)) \/ UNCHANGED <<theirs, missed>>
      BY <2>1, <3>1 DEF Ignore, TextTypeOK
    <3>2. CASE Handle(Head(chan)) /\ Head(chan) # Notice
      BY <2>1, <3>2 DEF Handle, TextTypeOK, Text, Signal, IsChange
    <3> QED
      BY <1>9, <3>1, <3>2 DEF Receive
  <2>4. TextTypeOK'
    BY <1>9, <2>3, TailTexts DEF Receive, TextTypeOK
  <2>5. refused' \subseteq Msg
    BY <1>9, <2>1 DEF Receive, Signal, Notice, Sig
  <2> QED
    BY <1>9, <2>2, <2>4, <2>5 DEF Receive, ProcTypeOK
<1>10. CASE Restart
  <2>1. chan' = <<>> /\ chan' \in Seq(Signal)
    BY <1>10 DEF Restart
  <2>2. LinkTypeOK'
    BY <1>10, <2>1, ZenonT(30) DEF Restart, LinkTypeOK
  <2>3. ProcTypeOK'
    BY <1>10, DeliveryAssumption DEF Restart, ProcTypeOK, Label
  <2>4. TextTypeOK'
    BY <1>10, <2>1, FlightTypeOK DEF Restart, Announcing, Proc, TextTypeOK
  <2> QED
    BY <1>10, <2>2, <2>3, <2>4 DEF Restart
<1>11. ASSUME NEW x \in Side, Accept(x) PROVE TypeOK'
  <2>1. chan' = chan \/ chan' = Append(chan, Notice)
    BY <1>11 DEF Accept, AcceptRow, AcceptSession, AcceptNotice
  <2>2. /\ chan' \in Seq(Signal)
        /\ \A i \in 1 .. Len(chan') : IsChange(chan'[i]) => about'[chan'[i].id] \in Msg
    BY <1>11, <2>1, AppendTexts, SignalTypes DEF Accept, AcceptRow, AcceptSession, AcceptNotice, LinkTypeOK, TextTypeOK
  <2>3. UNCHANGED <<count, up, reg, outbox, local, texts, history>>
    BY <1>11 DEF Accept, AcceptRow, AcceptSession, AcceptNotice, link
  <2>4. /\ row' \in [Side -> {None, "pending", "accepted"}] /\ stat' \in [Side -> {None, "pending", "accepted"}]
        /\ admin' \in [Side -> {"idle", "session", "notice"}]
    BY <1>11 DEF Accept, AcceptRow, AcceptSession, AcceptNotice, AdminStep, LinkTypeOK
  <2>5. back' \in BOOLEAN
    BY <1>11, ZenonT(30) DEF Accept, AcceptRow, AcceptSession, AcceptNotice, link, LinkTypeOK
  <2> QED
    BY <2>2, <2>3, <2>4, <2>5 DEF LinkTypeOK, ProcTypeOK, TextTypeOK, local, texts, history
<1>12. ASSUME NEW c \in Edits, UpdateMessage(c) PROVE TypeOK'
  <2>1. c \in Change /\ Change \subseteq Proc
    BY DEF Change, Proc
  <2>2. CASE FindOwn(c, "edit")
    BY <2>1, <2>2, FindTypeOK
  <2>3. CASE StoreEdit(c)
    <3>1. TextTypeOK'
      BY <2>1, <2>3 DEF StoreEdit, ProcTypeOK, TextTypeOK, Text
    <3> QED
      BY <2>1, <2>3, <3>1 DEF StoreEdit, LinkTypeOK, ProcTypeOK, Label
  <2>4. CASE BroadcastUpdate(c)
    BY <2>1, <2>4, SignalTypes, BroadcastTypeOK DEF BroadcastUpdate
  <2> QED
    BY <1>12, <2>2, <2>3, <2>4 DEF UpdateMessage
<1>13. ASSUME NEW c \in Deletes, DeleteMessage(c) PROVE TypeOK'
  <2>1. c \in Change /\ Change \subseteq Proc
    BY DEF Change, Proc
  <2>2. CASE FindOwn(c, "erase")
    BY <2>1, <2>2, FindTypeOK
  <2>3. CASE DeleteOwn(c)
    <3>1. TextTypeOK'
      BY <2>1, <2>3 DEF DeleteOwn, ProcTypeOK, TextTypeOK, Text
    <3> QED
      BY <2>1, <2>3, <3>1 DEF DeleteOwn, LinkTypeOK, ProcTypeOK, Label
  <2>4. CASE BroadcastDelete(c)
    BY <2>1, <2>4, SignalTypes, BroadcastTypeOK DEF BroadcastDelete
  <2> QED
    BY <1>13, <2>2, <2>3, <2>4 DEF DeleteMessage
<1>14. ASSUME NEW m \in Typed, SendLine(m) PROVE TypeOK'
  <2>1. m \in Msg /\ m \in Proc /\ Change \subseteq Proc
    BY DeliveryAssumption DEF Proc
  <2>2. CASE LoadTyped(m)
    <3>1. TextTypeOK'
      BY <2>1, <2>2 DEF LoadTyped, StoreOwn, ProcTypeOK, TextTypeOK, Text
    <3> QED
      BY <2>1, <2>2, <3>1 DEF LoadTyped, LinkTypeOK, ProcTypeOK, Label
  <2>3. CASE SendTyped(m)
    <3>1. LinkTypeOK'
      <4>1. chan' = chan \/ chan' = Append(chan, Sig("message", m))
        BY <2>3 DEF SendTyped, Write
      <4>2. chan' \in Seq(Signal)
        BY <2>1, <4>1, SignalTypes DEF LinkTypeOK
      <4> QED
        BY <2>3, <4>2 DEF SendTyped, LinkTypeOK
    <3>2. ProcTypeOK'
      BY <2>1, <2>3, DeliveryAssumption DEF SendTyped, ProcTypeOK, Label
    <3>3. \A i \in 1 .. Len(chan') : IsChange(chan'[i]) => about'[chan'[i].id] \in Msg
      BY <2>1, <2>3, AppendTexts, SignalTypes DEF SendTyped, Write, TextTypeOK
    <3>4. TextTypeOK'
      BY <2>1, <2>3, <3>3 DEF SendTyped, ProcTypeOK, TextTypeOK
    <3> QED
      BY <2>1, <2>3, <3>1, <3>2, <3>4 DEF SendTyped, Write
  <2> QED
    BY <1>14, <2>2, <2>3 DEF SendLine
<1>15. CASE UNCHANGED vars
  BY <1>15 DEF vars, LinkTypeOK, ProcTypeOK, TextTypeOK
<1> QED
  BY <1>1, <1>2, <1>3, <1>4, <1>5, <1>6, <1>7, <1>8, <1>9, <1>10, <1>11, <1>12, <1>13, <1>14, <1>15
     DEF Next, AdminFlush, StartSession, Proc

\* Every value that requests, flushes, sessions and restarts leave behind is one the
\* code can handle; an entry is to be deleted exactly between its send and its delete.
THEOREM TypeCorrect == Spec => []TypeOK
BY InitTypeOK, NextTypeOK, PTL DEF Spec

----------------------------------------------------------------------------------
(* The outbox.  NoSilentLoss alone is not inductive: that an entry may be deleted    *)
(* rests on the flush having written it, which is what the second conjunct keeps.    *)

OutboxInv ==
  /\ NoSilentLoss
  /\ \A p \in Proc : pc[p] = "delete" => entry[p] \in written

LEMMA NextOutboxInv == TypeOK /\ OutboxInv /\ [Next]_vars => OutboxInv'
<1> SUFFICES ASSUME TypeOK, OutboxInv, [Next]_vars PROVE OutboxInv'
  OBVIOUS
<1> USE DeliveryAssumption DEF TypeOK, ProcTypeOK, OutboxInv, NoSilentLoss, Step, Goto, link, local,
        history, Proc
<1>1. ASSUME NEW m \in Msg, SendMessage(m) PROVE OutboxInv'
  BY <1>1 DEF SendMessage, LoadSession, LoadNone, QueueSignal, SendNow, SendFails, Write
<1>2. ASSUME NEW m \in Msg, RemoveEntry(m) PROVE OutboxInv'
  BY <1>2 DEF RemoveEntry
<1>3. ASSUME NEW p \in Flushes \cup Start, NEW from \in {"idle", "start"}, FlushOutbox(p, from)
      PROVE OutboxInv'
  <2>1. CASE ReadOutbox(p, from)
    BY <2>1 DEF ReadOutbox
  <2>2. CASE FlushLoad(p)
    BY <2>2 DEF FlushLoad
  <2>3. CASE FlushSend(p)
    BY <2>3 DEF FlushSend, Write
  <2>4. CASE FlushFails(p) \/ FlushEnds(p)
    BY <2>4 DEF FlushFails, FlushEnds
  <2>5. CASE DeleteEntry(p)
    BY <2>5 DEF DeleteEntry
  <2> QED
    BY <1>3, <2>1, <2>2, <2>3, <2>4, <2>5 DEF FlushOutbox
<1>4. ASSUME NEW n \in Start, Started(n) PROVE OutboxInv'
  BY <1>4 DEF Started
<1>5. CASE Connect
  <2>1. count + 1 \in Start
    BY <1>5 DEF Connect, Start, LinkTypeOK
  <2> QED
    BY <1>5, <2>1 DEF Connect
<1>6. CASE Drop \/ Unregister \/ ReceiveNotice \/ Receive
  BY <1>6 DEF Drop, Unregister, ReceiveNotice, Receive
<1>7. CASE Restart
  BY <1>7 DEF Restart
<1>8. ASSUME NEW x \in Side, Accept(x) PROVE OutboxInv'
  BY <1>8 DEF Accept, AcceptRow, AcceptSession, AcceptNotice
<1>9. ASSUME NEW c \in Change, UpdateMessage(c) \/ DeleteMessage(c) PROVE OutboxInv'
  BY <1>9 DEF BroadcastUpdate, UpdateMessage, BroadcastDelete, DeleteMessage, FindOwn, StoreEdit, DeleteOwn, Broadcast
<1>10. ASSUME NEW m \in Typed, SendLine(m) PROVE OutboxInv'
  BY <1>10 DEF SendLine, LoadTyped, SendTyped, Write
<1>11. CASE UNCHANGED vars
  BY <1>11 DEF vars
<1> QED
  BY <1>1, <1>2, <1>3, <1>4, <1>5, <1>6, <1>7, <1>8, <1>9, <1>10, <1>11
     DEF Next, AdminFlush, StartSession, Change

LEMMA OutboxInvariant == Spec => [](TypeOK /\ OutboxInv)
<1>1. Init => OutboxInv
  BY DeliveryAssumption DEF Init, OutboxInv, NoSilentLoss, Proc
<1> QED
  BY <1>1, TypeCorrect, NextOutboxInv, PTL DEF Spec

\* A message that was answered for is in the outbox, was written to a connection or
\* was removed by an admin: for every interleaving of requests, flushes and restarts.
THEOREM NothingIsLostSilently == Spec => []NoSilentLoss
<1>1. OutboxInv => NoSilentLoss
  BY DEF OutboxInv
<1> QED
  BY <1>1, OutboxInvariant, PTL

\* No step takes an entry out of the outbox that was neither written nor removed by
\* an admin: in particular not a failing flush, nor a restart in the middle of one.
THEOREM OutboxKeepsUnwritten == Spec => DeletedOnlyWhenWritten
<1>1. TypeOK /\ OutboxInv /\ [Next]_vars
        => [\A m \in outbox \ outbox' : m \in written \/ m \in removed']_vars
  <2> SUFFICES ASSUME TypeOK, OutboxInv, Next, NEW m \in outbox \ outbox'
               PROVE m \in written \/ m \in removed'
    OBVIOUS
  <2> USE DEF link, local, history
  <2>1. ASSUME NEW k \in Msg, SendMessage(k) PROVE m \in written \/ m \in removed'
    BY <2>1 DEF SendMessage, LoadSession, LoadNone, QueueSignal, SendNow, SendFails
  <2>2. ASSUME NEW k \in Msg, RemoveEntry(k) PROVE m \in written \/ m \in removed'
    BY <2>2 DEF RemoveEntry
  <2>3. ASSUME NEW p \in Proc, NEW from \in {"idle", "start"}, FlushOutbox(p, from)
        PROVE m \in written \/ m \in removed'
    BY <2>3 DEF FlushOutbox, ReadOutbox, FlushLoad, FlushSend, FlushFails, FlushEnds, DeleteEntry,
       OutboxInv, Step
  <2>4. CASE Connect \/ Drop \/ Unregister \/ ReceiveNotice \/ Receive \/ Restart
    BY <2>4 DEF Connect, Drop, Unregister, ReceiveNotice, Receive, Restart
  <2>5. ASSUME NEW n \in Start, Started(n) PROVE m \in written \/ m \in removed'
    BY <2>5 DEF Started
  <2>6. ASSUME NEW x \in Side, Accept(x) PROVE m \in written \/ m \in removed'
    BY <2>6 DEF Accept, AcceptRow, AcceptSession, AcceptNotice
  <2>7. ASSUME NEW c \in Change, UpdateMessage(c) \/ DeleteMessage(c)
        PROVE m \in written \/ m \in removed'
    BY <2>7 DEF BroadcastUpdate, UpdateMessage, BroadcastDelete, DeleteMessage, FindOwn, StoreEdit, DeleteOwn, Broadcast
  <2>8. ASSUME NEW k \in Typed, SendLine(k) PROVE m \in written \/ m \in removed'
    BY <2>8 DEF SendLine, LoadTyped, SendTyped
  <2> QED
    BY <2>1, <2>2, <2>3, <2>4, <2>5, <2>6, <2>7, <2>8 DEF Next, AdminFlush, StartSession, Proc, Change
<1> QED
  BY <1>1, OutboxInvariant, PTL DEF Spec, DeletedOnlyWhenWritten

----------------------------------------------------------------------------------
(* The peer's copies.  DeletedStaysGone is not a consequence of the step alone: that  *)
(* no message arrives over a deleted copy rests on a message being written once, and *)
(* on being in flight, once, only while the peer has no copy of it.                  *)

InFlight(m, i) == i \in 1 .. Len(chan) /\ chan[i] = Sig("message", m)

CopyInv ==
  \A m \in Msg :
    /\ m \notin written => theirs[m] = None /\ \A i \in 1 .. Len(chan) : ~InFlight(m, i)
    /\ m \notin again =>
         \A i \in 1 .. Len(chan) :
           InFlight(m, i) => theirs[m] = None /\ \A j \in 1 .. Len(chan) : InFlight(m, j) => i = j

LEMMA WriteKeepsCopies ==
  ASSUME TypeOK, CopyInv, NEW m \in Msg, Write(m), UNCHANGED theirs PROVE CopyInv'
<1> SUFFICES ASSUME NEW k \in Msg
    PROVE /\ k \notin written' => theirs'[k] = None /\ \A i \in 1 .. Len(chan') : ~InFlight(k, i)'
          /\ k \notin again' =>
               \A i \in 1 .. Len(chan') :
                 InFlight(k, i)' =>
                   theirs'[k] = None /\ \A j \in 1 .. Len(chan') : InFlight(k, j)' => i = j
  BY DEF CopyInv
<1>1. /\ Len(chan') = Len(chan) + 1 /\ Len(chan) \in Nat
      /\ chan'[Len(chan) + 1] = Sig("message", m)
      /\ \A i \in 1 .. Len(chan) : chan'[i] = chan[i]
  BY DEF Write, TypeOK, LinkTypeOK
<1>2. \A i \in 1 .. Len(chan') : i # Len(chan) + 1 => i \in 1 .. Len(chan) /\ InFlight(k, i)' = InFlight(k, i)
  BY <1>1 DEF InFlight
<1>3. CASE k # m
  <2>1. \A i \in 1 .. Len(chan') : InFlight(k, i)' => i \in 1 .. Len(chan) /\ InFlight(k, i)
    BY <1>1, <1>3 DEF InFlight, Sig
  <2>2. (k \in written' <=> k \in written) /\ (k \in again' <=> k \in again)
    BY <1>3 DEF Write
  <2> QED
    BY <2>1, <2>2 DEF CopyInv
<1>4. CASE k = m
  <2>1. k \in written'
    BY <1>4 DEF Write
  <2>2. ASSUME k \notin again' PROVE k \notin written /\ k \notin again
    BY <1>4, <2>2 DEF Write
  <2> QED
    BY <1>2, <2>1, <2>2 DEF CopyInv
<1> QED
  BY <1>3, <1>4

\* A signal that carries no message leaves the copies of the peer and what is in flight.
LEMMA OtherKeepsCopies ==
  ASSUME TypeOK, CopyInv, NEW sig \in Signal, sig.type # "message", chan' = Append(chan, sig),
         UNCHANGED <<theirs, written, again>>
  PROVE  CopyInv'
<1>1. \A m \in Msg, i \in 1 .. Len(chan') : InFlight(m, i)' => i \in 1 .. Len(chan) /\ InFlight(m, i)
  BY DEF InFlight, Sig, TypeOK, LinkTypeOK
<1> QED
  BY <1>1 DEF CopyInv

LEMMA ReceiveKeepsCopies ==
  ASSUME TypeOK, CopyInv, Receive
  PROVE  /\ CopyInv'
         /\ \A m \in Msg : theirs[m] = "deleted" /\ theirs'[m] # "deleted" => m \in again
<1>1. /\ Head(chan) \in Signal /\ Head(chan) = chan[1] /\ 1 \in 1 .. Len(chan)
      /\ chan' = Tail(chan) /\ chan # <<>> /\ about' = about
  BY DEF Receive, TypeOK, LinkTypeOK
<1>2. \A i \in 1 .. Len(chan') : chan'[i] = chan[i + 1] /\ i + 1 \in 1 .. Len(chan) /\ i \in Nat \ {0}
  BY <1>1, TailTexts
<1>3. \A m \in Msg, i \in 1 .. Len(chan') : InFlight(m, i)' => InFlight(m, i + 1)
  BY <1>2 DEF InFlight
<1>4. ASSUME NEW m \in Msg, theirs'[m] # theirs[m]
      PROVE \/ Head(chan) = Sig("message", m)
            \/ theirs[m] \notin {None, "deleted"}
  <2>1. Handle(Head(chan)) /\ Head(chan) # Notice
    BY <1>4 DEF Receive, Ignore
  <2> QED
    BY <1>1, <1>4, <2>1 DEF Handle, Present, Signal, Sig, TypeOK, TextTypeOK
<1>5. ASSUME NEW m \in Msg, theirs'[m] # theirs[m], theirs[m] \in {None, "deleted"}
      PROVE InFlight(m, 1)
  BY <1>1, <1>4, <1>5 DEF InFlight
<1>6. CopyInv'
  <2> SUFFICES ASSUME NEW m \in Msg
      PROVE /\ m \notin written => theirs'[m] = None /\ \A i \in 1 .. Len(chan') : ~InFlight(m, i)'
            /\ m \notin again =>
                 \A i \in 1 .. Len(chan') :
                   InFlight(m, i)' =>
                     theirs'[m] = None /\ \A j \in 1 .. Len(chan') : InFlight(m, j)' => i = j
    BY DEF CopyInv, Receive
  <2>1. ASSUME m \notin written PROVE theirs'[m] = None /\ \A i \in 1 .. Len(chan') : ~InFlight(m, i)'
    BY <1>1, <1>2, <1>3, <1>5, <2>1 DEF CopyInv
  <2>2. ASSUME m \notin again, NEW i \in 1 .. Len(chan'), InFlight(m, i)'
        PROVE theirs'[m] = None /\ \A j \in 1 .. Len(chan') : InFlight(m, j)' => i = j
    <3>1. InFlight(m, i + 1) /\ i + 1 \in 1 .. Len(chan) /\ i \in Nat \ {0}
      BY <1>2, <1>3, <2>2
    <3>2. theirs[m] = None /\ \A j \in 1 .. Len(chan) : InFlight(m, j) => i + 1 = j
      BY <2>2, <3>1 DEF CopyInv
    <3>3. ~InFlight(m, 1)
      BY <1>1, <3>1, <3>2
    <3>4. theirs'[m] = None
      BY <1>5, <3>2, <3>3
    <3>5. ASSUME NEW j \in 1 .. Len(chan'), InFlight(m, j)' PROVE i = j
      BY <1>2, <1>3, <3>1, <3>2, <3>5
    <3> QED
      BY <3>4, <3>5
  <2> QED
    BY <2>1, <2>2
<1>7. ASSUME NEW m \in Msg, theirs[m] = "deleted", theirs'[m] # "deleted" PROVE m \in again
  BY <1>1, <1>5, <1>7, DeliveryAssumption DEF CopyInv
<1> QED
  BY <1>6, <1>7

LEMMA NextCopies ==
  ASSUME TypeOK, CopyInv, [Next]_vars
  PROVE  CopyInv' /\ [\A m \in Msg : theirs[m] = "deleted" /\ theirs'[m] # "deleted" => m \in again]_vars
<1> USE DEF link, local, texts, history
<1>1. ASSUME UNCHANGED <<chan, theirs, written, again>>
      PROVE  /\ CopyInv'
             /\ \A m \in Msg : theirs[m] = "deleted" /\ theirs'[m] # "deleted" => m \in again
  BY <1>1 DEF CopyInv, InFlight
<1>2. ASSUME NEW m \in Msg, Write(m), UNCHANGED theirs
      PROVE  /\ CopyInv'
             /\ \A k \in Msg : theirs[k] = "deleted" /\ theirs'[k] # "deleted" => k \in again
  BY <1>2, WriteKeepsCopies
<1>3. ASSUME NEW sig \in Signal, sig.type # "message", chan' = Append(chan, sig),
             UNCHANGED <<theirs, written, again>>
      PROVE  /\ CopyInv'
             /\ \A k \in Msg : theirs[k] = "deleted" /\ theirs'[k] # "deleted" => k \in again
  BY <1>3, OtherKeepsCopies
<1>4. ASSUME chan' = <<>>, UNCHANGED <<theirs, written, again>>
      PROVE  /\ CopyInv'
             /\ \A k \in Msg : theirs[k] = "deleted" /\ theirs'[k] # "deleted" => k \in again
  BY <1>4 DEF CopyInv, InFlight
<1>5. ASSUME NEW m \in Msg, SendMessage(m) \/ SendLine(m)
      PROVE  UNCHANGED <<chan, theirs, written, again>> \/ (Write(m) /\ UNCHANGED theirs)
  BY <1>5 DEF SendMessage, LoadSession, LoadNone, QueueSignal, SendNow, SendFails, StoreOwn,
     SendLine, LoadTyped, SendTyped
<1>6. ASSUME NEW p \in Proc, NEW from \in {"idle", "start"}, FlushOutbox(p, from)
      PROVE  \/ UNCHANGED <<chan, theirs, written, again>>
             \/ \E m \in Msg : Write(m) /\ UNCHANGED theirs
  <2>1. CASE FlushSend(p)
    <3>1. PICK m \in batch[p] : Write(m)
      BY <2>1 DEF FlushSend
    <3> QED
      BY <2>1, <3>1 DEF FlushSend, TypeOK, ProcTypeOK
  <2>2. CASE ~FlushSend(p)
    BY <1>6, <2>2 DEF FlushOutbox, ReadOutbox, FlushLoad, FlushFails, FlushEnds, DeleteEntry
  <2> QED
    BY <2>1, <2>2
<1>7. ASSUME \/ \E c \in Edits : UpdateMessage(c)
             \/ \E c \in Deletes : DeleteMessage(c)
      PROVE  \/ UNCHANGED <<chan, theirs, written, again>>
             \/ \E sig \in Signal : /\ sig.type # "message" /\ chan' = Append(chan, sig)
                                    /\ UNCHANGED <<theirs, written, again>>
  <2>1. ASSUME NEW c \in Edits, UpdateMessage(c)
        PROVE  \/ UNCHANGED <<chan, theirs, written, again>>
               \/ /\ chan' = Append(chan, Sig("update", c)) /\ UNCHANGED <<theirs, written, again>>
    BY <2>1 DEF BroadcastUpdate, UpdateMessage, FindOwn, StoreEdit, Broadcast
  <2>2. ASSUME NEW c \in Deletes, DeleteMessage(c)
        PROVE  \/ UNCHANGED <<chan, theirs, written, again>>
               \/ /\ chan' = Append(chan, Sig("delete", c)) /\ UNCHANGED <<theirs, written, again>>
    BY <2>2 DEF BroadcastDelete, DeleteMessage, FindOwn, DeleteOwn, Broadcast
  <2>3. \A c : Sig("update", c).type # "message" /\ Sig("delete", c).type # "message"
    BY DEF Sig
  <2> QED
    BY <1>7, <2>1, <2>2, <2>3, SignalTypes
<1>8. ASSUME NEW x \in Side, Accept(x)
      PROVE  \/ UNCHANGED <<chan, theirs, written, again>>
             \/ /\ Notice.type # "message" /\ chan' = Append(chan, Notice)
                /\ UNCHANGED <<theirs, written, again>>
  BY <1>8 DEF Accept, AcceptRow, AcceptSession, AcceptNotice, Notice, Sig
<1>9. CASE Drop \/ Restart
  BY <1>4, <1>9 DEF Drop, Restart
<1>10. ASSUME \/ Connect \/ Unregister \/ ReceiveNotice \/ (\E n \in Start : Started(n))
              \/ (\E m \in Msg : RemoveEntry(m)) \/ UNCHANGED vars
       PROVE  UNCHANGED <<chan, theirs, written, again>>
  BY <1>10 DEF Connect, Unregister, ReceiveNotice, Started, RemoveEntry, vars
<1>11. Typed \subseteq Msg /\ \A p \in Flushes \cup Start : p \in Proc
  BY DeliveryAssumption DEF Proc
<1> QED
  BY <1>1, <1>2, <1>3, <1>4, <1>5, <1>6, <1>7, <1>8, <1>9, <1>10, <1>11, SignalTypes,
     ReceiveKeepsCopies DEF Next, AdminFlush, StartSession

LEMMA InitCopies == Init => CopyInv
<1> SUFFICES ASSUME Init PROVE CopyInv
  OBVIOUS
<1>1. \A m \in Msg : theirs[m] = None
  BY ZenonT(30) DEF Init
<1>2. \A i \in 1 .. Len(chan) : FALSE
  BY DEF Init
<1> QED
  BY <1>1, <1>2, Zenon DEF CopyInv

\* A message that was deleted at the peer stays deleted there unless it was written to a
\* connection twice: for any number of messages, edits, deletes, flushes and sessions.
THEOREM DeletionReachesForGood == Spec => DeletedStaysGone
<1>1. TypeOK /\ CopyInv /\ [Next]_vars => CopyInv'
  BY NextCopies
<1>2. TypeOK /\ CopyInv /\ [Next]_vars
        => [\A m \in Msg : theirs[m] = "deleted" /\ theirs'[m] # "deleted" => m \in again]_vars
  BY NextCopies
<1> QED
  BY <1>1, <1>2, InitCopies, TypeCorrect, PTL DEF Spec, DeletedStaysGone
----------------------------------------------------------------------------------
(* The two copies in step.  The invariant follows the last signal about a message    *)
(* that is in flight: when it has arrived, the peer's copy says what the sender's     *)
(* does, unless a change is still to be broadcast.  It takes in the time before the   *)
(* message is written (a change that overtakes it will be missed), that a message is  *)
(* stored before it is sent, and that a request runs once.                           *)

Subject(sig) == IF sig.type = "message" THEN sig.id ELSE about[sig.id]
Carries(sig, m) == sig # Notice /\ Subject(sig) = m

\* What the peer's copy says when the signal has been handled.
Says(sig) ==
  IF sig.type = "message" THEN "original" ELSE IF sig.type = "update" THEN sig.id ELSE "deleted"

InChan(m) == \E i \in 1 .. Len(chan) : Carries(chan[i], m)
Announced(m) == \E c \in Announcing : about[c] = m

\* The peer has a copy, or will have one before a change of it arrives.
Reaches(m) ==
  \/ theirs[m] # None
  \/ \E i \in 1 .. Len(chan) :
       chan[i] = Sig("message", m) /\ \A j \in 1 .. Len(chan) : j < i => ~Carries(chan[j], m)

LastText(m) ==
  /\ ~InChan(m) => theirs[m] = mine[m]
  /\ \A i \in 1 .. Len(chan) :
       Carries(chan[i], m) /\ (\A j \in 1 .. Len(chan) : j > i => ~Carries(chan[j], m))
         => Says(chan[i]) = mine[m]

Unwritten(m) == m \notin written \cup missed /\ ~Announced(m) /\ ~InChan(m) => mine[m] \in {None, "original"}
Followed(m)  == m \notin missed \cup again /\ ~Announced(m) /\ Reaches(m) => LastText(m)

FollowInv == \A m \in Msg : Unwritten(m) /\ Followed(m)

\* A message is stored before it can be sent or queued, by a request that has begun.
Unsent == {"send", "typed", "queue"}
Held(m) == m \in outbox \cup written \/ \E p \in Proc : m \in batch[p]

StoredInv ==
  \A m \in Msg : /\ Held(m) => pc[m] # "idle" /\ mine[m] # None
                 /\ pc[m] \in Unsent => mine[m] # None

\* So is a change before it is in flight.
ChangeInv == \A i \in 1 .. Len(chan) : IsChange(chan[i]) => pc[chan[i].id] # "idle"

LEMMA CarryFacts ==
  ASSUME TypeOK, NEW sig \in Signal, NEW m \in Msg
  PROVE  /\ Carries(Sig("message", m), m) /\ Says(Sig("message", m)) = "original"
         /\ \A k \in Msg : Carries(Sig("message", m), k) => k = m
         /\ Carries(sig, m) => \/ sig = Sig("message", m)
                               \/ IsChange(sig) /\ about[sig.id] = m /\ sig.id \in Change
         /\ IsChange(sig) => sig # Notice /\ sig.type # "message" /\ sig.id \in Change
         /\ IsChange(sig) /\ about[sig.id] = m => Carries(sig, m)
         /\ ~Carries(Notice, m)
  BY DEF Carries, Subject, Says, Sig, Notice, Signal, IsChange, Change

\* What happened to the message m, if anything, only adds to the reasons for a copy to be
\* out of step.
Kept(m) ==
  /\ mine'[m] = mine[m] /\ theirs'[m] = theirs[m]
  /\ (m \in missed => m \in missed') /\ (m \in written => m \in written') /\ (m \in again => m \in again')
  /\ Announced(m) => Announced(m)'

LEMMA SameKeeps ==
  ASSUME TypeOK, NEW m \in Msg, Unwritten(m), Followed(m), Kept(m), chan' = chan,
         \A i \in 1 .. Len(chan) : Carries(chan[i], m)' <=> Carries(chan[i], m)
  PROVE  Unwritten(m)' /\ Followed(m)'
<1>1. InChan(m)' <=> InChan(m)
  BY DEF InChan
<1>2. Reaches(m)' => Reaches(m)
  BY DEF Reaches, Kept
<1>3. LastText(m) => LastText(m)'
  BY <1>1 DEF LastText, Kept
<1> QED
  BY <1>1, <1>2, <1>3 DEF Unwritten, Followed, Kept

LEMMA AppendKeeps ==
  ASSUME TypeOK, NEW m \in Msg, Unwritten(m), Followed(m), Kept(m), NEW sig \in Signal,
         chan' = Append(chan, sig), about' = about, ~Carries(sig, m)
  PROVE  Unwritten(m)' /\ Followed(m)'
<1>1. /\ Len(chan) \in Nat /\ Len(chan') = Len(chan) + 1 /\ chan'[Len(chan) + 1] = sig
      /\ \A i \in 1 .. Len(chan) : chan'[i] = chan[i]
  BY DEF TypeOK, LinkTypeOK
<1>2. \A i \in 1 .. Len(chan') : i \in 1 .. Len(chan) \/ i = Len(chan) + 1
  BY <1>1
<1>3. \A i \in 1 .. Len(chan) : i \in 1 .. Len(chan') /\ (Carries(chan[i], m)' <=> Carries(chan[i], m))
  BY <1>1 DEF Carries, Subject
<1>4. ASSUME NEW i \in 1 .. Len(chan'), Carries(chan[i], m)' PROVE i \in 1 .. Len(chan) /\ Carries(chan[i], m)
  BY <1>1, <1>2, <1>3, <1>4 DEF Carries, Subject
<1>5. InChan(m)' <=> InChan(m)
  BY <1>3, <1>4 DEF InChan
<1>6. Reaches(m)' => Reaches(m)
  <2> SUFFICES ASSUME NEW i \in 1 .. Len(chan'), chan'[i] = Sig("message", m),
                      \A j \in 1 .. Len(chan') : j < i => ~Carries(chan[j], m)'
               PROVE  Reaches(m)
    BY DEF Reaches, Kept
  <2>1. Carries(chan[i], m)'
    BY CarryFacts DEF Carries, Subject
  <2>2. i \in 1 .. Len(chan) /\ chan[i] = Sig("message", m)
    BY <1>1, <1>4, <2>1
  <2> QED
    BY <1>3, <2>2 DEF Reaches
<1>7. LastText(m) => LastText(m)'
  <2> SUFFICES ASSUME LastText(m), NEW i \in 1 .. Len(chan'), Carries(chan[i], m)',
                      \A j \in 1 .. Len(chan') : j > i => ~Carries(chan[j], m)'
               PROVE  Says(chan'[i]) = mine'[m]
    BY <1>5 DEF LastText, Kept, Says
  <2>1. i \in 1 .. Len(chan) /\ Carries(chan[i], m) /\ chan'[i] = chan[i]
    BY <1>1, <1>4
  <2>2. \A j \in 1 .. Len(chan) : j > i => ~Carries(chan[j], m)
    BY <1>3
  <2> QED
    BY <2>1, <2>2 DEF LastText, Kept
<1> QED
  BY <1>5, <1>6, <1>7 DEF Unwritten, Followed, Kept

LEMMA TailKeeps ==
  ASSUME TypeOK, NEW m \in Msg, Unwritten(m), Followed(m), Kept(m), chan # <<>>,
         chan' = Tail(chan), about' = about, ~Carries(chan[1], m)
  PROVE  Unwritten(m)' /\ Followed(m)'
<1>1. /\ Len(chan) \in Nat \ {0} /\ Len(chan') = Len(chan) - 1
      /\ \A i \in 1 .. Len(chan') : chan'[i] = chan[i + 1] /\ i + 1 \in 1 .. Len(chan)
  BY DEF TypeOK, LinkTypeOK
<1>2. \A i \in 1 .. Len(chan') : Carries(chan[i], m)' <=> Carries(chan[i + 1], m)
  BY <1>1 DEF Carries, Subject
<1>3. ASSUME NEW i \in 1 .. Len(chan), Carries(chan[i], m)
      PROVE  i - 1 \in 1 .. Len(chan') /\ (i - 1) + 1 = i /\ Carries(chan[i - 1], m)'
  <2>1. i # 1
    BY <1>3
  <2>2. i - 1 \in 1 .. Len(chan') /\ (i - 1) + 1 = i
    BY <1>1, <2>1
  <2> QED
    BY <1>2, <1>3, <2>2
<1>4. InChan(m)' <=> InChan(m)
  BY <1>1, <1>2, <1>3 DEF InChan
<1>5. Reaches(m)' => Reaches(m)
  <2> SUFFICES ASSUME NEW i \in 1 .. Len(chan'), chan'[i] = Sig("message", m),
                      \A j \in 1 .. Len(chan') : j < i => ~Carries(chan[j], m)'
               PROVE  Reaches(m)
    BY DEF Reaches, Kept
  <2>1. i + 1 \in 1 .. Len(chan) /\ chan[i + 1] = Sig("message", m)
    BY <1>1
  <2>2. ASSUME NEW j \in 1 .. Len(chan), j < i + 1, Carries(chan[j], m) PROVE FALSE
    <3>1. j - 1 \in 1 .. Len(chan') /\ Carries(chan[j - 1], m)'
      BY <1>3, <2>2
    <3>2. j - 1 < i
      BY <2>2
    <3> QED
      BY <3>1, <3>2
  <2> QED
    BY <2>1, <2>2 DEF Reaches
<1>6. LastText(m) => LastText(m)'
  <2> SUFFICES ASSUME LastText(m), NEW i \in 1 .. Len(chan'), Carries(chan[i], m)',
                      \A j \in 1 .. Len(chan') : j > i => ~Carries(chan[j], m)'
               PROVE  Says(chan'[i]) = mine'[m]
    BY <1>4 DEF LastText, Kept, Says
  <2>1. i + 1 \in 1 .. Len(chan) /\ Carries(chan[i + 1], m) /\ chan'[i] = chan[i + 1]
    BY <1>1, <1>2
  <2>2. ASSUME NEW j \in 1 .. Len(chan), j > i + 1, Carries(chan[j], m) PROVE FALSE
    <3>1. j - 1 \in 1 .. Len(chan') /\ Carries(chan[j - 1], m)'
      BY <1>3, <2>2
    <3>2. j - 1 > i
      BY <2>2
    <3> QED
      BY <3>1, <3>2
  <2> QED
    BY <2>1, <2>2 DEF LastText, Kept
<1> QED
  BY <1>4, <1>5, <1>6 DEF Unwritten, Followed, Kept

\* The message m is written: for the first time, and then nothing about it is in flight
\* unless a change has overtaken it.
LEMMA WriteFollows ==
  ASSUME TypeOK, CopyInv, FollowInv, NEW m \in Msg, Write(m), mine[m] # None, UNCHANGED texts,
         Announcing' = Announcing
  PROVE  FollowInv'
<1> USE DEF texts
<1> DEFINE sig == Sig("message", m)
<1>0. sig \in Signal /\ Carries(sig, m) /\ Says(sig) = "original" /\ \A k \in Msg : Carries(sig, k) => k = m
  BY SignalTypes, CarryFacts
<1>1. chan' = Append(chan, sig) /\ m \in written' /\ (m \notin again' => m \notin written)
  BY DEF Write
<1>2. ASSUME NEW k \in Msg, k # m PROVE Unwritten(k)' /\ Followed(k)'
  <2>1. Kept(k)
    BY DEF Kept, Write, Announced
  <2> QED
    BY <1>0, <1>1, <1>2, <2>1, AppendKeeps DEF FollowInv
<1>3. Unwritten(m)'
  BY <1>1 DEF Unwritten
<1>4. Followed(m)'
  <2> SUFFICES ASSUME m \notin missed, m \notin again', ~Announced(m), Reaches(m)' PROVE LastText(m)'
    BY DEF Followed, Announced
  <2>1. m \notin written /\ theirs[m] = None /\ \A i \in 1 .. Len(chan) : chan[i] # sig
    BY <1>1 DEF CopyInv, InFlight
  <2>2. /\ Len(chan) \in Nat /\ Len(chan') = Len(chan) + 1 /\ chan'[Len(chan) + 1] = sig
        /\ \A i \in 1 .. Len(chan) : chan'[i] = chan[i] /\ i \in 1 .. Len(chan') /\ i < Len(chan) + 1
    BY <1>0, <1>1 DEF TypeOK, LinkTypeOK
  <2>3. \A i \in 1 .. Len(chan') : i \in 1 .. Len(chan) \/ i = Len(chan) + 1
    BY <2>2
  <2>4. \A i \in 1 .. Len(chan) : ~Carries(chan[i], m)
    <3>1. PICK i \in 1 .. Len(chan') : chan'[i] = sig /\ \A j \in 1 .. Len(chan') : j < i => ~Carries(chan[j], m)'
      BY <2>1 DEF Reaches
    <3>2. i = Len(chan) + 1
      BY <2>1, <2>2, <2>3, <3>1
    <3>3. \A j \in 1 .. Len(chan) : ~Carries(chan[j], m)'
      BY <2>2, <3>1, <3>2
    <3> QED
      BY <2>2, <3>3 DEF Carries, Subject
  <2>5. mine[m] = "original"
    BY <2>1, <2>4 DEF FollowInv, Unwritten, InChan
  <2>6. \A i \in 1 .. Len(chan') : Carries(chan[i], m)' => i = Len(chan) + 1
    BY <2>2, <2>3, <2>4 DEF Carries, Subject
  <2>7. InChan(m)'
    BY <1>0, <2>2 DEF InChan, Carries, Subject
  <2> QED
    BY <1>0, <2>2, <2>5, <2>6, <2>7 DEF LastText
<1> QED
  BY <1>2, <1>3, <1>4 DEF FollowInv

\* A change is broadcast: it is the last signal about its message and says what the
\* sender's copy does, or the message is among the missed ones.
LEMMA BroadcastFollows ==
  ASSUME TypeOK, FollowInv, NEW c \in Change, NEW from \in {"update", "revoke"}, NEW type, NEW text,
         Sig(type, c) \in Signal, IsChange(Sig(type, c)), Says(Sig(type, c)) = text,
         Broadcast(c, from, type, text)
  PROVE  FollowInv'
<1> DEFINE sig == Sig(type, c)
<1> DEFINE m == about[c]
<1>0. /\ m \in Msg /\ Carries(sig, m) /\ \A k \in Msg : Carries(sig, k) => k = m
  <2>1. sig.id = c /\ sig.type = type /\ sig.type # "message" /\ sig # Notice
    BY DEF Sig, IsChange, Notice
  <2> QED
    BY <2>1 DEF Broadcast, Step, TypeOK, TextTypeOK, Carries, Subject
<1>1. /\ UNCHANGED <<mine, theirs, about, written, again>>
      /\ chan' = Append(chan, sig) \/ chan' = chan
      /\ m \in missed' \/ (chan' = Append(chan, sig) /\ mine[m] = text)
      /\ missed \subseteq missed'
  BY DEF Broadcast, history
<1>2. \A d \in Announcing : d \in Announcing' \/ d = c
  BY DEF Broadcast, Step, Goto, Announcing, TypeOK, ProcTypeOK, Proc, Change
<1>3. ASSUME NEW k \in Msg, k # m PROVE Unwritten(k)' /\ Followed(k)'
  <2>1. Kept(k)
    BY <1>1, <1>2, <1>3 DEF Kept, Announced
  <2>2. CASE chan' = chan
    <3>1. \A i \in 1 .. Len(chan) : Carries(chan[i], k)' <=> Carries(chan[i], k)
      BY <1>1, <2>2 DEF Carries, Subject
    <3> QED
      BY <2>1, <2>2, <3>1, SameKeeps DEF FollowInv
  <2>3. CASE chan' = Append(chan, sig)
    BY <1>0, <1>1, <1>3, <2>1, <2>3, AppendKeeps DEF FollowInv
  <2> QED
    BY <1>1, <2>2, <2>3
<1>4. CASE m \in missed'
  BY <1>1, <1>3, <1>4 DEF FollowInv, Unwritten, Followed
<1>5. CASE chan' = Append(chan, sig) /\ mine[m] = text
  <2>1. PICK n \in Nat : n = Len(chan')
    BY <1>5 DEF TypeOK, LinkTypeOK
  <2>2. chan'[n] = sig /\ n \in 1 .. Len(chan') /\ \A i \in 1 .. Len(chan') : i = n \/ n > i
    BY <1>5, <2>1 DEF TypeOK, LinkTypeOK
  <2>3. Carries(chan[n], m)'
    BY <1>0, <1>1, <2>2 DEF Carries, Subject
  <2>4. InChan(m)'
    BY <2>2, <2>3 DEF InChan
  <2>5. ASSUME NEW i \in 1 .. Len(chan'), \A j \in 1 .. Len(chan') : j > i => ~Carries(chan[j], m)'
        PROVE  Says(chan'[i]) = mine'[m]
    BY <1>1, <1>5, <2>2, <2>3, <2>5
  <2> QED
    BY <1>0, <1>1, <1>3, <2>4, <2>5 DEF FollowInv, Unwritten, Followed, LastText
<1> QED
  BY <1>1, <1>4, <1>5

\* What is in flight is lost: a change is missed, a message leaves the peer without a copy.
LEMMA LostFollows ==
  ASSUME TypeOK, CopyInv, FollowInv, chan' = <<>>, UNCHANGED <<mine, theirs, about, written, again>>,
         missed \cup ChangesInFlight \subseteq missed',
         \A m \in Msg : Announced(m) => Announced(m)' \/ m \in missed'
  PROVE  FollowInv'
<1> SUFFICES ASSUME NEW m \in Msg, m \notin missed', ~Announced(m)' PROVE Unwritten(m)' /\ Followed(m)'
  BY DEF FollowInv, Unwritten, Followed
<1>1. m \notin missed /\ ~Announced(m)
  OBVIOUS
<1>2. ASSUME NEW i \in 1 .. Len(chan), Carries(chan[i], m) PROVE InFlight(m, i)
  <2>1. chan[i] \in Signal
    BY DEF TypeOK, LinkTypeOK
  <2>2. IsChange(chan[i]) => about[chan[i].id] \in ChangesInFlight
    BY DEF ChangesInFlight
  <2> QED
    BY <1>2, <2>1, <2>2, CarryFacts DEF InFlight
<1>3. Len(chan') = 0 /\ \A i \in 1 .. Len(chan') : FALSE
  OBVIOUS
<1>4. Unwritten(m)'
  <2>1. m \notin written => ~InChan(m)
    BY <1>2 DEF CopyInv, InChan
  <2> QED
    BY <1>1, <2>1 DEF FollowInv, Unwritten
<1>5. Followed(m)'
  <2> SUFFICES ASSUME m \notin again, theirs[m] # None PROVE theirs[m] = mine[m]
    BY <1>3 DEF Followed, Reaches, LastText
  <2>1. ~InChan(m)
    BY <1>2 DEF CopyInv, InChan
  <2> QED
    BY <1>1, <2>1 DEF FollowInv, Followed, Reaches, LastText
<1> QED
  BY <1>4, <1>5

\* A request finds the message it is about; no signal of it is in flight yet.
LEMMA FindFollows ==
  ASSUME TypeOK, FollowInv, ChangeInv, NEW c \in Change, NEW to \in {"edit", "erase"}, FindOwn(c, to)
  PROVE  FollowInv'
<1>1. /\ UNCHANGED <<chan, mine, theirs, missed, written, again>> /\ pc[c] = "idle"
      /\ pc' = [pc EXCEPT ![c] = to] /\ \A d \in Change : d # c => about'[d] = about[d]
  BY DEF FindOwn, Step, Goto, link, history, TypeOK, TextTypeOK
<1>2. Announcing' = Announcing /\ c \notin Announcing
  BY <1>1 DEF Announcing, TypeOK, ProcTypeOK, Proc
<1>3. ASSUME NEW m \in Msg PROVE Unwritten(m)' /\ Followed(m)'
  <2>1. Kept(m)
    BY <1>1, <1>2 DEF Kept, Announced, Announcing
  <2>2. ASSUME NEW i \in 1 .. Len(chan) PROVE Carries(chan[i], m)' <=> Carries(chan[i], m)
    <3>1. chan[i] \in Signal
      BY DEF TypeOK, LinkTypeOK
    <3>2. chan[i] = Notice \/ chan[i].type = "message" \/ (IsChange(chan[i]) /\ chan[i].id \in Change)
      BY <3>1 DEF Signal, IsChange, Change
    <3>3. IsChange(chan[i]) => chan[i].id # c
      BY <1>1 DEF ChangeInv
    <3>4. chan'[i] = chan[i]
      BY <1>1
    <3> QED
      BY <1>1, <3>2, <3>3, <3>4 DEF Carries, Subject
  <2> QED
    BY <1>1, <2>1, <2>2, SameKeeps DEF FollowInv
<1> QED
  BY <1>3 DEF FollowInv

\* The sender's copy of the message m changes, and a change of it is to be broadcast.
LEMMA StoreFollows ==
  ASSUME TypeOK, FollowInv, NEW m \in Msg, UNCHANGED <<chan, theirs, about, missed, written, again>>,
         \A k \in Msg : k # m => mine'[k] = mine[k],
         Announcing \subseteq Announcing', Announced(m)'
  PROVE  FollowInv'
<1>1. ASSUME NEW k \in Msg, k # m PROVE Unwritten(k)' /\ Followed(k)'
  <2>1. Kept(k)
    BY <1>1 DEF Kept, Announced
  <2>2. \A i \in 1 .. Len(chan) : Carries(chan[i], k)' <=> Carries(chan[i], k)
    BY DEF Carries, Subject
  <2> QED
    BY <1>1, <2>1, <2>2, SameKeeps DEF FollowInv
<1>2. Unwritten(m)' /\ Followed(m)'
  BY DEF Unwritten, Followed
<1> QED
  BY <1>1, <1>2 DEF FollowInv

\* The message m is stored by its sender, before anything about it is sent.
LEMMA OwnFollows ==
  ASSUME TypeOK, CopyInv, FollowInv, NEW m \in Msg, m \notin written, StoreOwn(m),
         UNCHANGED <<chan, written, again>>, Announcing' = Announcing
  PROVE  FollowInv'
<1>1. UNCHANGED <<theirs, about, missed>> /\ mine'[m] = "original" /\ \A k \in Msg : k # m => mine'[k] = mine[k]
  BY DEF StoreOwn, TypeOK, TextTypeOK
<1>2. ASSUME NEW k \in Msg, k # m PROVE Unwritten(k)' /\ Followed(k)'
  <2>1. Kept(k)
    BY <1>1, <1>2 DEF Kept, Announced
  <2>2. \A i \in 1 .. Len(chan) : Carries(chan[i], k)' <=> Carries(chan[i], k)
    BY <1>1 DEF Carries, Subject
  <2> QED
    BY <1>2, <2>1, <2>2, SameKeeps DEF FollowInv
<1>3. Unwritten(m)'
  BY <1>1 DEF Unwritten
<1>4. ~Reaches(m)'
  BY <1>1 DEF CopyInv, InFlight, Reaches
<1> QED
  BY <1>2, <1>3, <1>4 DEF FollowInv, Followed

\* A step that changes nothing of this.
LEMMA QuietFollows ==
  ASSUME TypeOK, FollowInv, UNCHANGED <<chan, texts, written, again>>, Announcing' = Announcing
  PROVE  FollowInv'
<1>1. ASSUME NEW k \in Msg PROVE Unwritten(k)' /\ Followed(k)'
  <2>1. Kept(k)
    BY DEF Kept, Announced, texts
  <2>2. \A i \in 1 .. Len(chan) : Carries(chan[i], k)' <=> Carries(chan[i], k)
    BY DEF Carries, Subject, texts
  <2> QED
    BY <2>1, <2>2, SameKeeps DEF FollowInv
<1> QED
  BY <1>1 DEF FollowInv

\* An acceptance notice is sent.
LEMMA NoticeFollows ==
  ASSUME TypeOK, FollowInv, chan' = Append(chan, Notice), UNCHANGED <<texts, written, again>>,
         Announcing' = Announcing
  PROVE  FollowInv'
<1>1. ASSUME NEW k \in Msg PROVE Unwritten(k)' /\ Followed(k)'
  <2>1. Kept(k)
    BY DEF Kept, Announced, texts
  <2>2. Notice \in Signal /\ ~Carries(Notice, k) /\ about' = about
    BY SignalTypes DEF Carries, texts
  <2> QED
    BY <2>1, <2>2, AppendKeeps DEF FollowInv
<1> QED
  BY <1>1 DEF FollowInv

\* The peer takes the first signal: about its message k it is handled, ignored, or a
\* change that is missed.
LEMMA ReceiveCases ==
  ASSUME TypeOK, Receive, NEW k \in Msg
  PROVE  LET sig == chan[1] IN
         /\ sig \in Signal /\ missed \subseteq missed'
         /\ ~Carries(sig, k) => theirs'[k] = theirs[k]
         /\ Carries(sig, k) =>
              \/ (sig.type = "message" \/ Present(theirs[k])) /\ theirs'[k] = Says(sig)
              \/ sig = Sig("message", k) /\ theirs'[k] = theirs[k]
              \/ k \in missed'
<1> DEFINE sig == chan[1]
<1>1. sig \in Signal /\ sig = Head(chan)
  BY DEF Receive, TypeOK, LinkTypeOK
<1>2. /\ sig.type \in {"message", "update", "delete", "peer_accepted"}
      /\ sig.type = "message" => sig.id \in Msg /\ sig = Sig("message", sig.id)
      /\ sig.type = "peer_accepted" <=> sig = Notice
      /\ IsChange(sig) => about[sig.id] \in Msg
  <2>1. IsChange(sig) => about[sig.id] \in Msg
    BY DEF Receive, TypeOK, LinkTypeOK, TextTypeOK
  <2> QED
    BY <1>1, <2>1 DEF Signal, Sig, Notice
<1>3. CASE sig = Notice
  BY <1>1, <1>3 DEF Receive, Carries, Handle, Ignore
<1>4. CASE sig # Notice /\ Ignore(sig)
  <2>1. theirs' = theirs /\ missed \subseteq missed' /\ (IsChange(sig) => about[sig.id] \in missed')
    BY <1>4 DEF Ignore
  <2> QED
    BY <1>1, <1>2, <1>4, <2>1 DEF Carries, Subject, IsChange
<1>5. CASE sig # Notice /\ Handle(sig)
  <2>1. Subject(sig) \in Msg
    BY <1>2, <1>5 DEF Subject, IsChange
  <2>2. CASE sig.type = "message" \/ Present(theirs[Subject(sig)])
    <3>1. theirs' = [theirs EXCEPT ![Subject(sig)] = Says(sig)] /\ missed' = missed
      BY <1>2, <1>5, <2>2, ZenonT(30) DEF Handle, Subject, Says
    <3>2. theirs \in [Msg -> Text]
      BY DEF TypeOK, TextTypeOK
    <3> QED
      BY <1>1, <1>5, <2>1, <2>2, <3>1, <3>2 DEF Carries
  <2>3. CASE ~(sig.type = "message" \/ Present(theirs[Subject(sig)]))
    <3>1. theirs' = theirs /\ missed' = missed \cup {Subject(sig)}
      BY <1>2, <1>5, <2>3 DEF Handle, Subject
    <3> QED
      BY <1>1, <3>1 DEF Carries
  <2> QED
    BY <2>2, <2>3
<1> QED
  BY <1>1, <1>3, <1>4, <1>5 DEF Receive

LEMMA ReceiveFollows ==
  ASSUME TypeOK, CopyInv, FollowInv, Receive
  PROVE  FollowInv'
<1> DEFINE sig == chan[1]
<1>1. /\ chan # <<>> /\ chan' = Tail(chan) /\ UNCHANGED <<mine, about, written, again, pc>>
      /\ Len(chan) \in Nat \ {0} /\ Len(chan') = Len(chan) - 1 /\ 1 \in 1 .. Len(chan)
      /\ \A i \in 1 .. Len(chan') : chan'[i] = chan[i + 1] /\ i + 1 \in 1 .. Len(chan)
  BY DEF Receive, TypeOK, LinkTypeOK, local
<1>2. Announcing' = Announcing
  BY <1>1 DEF Announcing
<1>3. ASSUME NEW k \in Msg, ~Carries(sig, k) PROVE Unwritten(k)' /\ Followed(k)'
  <2>1. Kept(k)
    BY <1>1, <1>2, <1>3, ReceiveCases DEF Kept, Announced
  <2> QED
    BY <1>1, <1>3, <2>1, TailKeeps DEF FollowInv
<1>4. ASSUME NEW k \in Msg, Carries(sig, k) PROVE Unwritten(k)' /\ Followed(k)'
  <2>1. sig \in Signal /\ missed \subseteq missed'
    BY ReceiveCases
  <2>2. sig = Sig("message", k) => InFlight(k, 1)
    BY <1>1 DEF InFlight
  <2>3. \A i \in 1 .. Len(chan') : Carries(chan[i], k)' <=> Carries(chan[i + 1], k)
    BY <1>1 DEF Carries, Subject
  <2>4. CASE k \in missed'
    BY <2>4 DEF Unwritten, Followed
  <2>5. CASE (sig.type = "message" \/ Present(theirs[k])) /\ theirs'[k] = Says(sig)
    <3>1. k \in written
      <4>1. sig.type = "message" => sig = Sig("message", k)
        BY <1>4, <2>1, CarryFacts DEF IsChange
      <4> QED
        BY <1>1, <2>2, <2>5, <4>1 DEF CopyInv, Present
    <3>2. Reaches(k)
      <4>1. CASE sig.type = "message"
        <5>1. sig = Sig("message", k)
          BY <1>4, <2>1, <4>1, CarryFacts DEF IsChange
        <5>2. \A j \in 1 .. Len(chan) : ~(j < 1)
          BY <1>1
        <5> QED
          BY <1>1, <5>1, <5>2 DEF Reaches
      <4>2. CASE Present(theirs[k])
        BY <4>2 DEF Present, Reaches
      <4> QED
        BY <2>5, <4>1, <4>2
    <3>3. Unwritten(k)'
      BY <1>1, <3>1 DEF Unwritten
    <3>4. Followed(k)'
      <4> SUFFICES ASSUME k \notin missed', k \notin again, ~Announced(k)' PROVE LastText(k)'
        BY <1>1 DEF Followed
      <4>1. LastText(k)
        BY <1>1, <1>2, <2>1, <3>2 DEF FollowInv, Followed, Announced
      <4>2. ASSUME ~InChan(k)' PROVE theirs'[k] = mine'[k]
        <5>1. ASSUME NEW j \in 1 .. Len(chan), j > 1, Carries(chan[j], k) PROVE FALSE
          <6>1. j - 1 \in 1 .. Len(chan') /\ (j - 1) + 1 = j
            BY <1>1, <5>1
          <6>2. Carries(chan[j - 1], k)'
            BY <2>3, <5>1, <6>1
          <6> QED
            BY <4>2, <6>1, <6>2 DEF InChan
        <5>2. Says(chan[1]) = mine[k]
          BY <1>1, <1>4, <4>1, <5>1 DEF LastText
        <5> QED
          BY <1>1, <2>5, <5>2
      <4>3. ASSUME NEW i \in 1 .. Len(chan'), Carries(chan[i], k)',
                   \A j \in 1 .. Len(chan') : j > i => ~Carries(chan[j], k)'
            PROVE  Says(chan'[i]) = mine'[k]
        <5>1. i + 1 \in 1 .. Len(chan) /\ Carries(chan[i + 1], k) /\ chan'[i] = chan[i + 1]
          BY <1>1, <2>3, <4>3
        <5>2. ASSUME NEW j \in 1 .. Len(chan), j > i + 1, Carries(chan[j], k) PROVE FALSE
          <6>1. j - 1 \in 1 .. Len(chan') /\ (j - 1) + 1 = j /\ j - 1 > i
            BY <1>1, <5>2
          <6>2. Carries(chan[j - 1], k)'
            BY <2>3, <5>2, <6>1
          <6> QED
            BY <4>3, <6>1, <6>2
        <5> QED
          BY <1>1, <4>1, <5>1, <5>2 DEF LastText
      <4> QED
        BY <4>2, <4>3 DEF LastText
    <3> QED
      BY <3>3, <3>4
  <2>6. CASE sig = Sig("message", k) /\ theirs'[k] = theirs[k]
    <3>1. Unwritten(k)'
      BY <1>1, <2>2, <2>6 DEF CopyInv, Unwritten
    <3>2. k \notin again => ~Reaches(k)'
      <4> SUFFICES ASSUME k \notin again PROVE ~Reaches(k)'
        OBVIOUS
      <4>1. theirs[k] = None /\ \A j \in 1 .. Len(chan) : InFlight(k, j) => 1 = j
        BY <1>1, <2>2, <2>6 DEF CopyInv
      <4>2. ASSUME NEW i \in 1 .. Len(chan'), chan'[i] = Sig("message", k) PROVE FALSE
        <5>1. InFlight(k, i + 1) /\ i + 1 \in 1 .. Len(chan)
          BY <1>1, <4>2 DEF InFlight
        <5>2. i + 1 # 1
          BY <1>1
        <5> QED
          BY <4>1, <5>1, <5>2
      <4> QED
        BY <2>6, <4>1, <4>2 DEF Reaches
    <3> QED
      BY <1>1, <3>1, <3>2 DEF Followed
  <2> QED
    BY <1>4, <2>4, <2>5, <2>6, ReceiveCases
<1> QED
  BY <1>3, <1>4 DEF FollowInv

\* A goroutine goes from one label to another, with no change to be broadcast at either.
LEMMA StepFacts ==
  ASSUME TypeOK, NEW p \in Proc, NEW to \in Label \ {"idle", "update", "revoke"},
         pc[p] \notin {"update", "revoke"}, pc' = [pc EXCEPT ![p] = to]
  PROVE  /\ Announcing' = Announcing
         /\ \A q \in Proc : pc'[q] = "idle" => pc[q] = "idle"
         /\ \A q \in Proc : pc'[q] \in Unsent => pc[q] \in Unsent \/ (q = p /\ to \in Unsent)
  BY DEF TypeOK, ProcTypeOK, Announcing, Proc

\* What StoredInv needs of a step.
StoredStep ==
  /\ \A q \in Proc : pc'[q] = "idle" => pc[q] = "idle"
  /\ \A m \in Msg : mine[m] # None => mine'[m] # None
  /\ \A m \in Msg : Held(m)' => Held(m) \/ pc[m] \in Unsent
  /\ \A m \in Msg : pc'[m] \in Unsent => pc[m] \in Unsent \/ mine'[m] # None

LEMMA StoredStepKeeps == StoredInv /\ StoredStep => StoredInv'
<1> SUFFICES ASSUME StoredInv, StoredStep, NEW m \in Msg
             PROVE  /\ Held(m)' => pc'[m] # "idle" /\ mine'[m] # None
                    /\ pc'[m] \in Unsent => mine'[m] # None
  BY DEF StoredInv
<1>1. m \in Proc
  BY DEF Proc
<1> QED
  BY <1>1 DEF StoredInv, StoredStep, Unsent

\* What ChangeInv needs of a step.
ChangeStep ==
  \A i \in 1 .. Len(chan') :
    IsChange(chan'[i]) => \/ pc'[chan'[i].id] # "idle"
                          \/ \E j \in 1 .. Len(chan) : chan[j] = chan'[i]

LEMMA ChangeStepKeeps ==
  ASSUME TypeOK, ChangeInv, ChangeStep, \A q \in Proc : pc'[q] = "idle" => pc[q] = "idle"
  PROVE  ChangeInv'
<1> SUFFICES ASSUME NEW i \in 1 .. Len(chan'), IsChange(chan'[i]) PROVE pc'[chan'[i].id] # "idle"
  BY DEF ChangeInv
<1>1. CASE pc'[chan'[i].id] # "idle"
  BY <1>1
<1>2. ASSUME NEW j \in 1 .. Len(chan), chan[j] = chan'[i] PROVE pc'[chan'[i].id] # "idle"
  <2>1. chan[j] \in Signal
    BY DEF TypeOK, LinkTypeOK
  <2>2. chan[j].id \in Proc
    BY <1>2, <2>1 DEF Signal, IsChange, Notice, Sig, Proc, Change
  <2> QED
    BY <1>2, <2>2 DEF ChangeInv
<1> QED
  BY <1>1, <1>2 DEF ChangeStep

\* A signal that is added to the channel.
LEMMA AppendChange ==
  ASSUME TypeOK, NEW sig \in Signal, chan' = Append(chan, sig), IsChange(sig) => pc'[sig.id] # "idle"
  PROVE  ChangeStep
<1>1. /\ Len(chan) \in Nat /\ Len(chan') = Len(chan) + 1 /\ chan'[Len(chan) + 1] = sig
      /\ \A i \in 1 .. Len(chan) : chan'[i] = chan[i]
  BY DEF TypeOK, LinkTypeOK
<1>2. \A i \in 1 .. Len(chan') : i \in 1 .. Len(chan) \/ i = Len(chan) + 1
  BY <1>1
<1> QED
  BY <1>1, <1>2 DEF ChangeStep

ChatInv == FollowInv /\ StoredInv /\ ChangeInv

LEMMA SendChatInv ==
  ASSUME TypeOK, CopyInv, ChatInv, NEW m \in Msg, SendMessage(m) \/ SendLine(m)
  PROVE  FollowInv' /\ StoredStep /\ ChangeStep
<1> USE DEF ChatInv
<1>0. m \in Proc /\ outbox \subseteq Msg /\ mine \in [Msg -> Text] /\ None # "original" /\ Msg \subseteq Proc
  BY DeliveryAssumption DEF TypeOK, TextTypeOK, Proc
<1>1. ASSUME LoadSession(m) \/ LoadNone(m) \/ LoadTyped(m) PROVE FollowInv' /\ StoredStep /\ ChangeStep
  <2>1. /\ pc[m] = "idle" /\ \E to \in Unsent : pc' = [pc EXCEPT ![m] = to]
        /\ StoreOwn(m) /\ UNCHANGED <<chan, outbox, batch, written, again>>
    BY <1>1 DEF LoadSession, LoadNone, LoadTyped, Step, Goto, Unsent, link, history
  <2>2. PICK to \in Unsent : pc' = [pc EXCEPT ![m] = to]
    BY <2>1, ZenonT(30)
  <2>3. /\ Announcing' = Announcing
        /\ \A q \in Proc : pc'[q] = "idle" => pc[q] = "idle"
        /\ \A q \in Proc : pc'[q] \in Unsent => pc[q] \in Unsent \/ q = m
    <3>1. to \in Label \ {"idle", "update", "revoke"}
      BY DEF Unsent, Label
    <3> QED
      BY <1>0, <2>1, <2>2, <3>1, StepFacts, ZenonT(30)
  <2>4. m \notin written
    BY <2>1 DEF StoredInv, Held
  <2>5. FollowInv'
    BY <2>1, <2>3, <2>4, OwnFollows
  <2>6. mine'[m] = "original" /\ \A k \in Msg : k # m => mine'[k] = mine[k]
    BY <1>0, <2>1 DEF StoreOwn
  <2>7. StoredStep
    BY <1>0, <2>1, <2>3, <2>6 DEF StoredStep, Held
  <2> QED
    BY <2>1, <2>5, <2>7 DEF ChangeStep
<1>2. ASSUME QueueSignal(m) \/ SendFails(m) \/ (SendTyped(m) /\ ~CanWrite(m))
      PROVE  FollowInv' /\ StoredStep /\ ChangeStep
  <2>1. /\ pc[m] \in Unsent /\ \E to \in {"ok", "failed", "done"} : pc' = [pc EXCEPT ![m] = to]
        /\ UNCHANGED <<chan, texts, batch, written, again>> /\ outbox' \subseteq outbox \cup {m}
    BY <1>2 DEF QueueSignal, SendFails, SendTyped, Step, Goto, Unsent, link, history
  <2>2. PICK to \in {"ok", "failed", "done"} : pc' = [pc EXCEPT ![m] = to]
    BY <2>1, ZenonT(30)
  <2>3. /\ Announcing' = Announcing
        /\ \A q \in Proc : pc'[q] = "idle" => pc[q] = "idle"
        /\ \A q \in Proc : pc'[q] \in Unsent => pc[q] \in Unsent
    <3>1. to \in Label \ {"idle", "update", "revoke"} /\ to \notin Unsent
      BY DEF Unsent, Label
    <3> QED
      BY <1>0, <2>1, <2>2, <3>1, StepFacts, ZenonT(30) DEF Unsent
  <2>4. FollowInv'
    BY <2>1, <2>3, QuietFollows
  <2>5. StoredStep
    BY <1>0, <2>1, <2>3 DEF StoredStep, Held, texts
  <2> QED
    BY <2>1, <2>4, <2>5 DEF ChangeStep
<1>3. ASSUME SendNow(m) \/ (SendTyped(m) /\ CanWrite(m)) PROVE FollowInv' /\ StoredStep /\ ChangeStep
  <2>1. /\ pc[m] \in Unsent /\ \E to \in {"ok", "done"} : pc' = [pc EXCEPT ![m] = to]
        /\ Write(m) /\ UNCHANGED <<texts, batch, outbox>>
    BY <1>3 DEF SendNow, SendTyped, Step, Goto, Unsent
  <2>2. PICK to \in {"ok", "done"} : pc' = [pc EXCEPT ![m] = to]
    BY <2>1, ZenonT(30)
  <2>3. /\ Announcing' = Announcing
        /\ \A q \in Proc : pc'[q] = "idle" => pc[q] = "idle"
        /\ \A q \in Proc : pc'[q] \in Unsent => pc[q] \in Unsent
    <3>1. to \in Label \ {"idle", "update", "revoke"} /\ to \notin Unsent
      BY DEF Unsent, Label
    <3> QED
      BY <1>0, <2>1, <2>2, <3>1, StepFacts, ZenonT(30) DEF Unsent
  <2>4. FollowInv'
    BY <2>1, <2>3, WriteFollows DEF StoredInv
  <2>5. StoredStep
    BY <1>0, <2>1, <2>3 DEF StoredStep, Held, texts, Write
  <2>6. ChangeStep
    BY <2>1, SignalTypes, AppendChange DEF Write
  <2> QED
    BY <2>4, <2>5, <2>6
<1> QED
  BY <1>1, <1>2, <1>3 DEF SendMessage, SendLine

LEMMA ChangeChatInv ==
  ASSUME TypeOK, ChatInv,
         NEW c \in Change, \/ c \in Edits /\ UpdateMessage(c)
                           \/ c \in Deletes /\ DeleteMessage(c)
  PROVE  FollowInv' /\ StoredStep /\ ChangeStep
<1> USE DEF ChatInv
<1>0. /\ c \in Proc /\ None # c /\ None # "deleted" /\ Msg \subseteq Proc /\ Change \subseteq Proc
      /\ mine \in [Msg -> Text] /\ pc \in [Proc -> Label]
  BY DeliveryAssumption DEF TypeOK, TextTypeOK, ProcTypeOK, Proc
<1>1. ASSUME NEW to \in {"edit", "erase"}, FindOwn(c, to) PROVE FollowInv' /\ StoredStep /\ ChangeStep
  <2>1. /\ pc[c] = "idle" /\ pc' = [pc EXCEPT ![c] = to]
        /\ UNCHANGED <<chan, mine, outbox, batch, written>>
    BY <1>1 DEF FindOwn, Step, Goto, link, history
  <2>2. FollowInv'
    BY <1>1, FindFollows
  <2>3. StoredStep
    BY <1>0, <1>1, <2>1 DEF StoredStep, Held, Unsent
  <2> QED
    BY <2>1, <2>2, <2>3 DEF ChangeStep
<1>2. ASSUME StoreEdit(c) \/ DeleteOwn(c) PROVE FollowInv' /\ StoredStep /\ ChangeStep
  <2>1. /\ pc[c] \in {"edit", "erase"}
        /\ \E to \in {"update", "revoke"} : pc' = [pc EXCEPT ![c] = to]
        /\ \E text \in {c, "deleted"} : mine' = [mine EXCEPT ![about[c]] = text]
        /\ UNCHANGED <<chan, theirs, about, missed, outbox, batch, written, again>>
    BY <1>2 DEF StoreEdit, DeleteOwn, Step, Goto, link, history
  <2>2. about[c] \in Msg
    BY <2>1 DEF TypeOK, TextTypeOK
  <2>3. pc'[c] \in {"update", "revoke"} /\ \A q \in Proc : q # c => pc'[q] = pc[q]
    BY <1>0, <2>1
  <2>4. Announcing \subseteq Announcing' /\ Announced(about[c])'
    BY <1>0, <2>1, <2>3 DEF Announcing, Announced
  <2>5. /\ \A k \in Msg : k # about[c] => mine'[k] = mine[k]
        /\ mine'[about[c]] # None
    BY <1>0, <2>1, <2>2
  <2>6. FollowInv'
    BY <2>1, <2>2, <2>4, <2>5, StoreFollows
  <2>7. StoredStep
    BY <1>0, <2>1, <2>3, <2>5 DEF StoredStep, Held, Unsent
  <2> QED
    BY <2>1, <2>6, <2>7 DEF ChangeStep
<1>3. ASSUME NEW from \in {"update", "revoke"}, NEW type, NEW text,
             Sig(type, c) \in Signal, IsChange(Sig(type, c)), Says(Sig(type, c)) = text,
             Broadcast(c, from, type, text)
      PROVE  FollowInv' /\ StoredStep /\ ChangeStep
  <2>1. /\ pc' = [pc EXCEPT ![c] = "done"] /\ UNCHANGED <<mine, outbox, batch, written>>
        /\ chan' = chan \/ chan' = Append(chan, Sig(type, c))
    BY <1>3 DEF Broadcast, Step, Goto, history
  <2>2. FollowInv'
    BY <1>3, BroadcastFollows
  <2>3. StoredStep
    BY <1>0, <2>1 DEF StoredStep, Held, Unsent
  <2>4. Sig(type, c).id = c /\ pc'[c] # "idle"
    BY <1>0, <2>1 DEF Sig
  <2>5. ChangeStep
    <3>1. CASE chan' = chan
      BY <3>1 DEF ChangeStep
    <3>2. CASE chan' = Append(chan, Sig(type, c))
      BY <1>3, <2>4, <3>2, AppendChange
    <3> QED
      BY <2>1, <3>1, <3>2
  <2> QED
    BY <2>2, <2>3, <2>5
<1>4. ASSUME c \in Edits, BroadcastUpdate(c) PROVE FollowInv' /\ StoredStep /\ ChangeStep
  <2>1. Sig("update", c) \in Signal /\ IsChange(Sig("update", c)) /\ Says(Sig("update", c)) = c
    BY <1>4, SignalTypes DEF IsChange, Says, Sig
  <2> QED
    BY <1>3, <1>4, <2>1 DEF BroadcastUpdate
<1>5. ASSUME c \in Deletes, BroadcastDelete(c) PROVE FollowInv' /\ StoredStep /\ ChangeStep
  <2>1. Sig("delete", c) \in Signal /\ IsChange(Sig("delete", c)) /\ Says(Sig("delete", c)) = "deleted"
    BY <1>5, SignalTypes DEF IsChange, Says, Sig
  <2> QED
    BY <1>3, <1>5, <2>1 DEF BroadcastDelete
<1> QED
  BY <1>1, <1>2, <1>4, <1>5 DEF UpdateMessage, DeleteMessage

LEMMA FlushChatInv ==
  ASSUME TypeOK, CopyInv, ChatInv, NEW p \in Proc, NEW from \in {"idle", "start"}, FlushOutbox(p, from)
  PROVE  FollowInv' /\ StoredStep /\ ChangeStep
<1> USE DEF ChatInv
<1>0. Msg \subseteq Proc /\ pc \in [Proc -> Label] /\ batch \in [Proc -> SUBSET Msg]
  BY DEF TypeOK, ProcTypeOK, Proc
<1>1. PICK to \in {"flushed", "load", "flush", "delete"} :
        /\ pc[p] \in {"idle", "start", "load", "flush", "delete"} /\ pc' = [pc EXCEPT ![p] = to]
  BY DEF FlushOutbox, ReadOutbox, FlushLoad, FlushSend, FlushFails, FlushEnds, DeleteEntry, Step, Goto
<1>2. /\ Announcing' = Announcing
      /\ \A q \in Proc : pc'[q] = "idle" => pc[q] = "idle"
      /\ \A q \in Proc : pc'[q] \in Unsent => pc[q] \in Unsent
  <2>1. to \in Label \ {"idle", "update", "revoke"} /\ to \notin Unsent
    BY DEF Label, Unsent
  <2> QED
    BY <1>1, <2>1, StepFacts, ZenonT(30) DEF Unsent
<1>3. CASE FlushSend(p)
  <2>1. PICK m \in batch[p] : Write(m) /\ batch' = [batch EXCEPT ![p] = @ \ {m}]
    BY <1>3, ZenonT(30) DEF FlushSend
  <2>2. m \in Msg /\ Held(m) /\ UNCHANGED <<texts, outbox>>
    BY <1>0, <1>3, <2>1 DEF Held, FlushSend
  <2>3. FollowInv'
    BY <1>2, <2>1, <2>2, WriteFollows DEF StoredInv
  <2>4. \A k \in Msg : Held(k)' => Held(k)
    <3>1. \A q \in Proc : batch'[q] \subseteq batch[q]
      BY <1>0, <2>1
    <3>2. written' = written \cup {m}
      BY <2>1 DEF Write
    <3> QED
      BY <2>2, <3>1, <3>2 DEF Held
  <2>5. StoredStep
    BY <1>0, <1>2, <2>2, <2>4 DEF StoredStep, texts
  <2>6. ChangeStep
    BY <2>1, <2>2, SignalTypes, AppendChange DEF Write
  <2> QED
    BY <2>3, <2>5, <2>6
<1>4. CASE ReadOutbox(p, from) \/ FlushLoad(p) \/ FlushFails(p) \/ FlushEnds(p) \/ DeleteEntry(p)
  <2>1. UNCHANGED <<chan, texts, written, again>> /\ outbox' \subseteq outbox
    BY <1>4 DEF ReadOutbox, FlushLoad, FlushFails, FlushEnds, DeleteEntry, link, history
  <2>2. \A q \in Proc : batch'[q] \subseteq batch[q] \cup outbox
    BY <1>0, <1>4 DEF ReadOutbox, FlushLoad, FlushFails, FlushEnds, DeleteEntry
  <2>3. FollowInv'
    BY <1>2, <2>1, QuietFollows
  <2>4. \A k \in Msg : Held(k)' => Held(k)
    BY <2>1, <2>2 DEF Held
  <2>5. StoredStep
    BY <1>0, <1>2, <2>1, <2>4 DEF StoredStep, texts
  <2> QED
    BY <2>1, <2>3, <2>5 DEF ChangeStep
<1> QED
  BY <1>3, <1>4 DEF FlushOutbox

LEMMA LinkChatInv ==
  ASSUME TypeOK, CopyInv, ChatInv,
         \/ Connect \/ Drop \/ Unregister \/ ReceiveNotice \/ Receive \/ Restart
         \/ (\E x \in Side : Accept(x)) \/ (\E n \in Start : Started(n))
         \/ (\E m \in Msg : RemoveEntry(m)) \/ UNCHANGED vars
  PROVE  FollowInv' /\ StoredStep /\ ChangeStep
<1> USE DEF ChatInv, link, local, texts, history
<1>0. /\ Msg \subseteq Proc /\ Change \subseteq Proc /\ pc \in [Proc -> Label] /\ Start \subseteq Proc
      /\ chan \in Seq(Signal) /\ count \in Nat
  BY DeliveryAssumption DEF TypeOK, ProcTypeOK, LinkTypeOK, Proc
<1>1. ASSUME pc' = pc, mine' = mine, outbox' \subseteq outbox, UNCHANGED <<batch, written>>
      PROVE  StoredStep /\ Announcing' = Announcing
  BY <1>0, <1>1 DEF StoredStep, Held, Announcing
<1>2. CASE Unregister \/ ReceiveNotice \/ (\E m \in Msg : RemoveEntry(m)) \/ UNCHANGED vars
  <2>1. UNCHANGED <<pc, chan, mine, theirs, about, missed, batch, written, again>> /\ outbox' \subseteq outbox
    BY <1>2 DEF Unregister, ReceiveNotice, RemoveEntry, vars
  <2> QED
    BY <1>1, <2>1, QuietFollows DEF ChangeStep
<1>3. CASE Connect \/ \E n \in Start : Started(n)
  <2>1. PICK n \in Start : \E to \in {"start", "serving"} :
           pc[n] \in {"idle", "flushed"} /\ pc' = [pc EXCEPT ![n] = to]
    <3>1. Connect => count < MaxSessions
      BY DEF Connect
    <3>2. count < MaxSessions => count + 1 \in Start
      BY <1>0, DeliveryAssumption DEF Start
    <3> QED
      BY <1>3, <3>1, <3>2 DEF Connect, Started, Step, Goto
  <2>2. PICK to \in {"start", "serving"} : pc[n] \in {"idle", "flushed"} /\ pc' = [pc EXCEPT ![n] = to]
    BY <2>1, ZenonT(30)
  <2>3. /\ Announcing' = Announcing
        /\ \A q \in Proc : pc'[q] = "idle" => pc[q] = "idle"
        /\ \A q \in Proc : pc'[q] \in Unsent => pc[q] \in Unsent
    <3>1. to \in Label \ {"idle", "update", "revoke"} /\ to \notin Unsent
      BY DEF Label, Unsent
    <3> QED
      BY <1>0, <2>2, <3>1, StepFacts, ZenonT(30) DEF Unsent
  <2>4. UNCHANGED <<chan, mine, theirs, about, missed, outbox, batch, written, again>>
    BY <1>3 DEF Connect, Started
  <2>5. StoredStep
    BY <1>0, <2>3, <2>4 DEF StoredStep, Held
  <2> QED
    BY <2>3, <2>4, <2>5, QuietFollows DEF ChangeStep
<1>4. ASSUME NEW x \in Side, Accept(x) PROVE FollowInv' /\ StoredStep /\ ChangeStep
  <2>1. /\ UNCHANGED <<pc, mine, theirs, about, missed, outbox, batch, written, again>>
        /\ chan' = chan \/ chan' = Append(chan, Notice)
    BY <1>4 DEF Accept, AcceptRow, AcceptSession, AcceptNotice
  <2>2. CASE chan' = chan
    BY <1>1, <2>1, <2>2, QuietFollows DEF ChangeStep
  <2>3. CASE chan' = Append(chan, Notice)
    BY <1>1, <2>1, <2>3, NoticeFollows, AppendChange, SignalTypes
  <2> QED
    BY <2>1, <2>2, <2>3
<1>5. CASE Drop
  <2>1. /\ UNCHANGED <<pc, mine, theirs, about, outbox, batch, written, again>> /\ chan' = <<>>
        /\ missed' = missed \cup ChangesInFlight
    BY <1>5 DEF Drop
  <2>2. StoredStep /\ Announcing' = Announcing
    BY <1>1, <2>1
  <2>3. \A m \in Msg : Announced(m) => Announced(m)'
    BY <2>1, <2>2 DEF Announced
  <2>4. ChangeStep
    BY <2>1 DEF ChangeStep
  <2> QED
    BY <2>1, <2>2, <2>3, <2>4, LostFollows
<1>6. CASE Restart
  <2>1. /\ UNCHANGED <<mine, theirs, about, outbox, written, again>> /\ chan' = <<>>
        /\ missed' = missed \cup ChangesInFlight \cup {about[c] : c \in Announcing}
        /\ \A p \in Proc : batch'[p] = {} /\ pc'[p] \notin Unsent /\ (pc'[p] = "idle" => pc[p] = "idle")
    BY <1>6 DEF Restart, Unsent
  <2>2. StoredStep
    BY <1>0, <2>1 DEF StoredStep, Held
  <2>3. \A m \in Msg : Announced(m) => m \in missed'
    BY <2>1 DEF Announced
  <2>4. ChangeStep
    BY <2>1 DEF ChangeStep
  <2> QED
    BY <2>1, <2>2, <2>3, <2>4, LostFollows
<1>7. CASE Receive
  <2>1. UNCHANGED <<pc, mine, outbox, batch, written>> /\ chan # <<>> /\ chan' = Tail(chan)
    BY <1>7 DEF Receive
  <2>2. \A i \in 1 .. Len(chan') : i + 1 \in 1 .. Len(chan) /\ chan'[i] = chan[i + 1]
    BY <1>0, <2>1
  <2>3. ChangeStep
    BY <2>2 DEF ChangeStep
  <2> QED
    BY <1>1, <1>7, <2>1, <2>3, ReceiveFollows
<1> QED
  BY <1>2, <1>3, <1>4, <1>5, <1>6, <1>7

LEMMA NextChatInv == TypeOK /\ CopyInv /\ ChatInv /\ [Next]_vars => ChatInv'
<1> SUFFICES ASSUME TypeOK, CopyInv, ChatInv, [Next]_vars PROVE ChatInv'
  OBVIOUS
<1>1. Typed \subseteq Msg /\ Edits \cup Deletes \subseteq Change /\ Flushes \cup Start \subseteq Proc
  BY DeliveryAssumption DEF Proc, Change
<1>2. FollowInv' /\ StoredStep /\ ChangeStep
  <2>1. ASSUME NEW c \in Edits, UpdateMessage(c) PROVE FollowInv' /\ StoredStep /\ ChangeStep
    BY <1>1, <2>1, ChangeChatInv
  <2>2. ASSUME NEW c \in Deletes, DeleteMessage(c) PROVE FollowInv' /\ StoredStep /\ ChangeStep
    BY <1>1, <2>2, ChangeChatInv
  <2>3. ASSUME NEW p \in Flushes, AdminFlush(p) PROVE FollowInv' /\ StoredStep /\ ChangeStep
    BY <1>1, <2>3, FlushChatInv DEF AdminFlush
  <2>4. ASSUME NEW n \in Start, StartSession(n) PROVE FollowInv' /\ StoredStep /\ ChangeStep
    BY <1>1, <2>4, FlushChatInv, LinkChatInv DEF StartSession
  <2>5. ASSUME NEW m \in Msg, SendMessage(m) \/ SendLine(m) PROVE FollowInv' /\ StoredStep /\ ChangeStep
    BY <2>5, SendChatInv
  <2> QED
    BY <1>1, <2>1, <2>2, <2>3, <2>4, <2>5, LinkChatInv DEF Next
<1>3. StoredInv' /\ ChangeInv'
  BY <1>2, StoredStepKeeps, ChangeStepKeeps DEF ChatInv, StoredStep
<1> QED
  BY <1>2, <1>3 DEF ChatInv

LEMMA InitChatInv == Init => ChatInv
<1> SUFFICES ASSUME Init PROVE ChatInv
  OBVIOUS
<1>1. /\ \A m \in Msg : theirs[m] = None /\ mine[m] = None /\ m \notin outbox \cup written
      /\ \A p \in Proc : pc[p] = "idle" /\ batch[p] = {}
      /\ Msg \subseteq Proc
  BY DEF Init, Proc
<1>2. \A i \in 1 .. Len(chan) : FALSE
  BY DEF Init
<1>3. FollowInv
  BY <1>1, <1>2, ZenonT(30) DEF FollowInv, Unwritten, Followed, LastText
<1>4. StoredInv
  BY <1>1, ZenonT(30) DEF StoredInv, Held, Unsent
<1>5. ChangeInv
  BY <1>2 DEF ChangeInv
<1> QED
  BY <1>3, <1>4, <1>5 DEF ChatInv

\* When nothing is in flight or to be broadcast the peer's copy of a message is the
\* sender's, unless a change of it was missed or it was written twice: for any number of
\* messages, edits, deletes, flushes and sessions, and restarts of the sender.
THEOREM CopiesInStep == Spec => []InStep
<1>1. ChatInv => InStep
  <2> SUFFICES ASSUME ChatInv, NEW m \in Msg, chan = <<>>, Announcing = {}, theirs[m] # None,
                      m \notin missed \cup again
               PROVE  theirs[m] = mine[m]
    BY DEF InStep
  <2>1. \A i \in 1 .. Len(chan) : FALSE
    OBVIOUS
  <2>2. ~InChan(m) /\ ~Announced(m) /\ Reaches(m)
    BY <2>1 DEF InChan, Announced, Reaches
  <2> QED
    BY <2>2 DEF ChatInv, FollowInv, Followed, LastText
<1>2. TypeOK /\ CopyInv /\ [Next]_vars => CopyInv'
  BY NextCopies
<1> QED
  BY <1>1, <1>2, InitCopies, InitChatInv, NextChatInv, TypeCorrect, PTL DEF Spec

===================================================================================
