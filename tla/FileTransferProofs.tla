---------------------------- MODULE FileTransferProofs ----------------------------
(* Proofs about FileTransfer: a file that is stored is the file that was sent, for files  *)
(* of any length, cut anywhere, and for any number of sessions and flushes.             *)
EXTENDS FileTransfer, TLAPS

USE ZenonT(1), SMTT(30)

\* The first chunk that is in the outbox or has not been read yet.
Unsent == next - Len(outbox)

\* A session that sendFile cannot write to stays one, so that once a chunk was queued all
\* that follow are queued behind it.
SenderInv ==
  /\ \A p \in Proc : sess[p] <= count
  /\ pc[Sender] \in {"idle", "meta"} => next = 1 /\ chan = <<>>
  /\ pc[Sender] = "chunk" /\ CanWrite(Sender) => outbox = <<>>

\* The outbox holds the chunks from Unsent up to the last one that was read, in order;
\* all before it were written.
QueueInv ==
  /\ Len(outbox) < next
  /\ \A k \in DOMAIN outbox : outbox[k] = Unsent + k - 1
  /\ \A j \in 1 .. Unsent - 1 : j \in written

\* What was written to some connection is the beginning of the file.
WrittenInv ==
  /\ \A i \in written : i < next
  /\ \A i \in written : \A j \in Chunk : j < i => j \in written

\* What a flush has left to send is in order and begins where the outbox does, or before;
\* all before it was written.
BatchInv ==
  \A p \in Proc :
    /\ \A k \in DOMAIN batch[p] : batch[p][k] = Head(batch[p]) + k - 1 /\ batch[p][k] < next
    /\ batch[p] # <<>> => /\ Head(batch[p]) <= Unsent
                          /\ \A j \in 1 .. Head(batch[p]) - 1 : j \in written
    /\ pc[p] = "delete" => batch[p] # <<>> /\ Head(batch[p]) \in written

\* As long as no chunk was written twice, what is in flight is in order: the metadata, if
\* it is there, first.
ChanInv ==
  /\ \A a \in DOMAIN chan : chan[a] # Meta => chan[a] \in written
  /\ ~twice => \A a, b \in DOMAIN chan : a < b => chan[a] < chan[b]

LastOf(buf) == IF buf = <<>> THEN 0 ELSE buf[Len(buf)]

\* What the receiver has collected goes before what is in flight, and either it is the
\* beginning of the file, or it is shorter than the file is up to its last chunk.
Collected(pf) ==
  /\ LastOf(pf.buf) \in written \cup {0}
  /\ \/ /\ \A k \in DOMAIN pf.buf : pf.buf[k] = k
        /\ pf.received = Sent[Len(pf.buf)]
     \/ pf.buf # <<>> /\ pf.received < Sent[LastOf(pf.buf)]

PendingInv ==
  pending # None /\ ~twice =>
    /\ Collected(pending)
    /\ \A a \in DOMAIN chan : chan[a] # Meta => LastOf(pending.buf) < chan[a]

-----------------------------------------------------------------------------------
(* Sequences. *)

LEMMA EmptySeq == \A S : <<>> \in Seq(S)
  OBVIOUS

LEMMA TailFacts ==
  ASSUME NEW S, NEW s \in Seq(S), s # <<>>
  PROVE  /\ Head(s) = s[1] /\ Head(s) \in S
         /\ Tail(s) \in Seq(S) /\ Len(Tail(s)) = Len(s) - 1
         /\ DOMAIN s = 1 .. Len(s) /\ Len(s) \in Nat \ {0}
         /\ DOMAIN Tail(s) = 1 .. Len(s) - 1
         /\ \A k \in DOMAIN Tail(s) : Tail(s)[k] = s[k + 1]
  OBVIOUS

LEMMA AppendFacts ==
  ASSUME NEW S, NEW s \in Seq(S), NEW e \in S
  PROVE  /\ Append(s, e) \in Seq(S) /\ Append(s, e) # <<>>
         /\ Len(Append(s, e)) = Len(s) + 1
         /\ DOMAIN s = 1 .. Len(s) /\ Len(s) \in Nat
         /\ DOMAIN Append(s, e) = 1 .. Len(s) + 1
         /\ \A k \in DOMAIN s : Append(s, e)[k] = s[k]
         /\ Append(s, e)[Len(s) + 1] = e
  OBVIOUS

LEMMA RemoveHead ==
  ASSUME NEW S, NEW s \in Seq(S), s # <<>>
  PROVE  WithoutRow(s, 1) = Tail(s)
<1>1. SubSeq(s, 1, 0) = <<>> /\ SubSeq(s, 2, Len(s)) = Tail(s)
  OBVIOUS
<1>2. Tail(s) \in Seq(S)
  OBVIOUS
<1>3. <<>> \o Tail(s) = Tail(s)
  BY <1>2
<1> QED
  BY <1>1, <1>3 DEF WithoutRow
-----------------------------------------------------------------------------------
(* Type correctness. *)

LEMMA Procs ==
  /\ Sender \in Proc /\ Sender \notin Flushes /\ Sender \notin Start
  /\ Flushes \subseteq Proc /\ Start \subseteq Proc
  /\ Chunks \in Nat /\ MaxSessions \in Nat /\ Meta \notin Chunk /\ Chunk \subseteq Nat
  BY TransferAssumption DEF Proc, Sender, Start, Meta, Chunk

LEMMA InitTypeOK == ASSUME Init PROVE TypeOK
<1>1. /\ pc = [p \in Proc |-> "idle"] /\ sess = [p \in Proc |-> 0]
      /\ batch = [p \in Proc |-> <<>>] /\ outbox = <<>> /\ chan = <<>>
      /\ count = 0 /\ next = 1 /\ pending = None /\ stored = None /\ written = {}
      /\ up \in BOOLEAN /\ reg \in BOOLEAN /\ twice \in BOOLEAN
  BY DEF Init
<1>2. batch \in [Proc -> Seq(Chunk)] /\ sess \in [Proc -> 0 .. MaxSessions]
  BY <1>1, Procs
<1> QED
  BY <1>1, <1>2, Procs DEF TypeOK

\* Deleting a row leaves a sequence of chunks.
LEMMA DeleteRowType ==
  ASSUME TypeOK, NEW i
  PROVE  DeleteRow(i) \in Seq(Chunk)
<1>1. outbox \in Seq(Chunk)
  BY DEF TypeOK
<1>2. ASSUME NEW k \in DOMAIN outbox PROVE WithoutRow(outbox, k) \in Seq(Chunk)
  <2>1. k \in 1 .. Len(outbox) /\ Len(outbox) \in Nat
    BY <1>1
  <2>2. SubSeq(outbox, 1, k - 1) \in Seq(Chunk) /\ SubSeq(outbox, k + 1, Len(outbox)) \in Seq(Chunk)
    BY <1>1, <2>1
  <2> QED
    BY <2>2 DEF WithoutRow
<1> QED
  BY <1>1, <1>2 DEF DeleteRow

LEMMA SendFileTypeOK == ASSUME TypeOK, SendFile PROVE TypeOK'
<1> USE Procs DEF TypeOK, Step, Goto, link, recv
<1>1. CASE LoadSession
  BY <1>1 DEF LoadSession
<1>2. CASE SkipFiles
  BY <1>2 DEF SkipFiles
<1>3. CASE SendMeta
  BY <1>3 DEF SendMeta
<1>4. CASE MetaFails
  BY <1>4 DEF MetaFails
<1>5. CASE SendChunk
  <2>1. twice' \in BOOLEAN
    BY <1>5, ZenonT(30) DEF SendChunk, WriteChunk
  <2>2. /\ next \in Chunk /\ chan' = Append(chan, next) /\ written' = written \cup {next}
        /\ next' = next + 1
        /\ UNCHANGED <<count, up, reg, outbox, pc, sess, batch, pending, stored>>
    BY <1>5 DEF SendChunk, WriteChunk
  <2> QED
    BY <2>1, <2>2 DEF Chunk
<1>6. CASE QueueChunk
  BY <1>6 DEF QueueChunk, Chunk
<1>7. CASE EndOfFile
  BY <1>7 DEF EndOfFile
<1> QED
  BY <1>1, <1>2, <1>3, <1>4, <1>5, <1>6, <1>7 DEF SendFile

LEMMA FlushTypeOK ==
  ASSUME TypeOK, BatchInv, NEW p \in Proc, NEW from, FlushOutbox(p, from)
  PROVE  TypeOK'
<1>0. DeleteRow(Head(batch[p])) \in Seq(Chunk)
  BY DeleteRowType
<1>a. chan \in Seq(Chunk \cup {Meta})
  BY DEF TypeOK
<1> USE Procs DEF TypeOK, Step, Goto, link, recv
<1>1. CASE ReadOutbox(p, from)
  BY <1>1 DEF ReadOutbox, Pending
<1>2. CASE FlushLoad(p)
  BY <1>2 DEF FlushLoad
<1>3. CASE FlushSend(p)
  <2>1. twice' \in BOOLEAN
    BY <1>3, ZenonT(30) DEF FlushSend, WriteChunk
  <2>2. /\ batch[p] # <<>> /\ chan' = Append(chan, Head(batch[p]))
        /\ written' = written \cup {Head(batch[p])} /\ pc' = [pc EXCEPT ![p] = "delete"]
        /\ UNCHANGED <<count, up, reg, outbox, next, sess, batch, pending, stored>>
    BY <1>3 DEF FlushSend, WriteChunk
  <2>3. Head(batch[p]) \in Chunk
    BY <2>2
  <2>4. chan' \in Seq(Chunk \cup {Meta})
    BY <1>a, <2>2, <2>3, AppendFacts, ZenonT(30)
  <2>5. written' \subseteq Chunk
    BY <2>2, <2>3, ZenonT(30)
  <2> QED
    BY <2>1, <2>2, <2>4, <2>5
<1>4. CASE FlushFails(p)
  BY <1>4 DEF FlushFails
<1>5. CASE FlushEnds(p)
  BY <1>5 DEF FlushEnds
<1>6. CASE DeleteEntry(p)
  <2>1. /\ pc[p] = "delete" /\ pc' = [pc EXCEPT ![p] = "flush"]
        /\ outbox' = DeleteRow(Head(batch[p])) /\ batch' = [batch EXCEPT ![p] = Tail(@)]
        /\ UNCHANGED <<count, up, reg, chan, next, sess, written, twice, pending, stored>>
    BY <1>6 DEF DeleteEntry
  <2>2. outbox' \in Seq(Chunk)
    BY <1>0, <2>1
  <2>3. batch' \in [Proc -> Seq(Chunk)]
    <3>1. batch[p] # <<>>
      BY <2>1 DEF BatchInv
    <3>2. Tail(batch[p]) \in Seq(Chunk)
      BY <3>1
    <3> QED
      BY <2>1, <3>2
  <2> QED
    BY <2>1, <2>2, <2>3
<1> QED
  BY <1>1, <1>2, <1>3, <1>4, <1>5, <1>6 DEF FlushOutbox

LEMMA ReceiveTypeOK == ASSUME TypeOK, Receive PROVE TypeOK'
<1>1. CASE ReceiveMeta
  BY <1>1 DEF ReceiveMeta, TypeOK, send
<1>2. CASE ReceiveChunk /\ pending = None
  BY <1>2 DEF ReceiveChunk, TypeOK, send, recv
<1>3. CASE ReceiveChunk /\ pending # None
  <2> DEFINE i == Head(chan)
             pf == Write(pending, i)
  <2>1. i \in Chunk /\ chan' = Tail(chan) /\ chan' \in Seq(Chunk \cup {Meta})
    BY <1>3 DEF ReceiveChunk, TypeOK
  <2>2. Bytes(i) \in Nat
    <3>1. i \in 0 .. Chunks /\ i - 1 \in 0 .. Chunks /\ i - 1 < i /\ Chunks \in Nat
      BY <2>1, Procs DEF Chunk
    <3>2. Sent[i - 1] < Sent[i] /\ Sent[i] \in Nat /\ Sent[i - 1] \in Nat
      BY <3>1, TransferAssumption
    <3> QED
      BY <3>2 DEF Bytes
  <2>3. pf \in [buf : Seq(Chunk), received : Nat] /\ pf.buf # <<>>
    <3>1. pending.buf \in Seq(Chunk) /\ pending.received \in Nat
      BY <1>3 DEF TypeOK
    <3>2. Append(pending.buf, i) \in Seq(Chunk) /\ Append(pending.buf, i) # <<>>
      BY <2>1, <3>1, AppendFacts
    <3>3. pending.received + Bytes(i) \in Nat
      BY <2>2, <3>1
    <3> QED
      BY <3>2, <3>3 DEF Write
  <2>4. Total \in Nat
    BY Procs, TransferAssumption DEF Total
  <2> HIDE DEF pf
  <2>5. CASE Complete(pf)
    BY <1>3, <2>1, <2>3, <2>5 DEF ReceiveChunk, Finalize, TypeOK, send, pf
  <2>6. CASE ~Complete(pf)
    <3>1. pf.received < Total
      BY <2>3, <2>4, <2>6 DEF Complete
    <3> QED
      BY <1>3, <2>1, <2>3, <2>6, <3>1 DEF ReceiveChunk, TypeOK, send, pf
  <2> QED
    BY <2>5, <2>6
<1> QED
  BY <1>1, <1>2, <1>3 DEF Receive

LEMMA SessionTypeOK ==
  ASSUME TypeOK, 
         \/ Connect \/ Drop \/ Unregister \/ SenderRestarts \/ ReceiverRestarts \/ RefuseMeta
         \/ \E n \in Start : Serves(n)
  PROVE  TypeOK'
<1> USE Procs DEF TypeOK, Step, Goto, link, recv, send
<1>1. CASE Connect
  <2>1. count + 1 \in Start
    BY <1>1 DEF Connect, Start
  <2> QED
    BY <1>1, <2>1 DEF Connect
<1>2. CASE Drop
  BY <1>2, EmptySeq, ZenonT(30) DEF Drop
<1>3. CASE Unregister
  BY <1>3 DEF Unregister
<1>4. CASE SenderRestarts
  BY <1>4, EmptySeq, ZenonT(30) DEF SenderRestarts
<1>5. CASE ReceiverRestarts
  BY <1>5, EmptySeq, ZenonT(30) DEF ReceiverRestarts
<1>6. CASE RefuseMeta
  BY <1>6 DEF RefuseMeta
<1>7. ASSUME NEW n \in Start, Serves(n) PROVE TypeOK'
  BY <1>7 DEF Serves
<1> QED
  BY <1>1, <1>2, <1>3, <1>4, <1>5, <1>6, <1>7

-----------------------------------------------------------------------------------
(* sendFile keeps to its session. *)

\* A flush that has something to send finds that sendFile has read a chunk.
LEMMA BatchHead ==
  ASSUME TypeOK, BatchInv, NEW p \in Proc, batch[p] # <<>>
  PROVE  /\ Head(batch[p]) \in Chunk /\ Head(batch[p]) < next
         /\ Head(batch[p]) = batch[p][1] /\ Len(batch[p]) \in Nat \ {0}
<1>1. batch[p] \in Seq(Chunk)
  BY DEF TypeOK
<1>2. 1 \in DOMAIN batch[p] /\ Head(batch[p]) \in Chunk /\ Head(batch[p]) = batch[p][1]
      /\ Len(batch[p]) \in Nat \ {0}
  BY <1>1
<1> QED
  BY <1>2 DEF BatchInv

LEMMA Arrays ==
  ASSUME TypeOK
  PROVE  /\ DOMAIN pc = Proc /\ DOMAIN sess = Proc /\ DOMAIN batch = Proc
         /\ count \in Nat /\ next \in Nat \ {0} /\ \A p \in Proc : sess[p] \in Nat
<1>1. DOMAIN pc = Proc /\ DOMAIN sess = Proc /\ DOMAIN batch = Proc
  BY DEF TypeOK
<1>2. count \in Nat /\ next \in Nat \ {0}
  BY Procs DEF TypeOK
<1>3. ASSUME NEW p \in Proc PROVE sess[p] \in Nat
  <2>1. sess[p] \in 0 .. MaxSessions
    BY DEF TypeOK
  <2> QED
    BY <2>1, Procs
<1> QED
  BY <1>1, <1>2, <1>3

LEMMA Batches ==
  ASSUME TypeOK, NEW p \in Proc
  PROVE  batch[p] \in Seq(Chunk) /\ \A k \in DOMAIN batch[p] : batch[p][k] \in Nat
<1>1. batch[p] \in Seq(Chunk)
  BY DEF TypeOK
<1>2. \A k \in DOMAIN batch[p] : batch[p][k] \in Chunk
  BY <1>1
<1> QED
  BY <1>1, <1>2, Procs

LEMMA DeleteFromEmpty ==
  ASSUME outbox = <<>>, NEW i
  PROVE  DeleteRow(i) = <<>>
  BY DEF DeleteRow

LEMMA SenderKeepsSenderInv ==
  ASSUME TypeOK, SenderInv, QueueInv, SendFile
  PROVE  SenderInv'
<1>1. /\ Sender \in Proc /\ DOMAIN pc = Proc /\ DOMAIN sess = Proc
      /\ count \in Nat /\ \A q \in Proc : sess[q] \in Nat
  BY Procs, Arrays
<1>2. CASE LoadSession
  BY <1>1, <1>2 DEF LoadSession, SenderInv, Step, Goto, link, CanWrite
<1>3. CASE SkipFiles \/ MetaFails \/ EndOfFile
  BY <1>1, <1>3 DEF SkipFiles, MetaFails, EndOfFile, SenderInv, Step, Goto, link, CanWrite
<1>4. CASE SendMeta
  <2>1. next = 1
    BY <1>4 DEF SendMeta, Step, SenderInv
  <2>2. outbox = <<>>
    BY <2>1 DEF QueueInv, TypeOK
  <2> QED
    BY <1>1, <1>4, <2>2 DEF SendMeta, SenderInv, Step, Goto
<1>5. CASE SendChunk
  BY <1>1, <1>5 DEF SendChunk, SenderInv, CanWrite
<1>6. CASE QueueChunk
  BY <1>1, <1>6 DEF QueueChunk, SenderInv, CanWrite, link
<1> QED
  BY <1>2, <1>3, <1>4, <1>5, <1>6 DEF SendFile

LEMMA FlushKeepsSenderInv ==
  ASSUME TypeOK, SenderInv, BatchInv,
         NEW p \in Flushes \cup Start, NEW from, FlushOutbox(p, from)
  PROVE  SenderInv'
<1>1. /\ Sender \in Proc /\ p \in Proc /\ p # Sender
      /\ DOMAIN pc = Proc /\ DOMAIN sess = Proc
      /\ count \in Nat /\ \A q \in Proc : sess[q] \in Nat
  BY Procs, Arrays
<1>2. pc'[Sender] = pc[Sender] /\ next' = next /\ count' = count /\ up' = up
  BY <1>1 DEF FlushOutbox, ReadOutbox, FlushLoad, FlushSend, FlushFails, FlushEnds, DeleteEntry,
     Step, Goto, link
<1>3. sess'[Sender] = sess[Sender] /\ \A q \in Proc : sess'[q] <= count
  BY <1>1 DEF FlushOutbox, ReadOutbox, FlushLoad, FlushSend, FlushFails, FlushEnds, DeleteEntry,
     SenderInv
<1>4. pc[Sender] \in {"idle", "meta"} => chan' = chan
  <2>1. CASE FlushSend(p)
    <3>1. Head(batch[p]) \in Chunk /\ Head(batch[p]) < next
      BY <1>1, <2>1, BatchHead DEF FlushSend
    <3>2. next # 1
      BY <3>1, Procs DEF Chunk
    <3> QED
      BY <3>2 DEF SenderInv
  <2> QED
    BY <2>1 DEF FlushOutbox, ReadOutbox, FlushLoad, FlushFails, FlushEnds, DeleteEntry, link
<1>5. outbox = <<>> => outbox' = <<>>
  BY DeleteFromEmpty DEF FlushOutbox, ReadOutbox, FlushLoad, FlushSend, FlushFails, FlushEnds,
     DeleteEntry
<1> QED
  BY <1>2, <1>3, <1>4, <1>5 DEF SenderInv, CanWrite

LEMMA SessionKeepsSenderInv ==
  ASSUME TypeOK, SenderInv,
         \/ Connect \/ Drop \/ Unregister \/ SenderRestarts \/ ReceiverRestarts \/ RefuseMeta
         \/ Receive \/ \E n \in Start : Serves(n)
  PROVE  SenderInv'
<1>1. /\ Sender \in Proc /\ DOMAIN pc = Proc /\ DOMAIN sess = Proc
      /\ count \in Nat /\ \A q \in Proc : sess[q] \in Nat
  BY Procs, Arrays
<1>2. CASE Connect
  <2>1. count + 1 \in Start /\ count + 1 # Sender /\ count + 1 \in Proc
    BY <1>1, <1>2, Procs DEF Connect, Start, Sender
  <2>2. pc'[Sender] = pc[Sender] /\ count' = count + 1 /\ UNCHANGED <<sess, next, chan, outbox>>
    BY <1>1, <1>2, <2>1 DEF Connect, Step, Goto
  <2>3. \A q \in Proc : sess[q] <= count' /\ sess[q] # count'
    BY <1>1, <2>2 DEF SenderInv
  <2> QED
    BY <1>1, <2>2, <2>3 DEF SenderInv, CanWrite
<1>3. CASE Drop \/ ReceiverRestarts
  BY <1>1, <1>3 DEF Drop, ReceiverRestarts, SenderInv, CanWrite, send
<1>4. CASE Unregister
  BY <1>1, <1>4 DEF Unregister, SenderInv, CanWrite, send
<1>5. CASE SenderRestarts
  BY <1>1, <1>5 DEF SenderRestarts, SenderInv, CanWrite
<1>6. CASE RefuseMeta \/ Receive
  <2>1. chan # <<>> /\ UNCHANGED <<count, up, send>>
    BY <1>6 DEF RefuseMeta, Receive, ReceiveMeta, ReceiveChunk
  <2> QED
    BY <2>1 DEF SenderInv, CanWrite, send
<1>7. ASSUME NEW n \in Start, Serves(n) PROVE SenderInv'
  <2>1. pc'[Sender] = pc[Sender]
    BY <1>1, <1>7, Procs DEF Serves, Step, Goto
  <2> QED
    BY <1>7, <2>1 DEF Serves, SenderInv, CanWrite, link
<1> QED
  BY <1>2, <1>3, <1>4, <1>5, <1>6, <1>7

-----------------------------------------------------------------------------------
(* Chunks are written in the order of the file, by sendFile and by the flushes. *)

OrderInv == QueueInv /\ WrittenInv /\ BatchInv

\* Steps that leave the outbox alone and at most end flushes.
LEMMA OrderKept ==
  ASSUME OrderInv, UNCHANGED <<outbox, next, written>>,
         \A q \in Proc : \/ batch'[q] = batch[q] /\ (pc'[q] = "delete" => pc[q] = "delete")
                         \/ batch'[q] = <<>> /\ pc'[q] # "delete"
  PROVE  OrderInv'
<1>1. QueueInv' /\ WrittenInv'
  BY DEF OrderInv, QueueInv, WrittenInv, Unsent
<1>2. BatchInv'
  BY DEF OrderInv, BatchInv, Unsent
<1> QED
  BY <1>1, <1>2 DEF OrderInv

LEMMA SendChunkKeepsOrder ==
  ASSUME TypeOK, SenderInv, OrderInv, SendChunk
  PROVE  OrderInv'
<1>1. /\ next \in Chunk /\ next \in Nat \ {0} /\ next' = next + 1
      /\ written' = written \cup {next} /\ outbox = <<>>
      /\ UNCHANGED <<outbox, pc, batch>>
  BY Procs, Arrays DEF SendChunk, WriteChunk, SenderInv
<1>2. Len(outbox) = 0 /\ Len(outbox') = 0 /\ Unsent = next /\ Unsent' = next + 1
  BY <1>1 DEF Unsent
<1>3. \A j \in 1 .. next : j \in written'
  BY <1>1, <1>2 DEF OrderInv, QueueInv
<1>4. QueueInv'
  BY <1>1, <1>2, <1>3 DEF QueueInv
<1>5. WrittenInv'
  <2>1. \A i \in written : i \in Nat /\ i < next
    BY Procs DEF OrderInv, WrittenInv, TypeOK
  <2>2. \A i \in written' : i < next'
    BY <1>1, <2>1
  <2>3. \A j \in Chunk : j <= next => j \in written'
    BY <1>1, <1>3, Procs DEF Chunk
  <2>4. ASSUME NEW i \in written', NEW j \in Chunk, j < i PROVE j \in written'
    BY <1>1, <2>1, <2>3, <2>4, Procs
  <2> QED
    BY <2>2, <2>4 DEF WrittenInv
<1>6. BatchInv'
  <2> SUFFICES ASSUME NEW p \in Proc
               PROVE  /\ \A k \in DOMAIN batch[p] :
                           batch[p][k] = Head(batch[p]) + k - 1 /\ batch[p][k] < next + 1
                      /\ batch[p] # <<>> => /\ Head(batch[p]) <= next + 1
                                            /\ \A j \in 1 .. Head(batch[p]) - 1 : j \in written'
                      /\ pc[p] = "delete" => batch[p] # <<>> /\ Head(batch[p]) \in written'
    BY <1>1, <1>2 DEF BatchInv
  <2>1. \A k \in DOMAIN batch[p] : batch[p][k] \in Nat
    BY Batches
  <2>2. \A k \in DOMAIN batch[p] : batch[p][k] = Head(batch[p]) + k - 1 /\ batch[p][k] < next + 1
    BY <1>1, <2>1 DEF OrderInv, BatchInv
  <2>3. batch[p] # <<>> => Head(batch[p]) <= next + 1
    <3> SUFFICES ASSUME batch[p] # <<>> PROVE Head(batch[p]) <= next + 1
      OBVIOUS
    <3>1. Head(batch[p]) \in Nat /\ Head(batch[p]) < next
      BY BatchHead, Procs DEF OrderInv
    <3>2. next \in Nat
      BY <1>1
    <3> QED
      BY <3>1, <3>2
  <2>4. \A j \in written : j \in written'
    BY <1>1
  <2> QED
    BY <2>2, <2>3, <2>4 DEF OrderInv, BatchInv
<1> QED
  BY <1>4, <1>5, <1>6 DEF OrderInv

LEMMA QueueChunkKeepsOrder ==
  ASSUME TypeOK, OrderInv, QueueChunk
  PROVE  OrderInv'
<1>1. /\ next \in Chunk /\ next \in Nat \ {0} /\ next' = next + 1
      /\ outbox' = Append(outbox, next) /\ outbox \in Seq(Chunk)
      /\ UNCHANGED <<written, pc, batch>>
  BY Arrays DEF QueueChunk, TypeOK
<1>2. Len(outbox) \in Nat /\ Len(outbox') = Len(outbox) + 1 /\ Unsent' = Unsent /\ Unsent \in Int
  BY <1>1 DEF Unsent
<1>3. QueueInv'
  <2>1. Len(outbox') < next'
    BY <1>1, <1>2 DEF OrderInv, QueueInv
  <2>2. ASSUME NEW k \in DOMAIN outbox' PROVE outbox'[k] = Unsent + k - 1
    <3>1. CASE k \in DOMAIN outbox
      BY <1>1, <3>1, AppendFacts DEF OrderInv, QueueInv
    <3>2. CASE k = Len(outbox) + 1
      BY <1>1, <1>2, <3>2, AppendFacts DEF Unsent
    <3> QED
      BY <1>1, <1>2, <3>1, <3>2, AppendFacts
  <2> QED
    BY <1>1, <1>2, <2>1, <2>2 DEF OrderInv, QueueInv
<1>4. WrittenInv'
  BY <1>1, Procs DEF OrderInv, WrittenInv, TypeOK
<1>5. BatchInv'
  <2>1. ASSUME NEW p \in Proc, NEW k \in DOMAIN batch[p] PROVE batch[p][k] \in Nat
    BY Batches
  <2>2. ASSUME NEW p \in Proc, NEW k \in DOMAIN batch[p] PROVE batch[p][k] < next + 1
    BY <1>1, <2>1 DEF OrderInv, BatchInv
  <2> QED
    BY <1>1, <1>2, <2>2 DEF OrderInv, BatchInv
<1> QED
  BY <1>3, <1>4, <1>5 DEF OrderInv

LEMMA ReadOutboxKeepsOrder ==
  ASSUME TypeOK, OrderInv, NEW p \in Proc, NEW from, ReadOutbox(p, from)
  PROVE  OrderInv'
<1>1. /\ batch' = [batch EXCEPT ![p] = outbox] /\ outbox \in Seq(Chunk)
      /\ pc' = [pc EXCEPT ![p] = IF outbox = <<>> THEN "flushed" ELSE "load"]
      /\ UNCHANGED <<outbox, next, written>>
  BY DEF ReadOutbox, Pending, Goto, TypeOK
<1>2. QueueInv' /\ WrittenInv' /\ Unsent' = Unsent
  BY <1>1 DEF OrderInv, QueueInv, WrittenInv, Unsent
<1>3. batch'[p] = outbox /\ pc'[p] # "delete"
  BY <1>1, Arrays
<1>4. \A q \in Proc \ {p} : batch'[q] = batch[q] /\ pc'[q] = pc[q]
  BY <1>1, Arrays
<1>5. \A k \in DOMAIN outbox : outbox[k] = Unsent + k - 1 /\ outbox[k] < next
  <2>1. Len(outbox) \in Nat /\ DOMAIN outbox = 1 .. Len(outbox) /\ next \in Nat
    BY <1>1, Arrays
  <2> QED
    BY <2>1 DEF OrderInv, QueueInv, Unsent
<1>6. outbox # <<>> => Head(outbox) = Unsent /\ Unsent \in Int
  <2>1. ASSUME outbox # <<>> PROVE 1 \in DOMAIN outbox /\ Head(outbox) = outbox[1] /\ Unsent \in Int
    BY <1>1, <2>1, Arrays DEF Unsent
  <2> QED
    BY <1>5, <2>1
<1>7. BatchInv'
  <2> SUFFICES ASSUME NEW q \in Proc
               PROVE  /\ \A k \in DOMAIN batch'[q] :
                           batch'[q][k] = Head(batch'[q]) + k - 1 /\ batch'[q][k] < next
                      /\ batch'[q] # <<>> => /\ Head(batch'[q]) <= Unsent
                                             /\ \A j \in 1 .. Head(batch'[q]) - 1 : j \in written
                      /\ pc'[q] = "delete" => batch'[q] # <<>> /\ Head(batch'[q]) \in written
    BY <1>1, <1>2, ZenonT(30), SMTT(30) DEF BatchInv
  <2>1. CASE q # p
    BY <1>4, <2>1 DEF OrderInv, BatchInv
  <2>2. CASE q = p
    <3>1. ASSUME NEW k \in DOMAIN outbox PROVE outbox # <<>>
      BY <1>1
    <3>2. outbox # <<>> => Head(outbox) <= Unsent
      BY <1>6
    <3> QED
      BY <1>3, <1>5, <1>6, <2>2, <3>1, <3>2 DEF OrderInv, QueueInv
  <2> QED
    BY <2>1, <2>2
<1> QED
  BY <1>2, <1>7 DEF OrderInv

\* What a flush sends next follows what was written.
LEMMA FlushSendKeepsOrder ==
  ASSUME TypeOK, OrderInv, NEW p \in Proc, FlushSend(p)
  PROVE  OrderInv'
<1> DEFINE h == Head(batch[p])
<1>1. /\ batch[p] # <<>> /\ written' = written \cup {h} /\ pc' = [pc EXCEPT ![p] = "delete"]
      /\ UNCHANGED <<outbox, next, batch>>
  BY DEF FlushSend, WriteChunk, Step, Goto
<1>2. h \in Chunk /\ h < next /\ h \in Nat
  BY <1>1, BatchHead, Procs DEF OrderInv
<1>3. \A j \in 1 .. h - 1 : j \in written
  BY <1>1 DEF OrderInv, BatchInv
<1>4. \A j \in written : j \in written'
  BY <1>1
<1> HIDE DEF h
<1>5. QueueInv' /\ Unsent' = Unsent
  BY <1>1, <1>4 DEF OrderInv, QueueInv, Unsent
<1>6. WrittenInv'
  <2>1. ASSUME NEW i \in written' PROVE i < next'
    BY <1>1, <1>2 DEF OrderInv, WrittenInv
  <2>2. ASSUME NEW i \in written', NEW j \in Chunk, j < i PROVE j \in written'
    <3>1. CASE i = h
      BY <1>2, <1>3, <1>4, <2>2, <3>1, Procs DEF Chunk
    <3>2. CASE i \in written
      BY <1>4, <2>2, <3>2 DEF OrderInv, WrittenInv
    <3> QED
      BY <1>1, <3>1, <3>2
  <2> QED
    BY <2>1, <2>2 DEF WrittenInv
<1>7. pc'[p] = "delete" /\ \A q \in Proc \ {p} : pc'[q] = pc[q]
  BY <1>1, Arrays
<1>8. h \in written'
  BY <1>1
<1>9. BatchInv'
  BY <1>1, <1>4, <1>5, <1>7, <1>8 DEF OrderInv, BatchInv, h
<1> QED
  BY <1>5, <1>6, <1>9 DEF OrderInv

\* The row that a flush deletes is the first of the outbox, or it is gone already.
LEMMA DeletedRow ==
  ASSUME TypeOK, OrderInv, NEW p \in Proc, pc[p] = "delete"
  PROVE  LET h == Head(batch[p])
         IN  /\ h \in written /\ h \in Chunk /\ h < next /\ batch[p] # <<>>
             /\ \/ outbox # <<>> /\ Unsent = h /\ DeleteRow(h) = Tail(outbox)
                \/ h < Unsent /\ DeleteRow(h) = outbox
<1> DEFINE h == Head(batch[p])
<1>1. batch[p] # <<>> /\ h \in written /\ h <= Unsent
  BY DEF OrderInv, BatchInv
<1>2. h \in Chunk /\ h < next /\ h \in Nat
  BY <1>1, BatchHead, Procs DEF OrderInv
<1>3. /\ outbox \in Seq(Chunk) /\ Len(outbox) \in Nat
      /\ DOMAIN outbox = 1 .. Len(outbox) /\ Unsent \in Int
  BY Arrays DEF TypeOK, Unsent
<1> HIDE DEF h
<1>4. CASE outbox = <<>>
  <2>1. Unsent = next
    BY <1>3, <1>4, Arrays DEF Unsent
  <2> QED
    BY <1>1, <1>2, <1>4, <2>1, DeleteFromEmpty DEF h
<1>5. CASE outbox # <<>> /\ Unsent = h
  <2>1. 1 \in DOMAIN outbox /\ outbox[1] = h
    BY <1>2, <1>3, <1>5 DEF OrderInv, QueueInv
  <2>2. \A k \in DOMAIN outbox : outbox[k] = h => k = 1
    BY <1>2, <1>3, <1>5 DEF OrderInv, QueueInv
  <2>3. (CHOOSE k \in DOMAIN outbox : outbox[k] = h) = 1
    BY <2>1, <2>2
  <2>4. DeleteRow(h) = Tail(outbox)
    BY <1>3, <1>5, <2>1, <2>3, RemoveHead DEF DeleteRow
  <2> QED
    BY <1>1, <1>2, <1>5, <2>4 DEF h
<1>6. CASE outbox # <<>> /\ Unsent # h
  <2>1. h < Unsent
    BY <1>1, <1>2, <1>3, <1>6
  <2>2. \A k \in DOMAIN outbox : outbox[k] # h
    BY <1>2, <1>3, <2>1 DEF OrderInv, QueueInv
  <2>3. DeleteRow(h) = outbox
    BY <2>2 DEF DeleteRow
  <2> QED
    BY <1>1, <1>2, <2>1, <2>3 DEF h
<1> QED
  BY <1>4, <1>5, <1>6

LEMMA DeleteEntryKeepsOrder ==
  ASSUME TypeOK, OrderInv, NEW p \in Proc, DeleteEntry(p)
  PROVE  OrderInv'
<1> DEFINE h == Head(batch[p])
<1>1. /\ pc[p] = "delete" /\ pc' = [pc EXCEPT ![p] = "flush"]
      /\ outbox' = DeleteRow(h) /\ batch' = [batch EXCEPT ![p] = Tail(@)]
      /\ UNCHANGED <<next, written>>
  BY DEF DeleteEntry, Step, Goto
<1>2. /\ h \in written /\ h \in Chunk /\ h < next /\ batch[p] # <<>>
      /\ \/ outbox # <<>> /\ Unsent = h /\ outbox' = Tail(outbox)
         \/ h < Unsent /\ outbox' = outbox
  BY <1>1, DeletedRow
<1>3. /\ outbox \in Seq(Chunk) /\ Len(outbox) \in Nat /\ DOMAIN outbox = 1 .. Len(outbox)
      /\ next \in Nat /\ Unsent \in Int /\ h \in Nat /\ batch[p] \in Seq(Chunk)
  <2>1. outbox \in Seq(Chunk)
    BY DEF TypeOK
  <2>2. Len(outbox) \in Nat /\ DOMAIN outbox = 1 .. Len(outbox)
    BY <2>1
  <2>3. next \in Nat
    BY Arrays
  <2>4. h \in Nat
    BY <1>2, Procs
  <2> QED
    BY <2>1, <2>2, <2>3, <2>4, Batches DEF Unsent
<1>4. Unsent' \in Int /\ h + 1 <= Unsent' /\ Unsent <= Unsent'
  <2> HIDE DEF h
  <2>1. CASE outbox # <<>> /\ Unsent = h /\ outbox' = Tail(outbox)
    BY <1>1, <1>3, <2>1 DEF Unsent
  <2>2. CASE h < Unsent /\ outbox' = outbox
    BY <1>1, <1>3, <2>2 DEF Unsent
  <2> QED
    BY <1>2, <2>1, <2>2
<1>5. QueueInv'
  <2> HIDE DEF h
  <2>1. CASE outbox # <<>> /\ Unsent = h /\ outbox' = Tail(outbox)
    <3>1. Len(outbox') = Len(outbox) - 1 /\ Unsent' = Unsent + 1 /\ Len(outbox) # 0
      BY <1>1, <1>3, <2>1 DEF Unsent
    <3>2. /\ DOMAIN outbox' = 1 .. Len(outbox) - 1
          /\ \A k \in DOMAIN outbox' : outbox'[k] = outbox[k + 1]
      BY <1>3, <2>1, TailFacts
    <3>3. Len(outbox') < next'
      BY <1>1, <1>3, <3>1 DEF OrderInv, QueueInv
    <3>4. ASSUME NEW k \in DOMAIN outbox' PROVE outbox'[k] = Unsent' + k - 1
      <4>1. k \in Nat /\ k + 1 \in DOMAIN outbox
        BY <1>3, <3>2
      <4>2. outbox[k + 1] = Unsent + (k + 1) - 1
        BY <4>1 DEF OrderInv, QueueInv
      <4> QED
        BY <1>3, <3>1, <3>2, <4>1, <4>2
    <3>5. ASSUME NEW j \in 1 .. Unsent' - 1 PROVE j \in written'
      <4>1. j = h \/ j \in 1 .. Unsent - 1
        BY <1>3, <2>1, <3>1
      <4> QED
        BY <1>1, <1>2, <4>1 DEF OrderInv, QueueInv
    <3> QED
      BY <3>3, <3>4, <3>5 DEF QueueInv
  <2>2. CASE h < Unsent /\ outbox' = outbox
    BY <1>1, <2>2 DEF OrderInv, QueueInv, Unsent
  <2> QED
    BY <1>2, <2>1, <2>2
<1>6. WrittenInv'
  BY <1>1 DEF OrderInv, WrittenInv
<1>7. BatchInv'
  <2>1. batch'[p] = Tail(batch[p]) /\ pc'[p] = "flush"
    BY <1>1, Arrays
  <2>2. ASSUME NEW q \in Proc, q # p
        PROVE  batch'[q] = batch[q] /\ pc'[q] = pc[q]
    BY <1>1, <2>2, Arrays
  <2>3. ASSUME NEW q \in Proc, q # p, batch[q] # <<>> PROVE Head(batch[q]) <= Unsent'
    <3>1. Head(batch[q]) <= Unsent /\ Head(batch[q]) \in Nat
      BY <2>3, BatchHead, Procs DEF OrderInv, BatchInv
    <3> QED
      BY <1>3, <1>4, <3>1
  <2>4. ASSUME NEW q \in Proc, q # p
        PROVE  /\ \A k \in DOMAIN batch'[q] :
                    batch'[q][k] = Head(batch'[q]) + k - 1 /\ batch'[q][k] < next'
               /\ batch'[q] # <<>> => /\ Head(batch'[q]) <= Unsent'
                                      /\ \A j \in 1 .. Head(batch'[q]) - 1 : j \in written'
               /\ pc'[q] = "delete" => batch'[q] # <<>> /\ Head(batch'[q]) \in written'
    BY <1>1, <2>2, <2>3, <2>4 DEF OrderInv, BatchInv
  <2>5. /\ DOMAIN batch[p] = 1 .. Len(batch[p]) /\ Len(batch[p]) \in Nat
        /\ DOMAIN batch'[p] = 1 .. Len(batch[p]) - 1
        /\ \A k \in DOMAIN batch'[p] : batch'[p][k] = batch[p][k + 1]
    BY <1>2, <1>3, <2>1, TailFacts
  <2>6. ASSUME NEW k \in DOMAIN batch'[p] PROVE batch'[p][k] = h + 1 + k - 1 /\ batch'[p][k] < next'
    <3>1. k \in Nat /\ k + 1 \in DOMAIN batch[p]
      BY <2>5
    <3>2. batch[p][k + 1] = h + (k + 1) - 1 /\ batch[p][k + 1] < next
      BY <3>1 DEF OrderInv, BatchInv
    <3> QED
      BY <1>1, <1>3, <2>5, <3>1, <3>2
  <2>7. batch'[p] # <<>> => Head(batch'[p]) = h + 1
    <3>1. ASSUME batch'[p] # <<>> PROVE 1 \in DOMAIN batch'[p] /\ Head(batch'[p]) = batch'[p][1]
      <4>1. batch'[p] \in Seq(Chunk)
        BY <1>2, <1>3, <2>1, TailFacts
      <4> QED
        BY <3>1, <4>1
    <3> QED
      BY <1>3, <2>6, <3>1
  <2>8. \A j \in 1 .. h : j \in written'
    BY <1>1, <1>2, <1>3 DEF OrderInv, BatchInv
  <2>9. \A k \in DOMAIN batch'[p] : batch'[p] # <<>>
    BY <2>1
  <2> HIDE DEF h
  <2>10. /\ \A k \in DOMAIN batch'[p] :
              batch'[p][k] = Head(batch'[p]) + k - 1 /\ batch'[p][k] < next'
         /\ batch'[p] # <<>> => /\ Head(batch'[p]) <= Unsent'
                                /\ \A j \in 1 .. Head(batch'[p]) - 1 : j \in written'
         /\ pc'[p] = "delete" => batch'[p] # <<>> /\ Head(batch'[p]) \in written'
    <3>1. CASE batch'[p] = <<>>
      BY <2>1, <2>9, <3>1
    <3>2. CASE batch'[p] # <<>>
      <4>1. Head(batch'[p]) = h + 1 /\ Head(batch'[p]) - 1 = h
        BY <1>3, <2>7, <3>2
      <4> QED
        BY <1>4, <2>1, <2>6, <2>8, <3>2, <4>1
    <3> QED
      BY <3>1, <3>2
  <2> QED
    BY <2>4, <2>10 DEF BatchInv
<1> QED
  BY <1>5, <1>6, <1>7 DEF OrderInv

LEMMA NextOrderInv ==
  ASSUME TypeOK, SenderInv, OrderInv, [Next]_vars
  PROVE  OrderInv'
<1> USE Arrays, Procs
<1>1. CASE SendFile
  <2>1. CASE LoadSession \/ SkipFiles \/ SendMeta \/ MetaFails \/ EndOfFile
    <3>1. UNCHANGED <<outbox, next, written, batch>>
      BY <2>1 DEF LoadSession, SkipFiles, SendMeta, MetaFails, EndOfFile
    <3>2. \A q \in Proc : pc'[q] = "delete" => pc[q] = "delete"
      BY <2>1 DEF LoadSession, SkipFiles, SendMeta, MetaFails, EndOfFile, Step, Goto
    <3> QED
      BY <3>1, <3>2, OrderKept
  <2> QED
    BY <1>1, <2>1, SendChunkKeepsOrder, QueueChunkKeepsOrder DEF SendFile
<1>2. ASSUME NEW p \in Proc, NEW from, FlushOutbox(p, from) PROVE OrderInv'
  <2>1. CASE FlushLoad(p) \/ FlushFails(p) \/ FlushEnds(p)
    <3>1. UNCHANGED <<outbox, next, written>> /\ pc'[p] # "delete"
      BY <2>1 DEF FlushLoad, FlushFails, FlushEnds, Step, Goto
    <3>2. batch'[p] = batch[p] \/ batch'[p] = <<>>
      BY <2>1 DEF FlushLoad, FlushFails, FlushEnds
    <3>3. \A q \in Proc \ {p} : batch'[q] = batch[q] /\ pc'[q] = pc[q]
      BY <2>1 DEF FlushLoad, FlushFails, FlushEnds, Step, Goto
    <3> QED
      BY <3>1, <3>2, <3>3, OrderKept
  <2> QED
    BY <1>2, <2>1, ReadOutboxKeepsOrder, FlushSendKeepsOrder, DeleteEntryKeepsOrder DEF FlushOutbox
<1>3. CASE Connect \/ \E n \in Start : Serves(n)
  <2>1. UNCHANGED <<outbox, next, written, batch>>
    BY <1>3 DEF Connect, Serves
  <2>2. \A q \in Proc : pc'[q] = "delete" => pc[q] = "delete"
    BY <1>3 DEF Connect, Serves, Step, Goto
  <2> QED
    BY <2>1, <2>2, OrderKept
<1>4. CASE SenderRestarts
  <2>1. UNCHANGED <<outbox, next, written>> /\ \A q \in Proc : batch'[q] = <<>> /\ pc'[q] # "delete"
    BY <1>4 DEF SenderRestarts
  <2> QED
    BY <2>1, OrderKept
<1>5. CASE Drop \/ Unregister \/ ReceiverRestarts \/ Receive \/ RefuseMeta \/ UNCHANGED vars
  <2>1. UNCHANGED send
    BY <1>5 DEF Drop, Unregister, ReceiverRestarts, Receive, ReceiveMeta, ReceiveChunk,
       RefuseMeta, vars
  <2> QED
    BY <2>1, OrderKept DEF send
<1> QED
  BY <1>1, <1>2, <1>3, <1>4, <1>5 DEF Next, StartSession

-----------------------------------------------------------------------------------
(* What the receiver collects. *)

LEMMA Growing ==
  ASSUME NEW i \in 0 .. Chunks, NEW j \in 0 .. Chunks, i <= j
  PROVE  /\ Sent[i] \in Nat /\ Sent[j] \in Nat /\ Sent[i] <= Sent[j]
         /\ i # j => Sent[i] < Sent[j]
<1>1. i \in Nat /\ j \in Nat /\ Sent[i] \in Nat /\ Sent[j] \in Nat
  BY TransferAssumption
<1>2. i # j => Sent[i] < Sent[j]
  BY <1>1, TransferAssumption
<1> QED
  BY <1>1, <1>2

\* The beginning of the file has its last chunk's number as its length.
LEMMA Prefix ==
  ASSUME NEW buf \in Seq(Chunk), \A k \in DOMAIN buf : buf[k] = k
  PROVE  Len(buf) \in 0 .. Chunks /\ LastOf(buf) = Len(buf)
<1>1. Len(buf) \in Nat /\ DOMAIN buf = 1 .. Len(buf)
  OBVIOUS
<1>2. CASE Len(buf) = 0
  BY <1>1, <1>2, Procs DEF LastOf
<1>3. CASE Len(buf) # 0
  <2>1. Len(buf) \in DOMAIN buf /\ buf # <<>>
    BY <1>1, <1>3
  <2>2. buf[Len(buf)] = Len(buf) /\ buf[Len(buf)] \in Chunk
    BY <2>1
  <2> QED
    BY <2>1, <2>2, Procs DEF LastOf, Chunk
<1> QED
  BY <1>2, <1>3

LEMMA Collects ==
  ASSUME NEW pf \in [buf : Seq(Chunk), received : Nat], Collected(pf),
         NEW i \in Chunk, i \in written, LastOf(pf.buf) < i
  PROVE  Collected(Write(pf, i))
<1> DEFINE n  == Len(pf.buf)
           r  == pf.received
           g  == Write(pf, i)
           l  == LastOf(pf.buf)
<1>1. /\ pf.buf \in Seq(Chunk) /\ n \in Nat /\ r \in Nat
      /\ i \in 0 .. Chunks /\ i - 1 \in 0 .. Chunks /\ Chunks \in Nat
  BY Procs DEF Chunk
<1>2. /\ g.buf = Append(pf.buf, i) /\ g.received = r + (Sent[i] - Sent[i - 1])
      /\ Sent[i] \in Nat /\ Sent[i - 1] \in Nat
  BY <1>1, Growing DEF Write, Bytes
<1>3. /\ g.buf # <<>> /\ Len(g.buf) = n + 1 /\ DOMAIN g.buf = 1 .. n + 1 /\ DOMAIN pf.buf = 1 .. n
      /\ \A k \in 1 .. n : g.buf[k] = pf.buf[k]
      /\ g.buf[n + 1] = i
  BY <1>1, <1>2, AppendFacts
<1>4. LastOf(g.buf) = i
  BY <1>3 DEF LastOf
<1> HIDE DEF g
<1>5. CASE (\A k \in DOMAIN pf.buf : pf.buf[k] = k) /\ r = Sent[n]
  <2>1. n \in 0 .. Chunks /\ n < i
    BY <1>1, <1>5, Prefix
  <2>2. CASE i = n + 1
    <3>1. \A k \in DOMAIN g.buf : g.buf[k] = k
      BY <1>1, <1>3, <1>5, <2>2
    <3>2. g.received = Sent[Len(g.buf)]
      <4>1. i - 1 = n
        BY <1>1, <2>2
      <4>2. g.received = r + (Sent[i] - r)
        BY <1>2, <1>5, <4>1
      <4> QED
        BY <1>1, <1>2, <1>3, <2>2, <4>2
    <3> QED
      BY <1>4, <3>1, <3>2 DEF Collected, g
  <2>3. CASE i # n + 1
    <3>1. n <= i - 1 /\ n # i - 1
      BY <1>1, <2>1, <2>3
    <3>2. r < Sent[i - 1]
      BY <1>1, <1>5, <2>1, <3>1, Growing
    <3>3. g.received < Sent[i]
      BY <1>1, <1>2, <3>2
    <3> QED
      BY <1>3, <1>4, <3>3 DEF Collected, g
  <2> QED
    BY <2>2, <2>3
<1>6. CASE pf.buf # <<>> /\ r < Sent[l]
  <2>1. l \in Chunk
    BY <1>1, <1>6 DEF LastOf
  <2>2. l \in 0 .. Chunks /\ l <= i - 1
    BY <1>1, <2>1, Procs DEF Chunk
  <2>3. Sent[l] <= Sent[i - 1] /\ Sent[l] \in Nat
    BY <1>1, <2>2, Growing
  <2>4. g.received < Sent[i]
    BY <1>1, <1>2, <1>6, <2>3
  <2> QED
    BY <1>3, <1>4, <2>4 DEF Collected, g
<1> QED
  BY <1>5, <1>6 DEF Collected

\* Chunks that are in order and have the size of the file are the file.
LEMMA CompleteIsFile ==
  ASSUME NEW pf \in [buf : Seq(Chunk), received : Nat], pf.buf # <<>>,
         Collected(pf), Complete(pf)
  PROVE  pf.buf = File
<1> DEFINE n == Len(pf.buf)
           l == LastOf(pf.buf)
<1>1. /\ pf.buf \in Seq(Chunk) /\ n \in Nat
      /\ DOMAIN pf.buf = 1 .. n /\ pf.received \in Nat /\ Chunks \in Nat
  BY Procs
<1>2. l \in Chunk /\ l \in 0 .. Chunks /\ l <= Chunks /\ Chunks \in 0 .. Chunks
  BY <1>1 DEF LastOf, Chunk
<1>3. Sent[l] \in Nat /\ Sent[l] <= Total /\ Total \in Nat /\ (l # Chunks => Sent[l] < Total)
  BY <1>2, Growing DEF Total
<1>4. pf.received >= Total
  BY DEF Complete
<1>5. (\A k \in DOMAIN pf.buf : pf.buf[k] = k) /\ pf.received = Sent[n]
  BY <1>1, <1>3, <1>4 DEF Collected
<1>6. l = n
  BY <1>1, <1>5, Prefix
<1>7. n = Chunks
  BY <1>1, <1>3, <1>4, <1>5, <1>6
<1> QED
  BY <1>1, <1>5, <1>7 DEF File, Chunk

-----------------------------------------------------------------------------------
(* Chunks arrive in the order in which they were written. *)

FlightInv == ChanInv /\ PendingInv /\ WholeUnlessResent

LEMMA FlightKept ==
  ASSUME FlightInv, UNCHANGED <<written, twice, stored>>,
         chan' = chan \/ chan' = <<>>, pending' = pending \/ pending' = None
  PROVE  FlightInv'
<1>1. ChanInv'
  BY DEF FlightInv, ChanInv
<1>2. PendingInv'
  BY DEF FlightInv, PendingInv, Collected
<1>3. WholeUnlessResent'
  BY DEF FlightInv, WholeUnlessResent
<1> QED
  BY <1>1, <1>2, <1>3 DEF FlightInv

LEMMA SendMetaKeepsFlight ==
  ASSUME TypeOK, SenderInv, FlightInv, SendMeta
  PROVE  FlightInv'
<1>1. chan = <<>> /\ chan' = <<Meta>> /\ UNCHANGED <<written, twice, stored, pending>>
  BY DEF SendMeta, Step, SenderInv, recv
<1>2. \A a \in DOMAIN chan' : a = 1 /\ chan'[a] = Meta
  BY <1>1
<1>3. ChanInv'
  BY <1>2 DEF ChanInv
<1>4. PendingInv'
  BY <1>1, <1>2 DEF FlightInv, PendingInv, Collected
<1>5. WholeUnlessResent'
  BY <1>1 DEF FlightInv, WholeUnlessResent
<1> QED
  BY <1>3, <1>4, <1>5 DEF FlightInv

\* A chunk that was not written before comes after all that were.
LEMMA WriteChunkKeepsFlight ==
  ASSUME TypeOK, WrittenInv, FlightInv,
         NEW i \in Chunk, WriteChunk(i), UNCHANGED recv
  PROVE  FlightInv'
<1>1. /\ chan' = Append(chan, i) /\ chan \in Seq(Chunk \cup {Meta})
      /\ written' = written \cup {i} /\ UNCHANGED <<pending, stored>>
  BY DEF WriteChunk, recv, TypeOK
<1>2. ~twice' => ~twice /\ i \notin written
  BY ZenonT(30) DEF WriteChunk
<1>3. ASSUME i \notin written PROVE \A w \in written \cup {0} : w < i
  <2>1. \A w \in written : w \in Chunk /\ w \in Nat
    BY Procs DEF TypeOK
  <2>2. \A w \in written : ~(i < w)
    BY <1>3 DEF WrittenInv
  <2>3. i \in Nat \ {0}
    BY Procs DEF Chunk
  <2> QED
    BY <1>3, <2>1, <2>2, <2>3
<1>4. /\ DOMAIN chan = 1 .. Len(chan) /\ Len(chan) \in Nat /\ DOMAIN chan' = 1 .. Len(chan) + 1
      /\ \A a \in DOMAIN chan : chan'[a] = chan[a]
      /\ chan'[Len(chan) + 1] = i
  BY <1>1, AppendFacts
<1>5. \A a \in DOMAIN chan : chan[a] \in written \cup {0}
  BY DEF FlightInv, ChanInv, Meta
<1>6. ChanInv'
  <2>1. ASSUME NEW a \in DOMAIN chan', chan'[a] # Meta PROVE chan'[a] \in written'
    <3>1. CASE a = Len(chan) + 1
      BY <1>1, <1>4, <3>1
    <3>2. CASE a \in DOMAIN chan
      BY <1>1, <1>4, <2>1, <3>2 DEF FlightInv, ChanInv
    <3> QED
      BY <1>4, <3>1, <3>2
  <2>2. ASSUME ~twice', NEW a \in DOMAIN chan', NEW b \in DOMAIN chan', a < b
        PROVE  chan'[a] < chan'[b]
    <3>1. a \in DOMAIN chan
      BY <1>4, <2>2
    <3>2. CASE b = Len(chan) + 1
      BY <1>2, <1>3, <1>4, <1>5, <2>2, <3>1, <3>2
    <3>3. CASE b \in DOMAIN chan
      BY <1>2, <1>4, <2>2, <3>1, <3>3 DEF FlightInv, ChanInv
    <3> QED
      BY <1>4, <3>2, <3>3
  <2> QED
    BY <2>1, <2>2 DEF ChanInv
<1>7. PendingInv'
  <2> SUFFICES ASSUME pending # None, ~twice'
               PROVE  /\ Collected(pending)'
                      /\ \A a \in DOMAIN chan' : chan'[a] # Meta => LastOf(pending.buf) < chan'[a]
    BY <1>1 DEF PendingInv, LastOf
  <2>1. ~twice /\ i \notin written /\ Collected(pending)
    BY <1>2 DEF FlightInv, PendingInv
  <2>2. Collected(pending)'
    BY <1>1, <2>1 DEF Collected, LastOf
  <2>3. LastOf(pending.buf) < i
    BY <1>3, <2>1 DEF Collected
  <2>4. ASSUME NEW a \in DOMAIN chan', chan'[a] # Meta PROVE LastOf(pending.buf) < chan'[a]
    <3>1. CASE a = Len(chan) + 1
      BY <1>4, <2>3, <3>1
    <3>2. CASE a \in DOMAIN chan
      BY <1>4, <2>1, <2>4, <3>2 DEF FlightInv, PendingInv
    <3> QED
      BY <1>4, <3>1, <3>2
  <2> QED
    BY <2>2, <2>4
<1>8. WholeUnlessResent'
  BY <1>1, <1>2 DEF FlightInv, WholeUnlessResent
<1> QED
  BY <1>6, <1>7, <1>8 DEF FlightInv

LEMMA TailKeepsChan ==
  ASSUME TypeOK, ChanInv, chan # <<>>, chan' = Tail(chan), UNCHANGED <<written, twice>>
  PROVE  /\ ChanInv' /\ 1 \in DOMAIN chan /\ Head(chan) = chan[1]
         /\ \A a \in DOMAIN chan' : a + 1 \in DOMAIN chan /\ 1 < a + 1 /\ chan'[a] = chan[a + 1]
<1>1. chan \in Seq(Chunk \cup {Meta})
  BY DEF TypeOK
<1>2. /\ DOMAIN chan = 1 .. Len(chan) /\ Len(chan) \in Nat \ {0}
      /\ DOMAIN chan' = 1 .. Len(chan) - 1
      /\ Head(chan) = chan[1] /\ \A a \in DOMAIN chan' : chan'[a] = chan[a + 1]
  BY <1>1, TailFacts
<1>3. \A a \in DOMAIN chan' : a \in Nat /\ a + 1 \in DOMAIN chan /\ 1 < a + 1
  BY <1>2
<1>4. ASSUME NEW a \in DOMAIN chan', NEW b \in DOMAIN chan', a < b PROVE a + 1 < b + 1
  BY <1>3, <1>4
<1>5. ChanInv'
  BY <1>2, <1>3, <1>4 DEF ChanInv
<1> QED
  BY <1>2, <1>3, <1>5

LEMMA ReceiveKeepsFlight ==
  ASSUME TypeOK, FlightInv, Receive \/ RefuseMeta
  PROVE  FlightInv'
<1>1. chan # <<>> /\ chan' = Tail(chan) /\ UNCHANGED <<written, twice>>
  BY DEF Receive, ReceiveMeta, ReceiveChunk, RefuseMeta, send
<1>2. /\ ChanInv' /\ 1 \in DOMAIN chan /\ Head(chan) = chan[1]
      /\ \A a \in DOMAIN chan' : a + 1 \in DOMAIN chan /\ 1 < a + 1 /\ chan'[a] = chan[a + 1]
  BY <1>1, TailKeepsChan DEF FlightInv
<1>3. ASSUME UNCHANGED recv PROVE FlightInv'
  <2>1. PendingInv'
    BY <1>1, <1>2, <1>3 DEF FlightInv, PendingInv, Collected, LastOf, recv
  <2>2. WholeUnlessResent'
    BY <1>1, <1>3 DEF FlightInv, WholeUnlessResent, recv
  <2> QED
    BY <1>2, <2>1, <2>2 DEF FlightInv
<1>4. CASE ReceiveMeta
  <2>1. pending' = [buf |-> <<>>, received |-> 0] /\ stored' = stored
    BY <1>4 DEF ReceiveMeta
  <2>2. LastOf(pending'.buf) = 0 /\ Len(pending'.buf) = 0 /\ DOMAIN pending'.buf = {}
    BY <2>1 DEF LastOf
  <2>3. Sent[0] = 0
    BY TransferAssumption
  <2>4. Collected(pending)'
    BY <2>1, <2>2, <2>3 DEF Collected, LastOf
  <2>5. \A a \in DOMAIN chan' : chan'[a] # Meta => 0 < chan'[a]
    <3>1. \A a \in DOMAIN chan : chan[a] # Meta => chan[a] \in Chunk
      BY DEF FlightInv, ChanInv, TypeOK
    <3>2. \A i \in Chunk : 0 < i
      BY Procs DEF Chunk
    <3> QED
      BY <1>2, <3>1, <3>2
  <2>6. PendingInv'
    BY <2>2, <2>4, <2>5 DEF PendingInv, LastOf
  <2>7. WholeUnlessResent'
    BY <1>1, <2>1 DEF FlightInv, WholeUnlessResent
  <2> QED
    BY <1>2, <2>6, <2>7 DEF FlightInv
<1>5. CASE ReceiveChunk /\ pending # None
  <2> DEFINE i  == Head(chan)
             pf == Write(pending, i)
  <2>1. i \in Chunk /\ i # Meta /\ i \in written
    BY <1>2, <1>5, Procs DEF ReceiveChunk, FlightInv, ChanInv
  <2>2. \/ Complete(pf) /\ stored' = pf.buf /\ pending' = None
        \/ ~Complete(pf) /\ pending' = pf /\ stored' = stored
    BY <1>5 DEF ReceiveChunk, Finalize
  <2>3. /\ pending \in [buf : Seq(Chunk), received : Nat] /\ pf.buf # <<>>
        /\ pf \in [buf : Seq(Chunk), received : Nat] /\ LastOf(pf.buf) = i
    <3>1. pending \in [buf : Seq(Chunk), received : Nat]
      BY <1>5 DEF TypeOK
    <3>2. i \in 0 .. Chunks /\ i - 1 \in 0 .. Chunks /\ i - 1 <= i
      BY <2>1, Procs DEF Chunk
    <3>3. Bytes(i) \in Nat
      BY <3>2, Growing DEF Bytes
    <3>4. pf.buf = Append(pending.buf, i) /\ pf.received = pending.received + Bytes(i)
      BY DEF Write
    <3>5. pf.buf # <<>> /\ pf.buf \in Seq(Chunk) /\ LastOf(pf.buf) = i
      <4>1. pending.buf \in Seq(Chunk)
        BY <3>1
      <4> HIDE DEF pf
      <4>2. pf.buf # <<>> /\ pf.buf \in Seq(Chunk) /\ pf.buf[Len(pf.buf)] = i
        BY <2>1, <3>4, <4>1, AppendFacts
      <4> QED
        BY <4>2 DEF LastOf
    <3>6. pf \in [buf : Seq(Chunk), received : Nat]
      BY <3>1, <3>3, <3>4, <3>5 DEF Write
    <3> QED
      BY <3>1, <3>5, <3>6
  <2>4. ~twice => Collected(pf)
    <3> SUFFICES ASSUME ~twice PROVE Collected(pf)
      OBVIOUS
    <3>1. Collected(pending) /\ LastOf(pending.buf) < i
      BY <1>2, <1>5, <2>1 DEF FlightInv, PendingInv
    <3> QED
      BY <2>1, <2>3, <3>1, Collects
  <2> HIDE DEF pf
  <2>5. ASSUME ~twice, NEW a \in DOMAIN chan' PROVE i < chan'[a]
    BY <1>2, <2>5 DEF FlightInv, ChanInv
  <2>6. PendingInv'
    <3> SUFFICES ASSUME pending' # None, ~twice'
                 PROVE  /\ Collected(pending)'
                        /\ \A a \in DOMAIN chan' : LastOf(pending'.buf) < chan'[a]
      BY DEF PendingInv, LastOf
    <3>1. pending' = pf /\ ~twice
      BY <1>1, <2>2
    <3>2. Collected(pending)'
      BY <1>1, <2>4, <3>1 DEF Collected, LastOf
    <3> QED
      BY <2>3, <2>5, <3>1, <3>2
  <2>7. WholeUnlessResent'
    <3>1. CASE Complete(pf) /\ stored' = pf.buf
      BY <1>1, <2>3, <2>4, <3>1, CompleteIsFile DEF WholeUnlessResent, File, Chunk
    <3>2. CASE stored' = stored
      BY <1>1, <3>2 DEF FlightInv, WholeUnlessResent, File, Chunk
    <3> QED
      BY <2>2, <3>1, <3>2
  <2> QED
    BY <1>2, <2>6, <2>7 DEF FlightInv
<1> QED
  BY <1>3, <1>4, <1>5 DEF Receive, RefuseMeta, ReceiveChunk

LEMMA NextFlightInv ==
  ASSUME TypeOK, SenderInv, OrderInv, FlightInv, [Next]_vars
  PROVE  FlightInv'
<1>1. CASE SendFile
  <2>1. CASE LoadSession \/ SkipFiles \/ MetaFails \/ QueueChunk \/ EndOfFile
    <3>1. UNCHANGED <<written, twice, stored, chan, pending>>
      BY <2>1 DEF LoadSession, SkipFiles, MetaFails, QueueChunk, EndOfFile, link, recv
    <3> QED
      BY <3>1, FlightKept
  <2>2. CASE SendChunk
    <3>1. next \in Chunk /\ WriteChunk(next) /\ UNCHANGED recv
      BY <2>2 DEF SendChunk
    <3> QED
      BY <3>1, WriteChunkKeepsFlight DEF OrderInv
  <2> QED
    BY <1>1, <2>1, <2>2, SendMetaKeepsFlight DEF SendFile
<1>2. ASSUME NEW p \in Proc, NEW from, FlushOutbox(p, from) PROVE FlightInv'
  <2>1. CASE ReadOutbox(p, from) \/ FlushLoad(p) \/ FlushFails(p) \/ FlushEnds(p) \/ DeleteEntry(p)
    <3>1. UNCHANGED <<written, twice, stored, chan, pending>>
      BY <2>1 DEF ReadOutbox, FlushLoad, FlushFails, FlushEnds, DeleteEntry, link, recv
    <3> QED
      BY <3>1, FlightKept
  <2>2. CASE FlushSend(p)
    <3>1. batch[p] # <<>> /\ WriteChunk(Head(batch[p])) /\ UNCHANGED recv
      BY <2>2 DEF FlushSend
    <3>2. Head(batch[p]) \in Chunk
      BY <3>1, BatchHead DEF OrderInv
    <3> QED
      BY <3>1, <3>2, WriteChunkKeepsFlight DEF OrderInv
  <2> QED
    BY <1>2, <2>1, <2>2 DEF FlushOutbox
<1>3. CASE \/ Connect \/ Drop \/ Unregister \/ SenderRestarts \/ ReceiverRestarts
           \/ UNCHANGED vars \/ \E n \in Start : Serves(n)
  <2>1. /\ UNCHANGED <<written, twice, stored>>
        /\ chan' = chan \/ chan' = <<>>
        /\ pending' = pending \/ pending' = None
    BY <1>3 DEF Connect, Drop, Unregister, SenderRestarts, ReceiverRestarts, Serves,
       vars, link, send, recv
  <2> QED
    BY <2>1, FlightKept
<1> QED
  BY <1>1, <1>2, <1>3, ReceiveKeepsFlight, Procs DEF Next, StartSession

-----------------------------------------------------------------------------------
(* All together. *)

IInv == TypeOK /\ SenderInv /\ OrderInv /\ FlightInv

LEMMA InitIInv == ASSUME Init PROVE IInv
<1>1. TypeOK
  BY InitTypeOK
<1>2. /\ outbox = <<>> /\ chan = <<>> /\ next = 1 /\ written = {} /\ pending = None /\ stored = None
      /\ \A p \in Proc : pc[p] = "idle" /\ sess[p] = 0 /\ batch[p] = <<>>
      /\ count = 0
  BY DEF Init
<1>3. SenderInv
  BY <1>2, Procs DEF SenderInv
<1>4. Len(outbox) = 0 /\ Unsent = 1 /\ DOMAIN outbox = {} /\ DOMAIN chan = {}
      /\ \A p \in Proc : DOMAIN batch[p] = {}
  BY <1>2 DEF Unsent
<1>5. OrderInv
  BY <1>2, <1>4 DEF OrderInv, QueueInv, WrittenInv, BatchInv
<1>6. FlightInv
  BY <1>2, <1>4 DEF FlightInv, ChanInv, PendingInv, WholeUnlessResent
<1> QED
  BY <1>1, <1>3, <1>5, <1>6 DEF IInv

LEMMA NextIInv == ASSUME IInv, [Next]_vars PROVE IInv'
<1> USE DEF IInv
<1>1. TypeOK' /\ SenderInv'
  <2>1. CASE SendFile
    BY <2>1, SendFileTypeOK, SenderKeepsSenderInv DEF OrderInv
  <2>2. ASSUME NEW p \in Flushes \cup Start, NEW from, FlushOutbox(p, from)
        PROVE TypeOK' /\ SenderInv'
    BY <2>2, Procs, FlushTypeOK, FlushKeepsSenderInv DEF OrderInv
  <2>3. CASE \/ Connect \/ Drop \/ Unregister \/ SenderRestarts \/ ReceiverRestarts \/ RefuseMeta
             \/ \E n \in Start : Serves(n)
    BY <2>3, SessionTypeOK, SessionKeepsSenderInv
  <2>4. CASE Receive
    BY <2>4, ReceiveTypeOK, SessionKeepsSenderInv
  <2>5. CASE UNCHANGED vars
    BY <2>5 DEF vars, link, send, recv, TypeOK, SenderInv, CanWrite
  <2> QED
    BY <2>1, <2>2, <2>3, <2>4, <2>5 DEF Next, StartSession
<1> QED
  BY <1>1, NextOrderInv, NextFlightInv

LEMMA InvCorrect == Spec => []IInv
<1>1. Init => IInv
  BY InitIInv
<1>2. IInv /\ [Next]_vars => IInv'
  BY NextIInv
<1> QED
  BY <1>1, <1>2, PTL DEF Spec

\* Every value that the transfer of a file reaches is one the code has a case for, and a
\* transfer that the receiver goes on collecting is short of the file's size
\* (handleFileChunk).
THEOREM TransferKeepsTypes == Spec => []TypeOK
<1>1. IInv => TypeOK
  BY DEF IInv
<1> QED
  BY <1>1, InvCorrect, PTL

\* For files of any length, however they are cut, and any number of sessions, flushes
\* and restarts: a file that is stored is the file that was sent, chunk for chunk and in
\* order, unless some chunk was written twice (sendFile, flushOutbox, handleFileChunk,
\* finalizeFile).
THEOREM StoredFilesAreWhole == Spec => []WholeUnlessResent
<1>1. IInv => WholeUnlessResent
  BY DEF IInv, FlightInv
<1> QED
  BY <1>1, InvCorrect, PTL

\* A chunk is written only when all that come before it in the file have been, by sendFile
\* or by some flush, whatever sessions end in between and although several flushes read
\* the outbox at once (sendFile, queueSignal, flushOutbox).
THEOREM ChunksLeaveInOrder ==
  Spec => [](\A i \in written : \A j \in Chunk : j < i => j \in written)
<1>1. IInv => \A i \in written : \A j \in Chunk : j < i => j \in written
  BY DEF IInv, OrderInv, WrittenInv
<1> QED
  BY <1>1, InvCorrect, PTL

===================================================================================
