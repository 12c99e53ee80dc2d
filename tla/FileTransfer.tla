------------------------------ MODULE FileTransfer -------------------------------
(* One attachment on its way to an accepted peer: sendFile writes its metadata and its *)
(* chunks to the session it was given; a chunk that cannot be written goes to the      *)
(* outbox, and the flush at the start of a later session, or one an admin asks for,     *)
(* sends it again.  The receiver collects chunks under the file's id, in memory, over   *)
(* as many sessions as it takes, and stores the file once it has enough bytes.          *)
(*                                                                                     *)
(* A session is an ordered channel that loses what is in flight when it ends (see       *)
(* SecureChannel).  The outbox is ordered by a time in seconds; that entries of the same *)
(* second come in the order in which they were put is assumed here, SQL leaves it open. *)
EXTENDS Integers, Sequences

CONSTANTS Chunks,       \* number of reads that sendFile makes of the file
          Sent,         \* Sent[i]: bytes that it has read after i of them
          Flushes,      \* POST /admin/outbox/flush requests
          MaxSessions,  \* bound: connections that are made
          None

Chunk == 1 .. Chunks
File  == [i \in Chunk |-> i]        \* the contents, chunk by chunk
Bytes(i) == Sent[i] - Sent[i - 1]   \* length of a chunk
Total == Sent[Chunks]               \* meta.Size
Meta  == 0                          \* the frame with the metadata

Start == 1 .. MaxSessions           \* the goroutines that start the sessions, by number
Sender == 0                         \* the goroutine that runs sendFile
Proc  == {Sender} \cup Flushes \cup Start

ASSUME TransferAssumption ==
  /\ Chunks \in Nat
  /\ Sent \in [0 .. Chunks -> Nat] /\ Sent[0] = 0
  /\ \A i, j \in 0 .. Chunks : i < j => Sent[i] < Sent[j]
  /\ MaxSessions \in Nat
  /\ Flushes \cap ({Sender} \cup Start) = {}

VARIABLES
  count,    \* number of the current session
  up,       \* its connection is up
  reg,      \* it is in the sender's sessions map
  chan,     \* in flight: the metadata and chunks
  outbox,   \* chunks that wait in the outbox, in order
  next,     \* the chunk that sendFile reads next
  pc, sess, \* pc[p]; sess[p]: number of the session that p has loaded
  batch,    \* batch[p]: entries that flush p has read and not yet deleted, in order
  pending,  \* pendingFile at the receiver (its buf and received), or None
  stored,   \* the file in the receiver's store, or None
  written,  \* history: chunks written to some connection,
  twice     \*   and whether one of them was written more than once

link == <<count, up, reg, chan>>
send == <<outbox, next, pc, sess, batch, written, twice>>
recv == <<pending, stored>>
vars == <<link, send, recv>>

Init ==
  /\ count = 0 /\ up = FALSE /\ reg = FALSE /\ chan = <<>>
  /\ outbox = <<>>
  /\ next = 1
  /\ pc = [p \in Proc |-> "idle"]
  /\ sess = [p \in Proc |-> 0]
  /\ batch = [p \in Proc |-> <<>>]
  /\ pending = None /\ stored = None
  /\ written = {} /\ twice = FALSE

Goto(p, to) == pc' = [pc EXCEPT ![p] = to]
Step(p, from, to) == pc[p] = from /\ Goto(p, to)

\* Session.send on the session that p has loaded.
CanWrite(p) == up /\ sess[p] = count

WriteChunk(i) ==
  /\ chan' = Append(chan, i)
  /\ written' = written \cup {i}
  /\ twice' = (twice \/ i \in written)

----------------------------------------------------------------------------------
(* sendAttachments and sendFile. *)

LoadSession ==
  /\ Step(Sender, "idle", "meta")
  /\ reg
  /\ sess' = [sess EXCEPT ![Sender] = count]
  /\ UNCHANGED <<link, outbox, next, batch, written, twice, recv>>

\* Without a session the attachments of a message are not sent, nor queued with it.
SkipFiles ==
  /\ Step(Sender, "idle", "skipped")
  /\ ~reg
  /\ UNCHANGED <<link, outbox, next, sess, batch, written, twice, recv>>

SendMeta ==
  /\ Step(Sender, "meta", "chunk")
  /\ CanWrite(Sender)
  /\ chan' = Append(chan, Meta)
  /\ UNCHANGED <<count, up, reg, outbox, next, sess, batch, written, twice, recv>>

MetaFails ==
  /\ Step(Sender, "meta", "failed")
  /\ ~CanWrite(Sender)
  /\ UNCHANGED <<link, outbox, next, sess, batch, written, twice, recv>>

\* The next chunk is read, and written ...
SendChunk ==
  /\ pc[Sender] = "chunk" /\ next \in Chunk
  /\ CanWrite(Sender)
  /\ WriteChunk(next)
  /\ next' = next + 1
  /\ UNCHANGED <<count, up, reg, outbox, pc, sess, batch, recv>>

\* ... or, the write having failed, queued.
QueueChunk ==
  /\ pc[Sender] = "chunk" /\ next \in Chunk
  /\ ~CanWrite(Sender)
  /\ outbox' = Append(outbox, next)
  /\ next' = next + 1
  /\ UNCHANGED <<link, pc, sess, batch, written, twice, recv>>

EndOfFile ==
  /\ Step(Sender, "chunk", "done")
  /\ next \notin Chunk
  /\ UNCHANGED <<link, outbox, next, sess, batch, written, twice, recv>>

SendFile ==
  \/ LoadSession \/ SkipFiles \/ SendMeta \/ MetaFails
  \/ SendChunk \/ QueueChunk \/ EndOfFile

----------------------------------------------------------------------------------
(* flushOutbox, run by the goroutine p from label "from". *)

\* Mutant: ORDER BY created_at DESC.
Pending_Reversed == [k \in DOMAIN outbox |-> outbox[Len(outbox) + 1 - k]]

Pending == outbox

ReadOutbox(p, from) ==
  /\ pc[p] = from
  /\ Goto(p, IF outbox = <<>> THEN "flushed" ELSE "load")
  /\ batch' = [batch EXCEPT ![p] = Pending]
  /\ UNCHANGED <<link, outbox, next, sess, written, twice, recv>>

FlushLoad(p) ==
  /\ pc[p] = "load"
  /\ Goto(p, IF reg THEN "flush" ELSE "flushed")
  /\ sess' = [sess EXCEPT ![p] = count]
  /\ batch' = IF reg THEN batch ELSE [batch EXCEPT ![p] = <<>>]
  /\ UNCHANGED <<link, outbox, next, written, twice, recv>>

FlushSend(p) ==
  /\ Step(p, "flush", "delete")
  /\ batch[p] # <<>> /\ CanWrite(p)
  /\ WriteChunk(Head(batch[p]))
  /\ UNCHANGED <<count, up, reg, outbox, next, sess, batch, recv>>

FlushFails(p) ==
  /\ Step(p, "flush", "flushed")
  /\ batch[p] # <<>> /\ ~CanWrite(p)
  /\ batch' = [batch EXCEPT ![p] = <<>>]
  /\ UNCHANGED <<link, outbox, next, sess, written, twice, recv>>

FlushEnds(p) ==
  /\ Step(p, "flush", "flushed")
  /\ batch[p] = <<>>
  /\ UNCHANGED <<link, outbox, next, sess, batch, written, twice, recv>>

WithoutRow(rows, k) == SubSeq(rows, 1, k - 1) \o SubSeq(rows, k + 1, Len(rows))

\* The row of the chunk i is deleted, if it is still there.
DeleteRow(i) ==
  IF \E k \in DOMAIN outbox : outbox[k] = i
    THEN WithoutRow(outbox, CHOOSE k \in DOMAIN outbox : outbox[k] = i)
    ELSE outbox

DeleteEntry(p) ==
  /\ Step(p, "delete", "flush")
  /\ outbox' = DeleteRow(Head(batch[p]))
  /\ batch' = [batch EXCEPT ![p] = Tail(@)]
  /\ UNCHANGED <<link, next, sess, written, twice, recv>>

FlushOutbox(p, from) ==
  \/ ReadOutbox(p, from) \/ FlushLoad(p) \/ FlushSend(p) \/ FlushFails(p)
  \/ FlushEnds(p) \/ DeleteEntry(p)

----------------------------------------------------------------------------------
(* Sessions, and the ends of connections and of programs. *)

Connect ==
  /\ ~up /\ ~reg
  /\ count < MaxSessions
  /\ count' = count + 1
  /\ up' = TRUE /\ reg' = TRUE
  /\ Step(count + 1, "idle", "start")
  /\ UNCHANGED <<chan, outbox, next, sess, batch, written, twice, recv>>

\* The flush done, the read loop is started.
Serves(n) ==
  /\ Step(n, "flushed", "serving")
  /\ UNCHANGED <<link, outbox, next, sess, batch, written, twice, recv>>

StartSession(n) == FlushOutbox(n, "start") \/ Serves(n)

\* The connection ends; what is in flight is lost.
Drop ==
  /\ up
  /\ up' = FALSE /\ chan' = <<>>
  /\ UNCHANGED <<count, reg, send, recv>>

\* The deferred Delete of the sender's read loop, which starts after the flush.
Unregister ==
  /\ ~up /\ reg
  /\ pc[count] = "serving"
  /\ reg' = FALSE
  /\ UNCHANGED <<count, up, chan, send, recv>>

\* The sender stops and starts again: of what is modelled here, the outbox stays.
SenderRestarts ==
  /\ up' = FALSE /\ reg' = FALSE /\ chan' = <<>>
  /\ pc' = [p \in Proc |-> IF pc[p] = "idle" THEN "idle" ELSE "gone"]
  /\ batch' = [p \in Proc |-> <<>>]
  /\ UNCHANGED <<count, outbox, next, sess, written, twice, recv>>

\* The receiver stops and starts again: the transfers it was collecting are forgotten.
ReceiverRestarts ==
  /\ up' = FALSE /\ chan' = <<>>
  /\ pending' = None
  /\ UNCHANGED <<count, reg, send, stored>>

----------------------------------------------------------------------------------
(* The receiver's read loop: handleDecrypted, handleSignal, handleFileChunk. *)

ReceiveMeta ==
  /\ chan # <<>> /\ Head(chan) = Meta
  /\ chan' = Tail(chan)
  /\ pending' = [buf |-> <<>>, received |-> 0]
  /\ UNCHANGED <<count, up, reg, send, stored>>

\* msgLimiter does not let the metadata through.
RefuseMeta ==
  /\ chan # <<>> /\ Head(chan) = Meta
  /\ chan' = Tail(chan)
  /\ UNCHANGED <<count, up, reg, send, recv>>

\* Mutant: one byte more than the file has is waited for.
Complete_Strict(pf) == pf.received > Total

Complete(pf) == pf.received >= Total

\* Mutant: the finished transfer stays in pendingFiles.
Finalize_Kept(pf) == stored' = pf.buf /\ pending' = pf

\* finalizeFile: the file is stored and the transfer forgotten.
Finalize(pf) == stored' = pf.buf /\ pending' = None

Write(pf, i) == [buf |-> Append(pf.buf, i), received |-> pf.received + Bytes(i)]

ReceiveChunk ==
  /\ chan # <<>> /\ Head(chan) \in Chunk
  /\ chan' = Tail(chan)
  /\ \/ pending = None /\ UNCHANGED recv       \* "file chunk for unknown transfer"
     \/ /\ pending # None
        /\ LET pf == Write(pending, Head(chan))
           IN IF Complete(pf) THEN Finalize(pf) ELSE pending' = pf /\ UNCHANGED stored
  /\ UNCHANGED <<count, up, reg, send>>

Receive == ReceiveMeta \/ ReceiveChunk

Next ==
  \/ SendFile
  \/ \E f \in Flushes : FlushOutbox(f, "idle")
  \/ Connect \/ Drop \/ Unregister \/ SenderRestarts \/ ReceiverRestarts
  \/ \E n \in Start : StartSession(n)
  \/ Receive \/ RefuseMeta

Spec == Init /\ [][Next]_vars

(* sendFile runs on, its writes having a deadline, and the receiver reads what is in   *)
(* flight while the connection is up.                                                 *)
FairSpec == Spec /\ WF_vars(SendFile) /\ WF_vars(Receive)

----------------------------------------------------------------------------------
(* Properties *)

\* The values of the state; what the receiver still collects is short of the file's size.
TypeOK ==
  /\ count \in 0 .. MaxSessions
  /\ up \in BOOLEAN /\ reg \in BOOLEAN /\ twice \in BOOLEAN
  /\ chan \in Seq(Chunk \cup {Meta})
  /\ outbox \in Seq(Chunk)
  /\ next \in 1 .. Chunks + 1
  /\ pc \in [Proc -> {"idle", "meta", "chunk", "skipped", "failed", "done", "start", "load",
                      "flush", "delete", "flushed", "serving", "gone"}]
  /\ sess \in [Proc -> 0 .. MaxSessions]
  /\ batch \in [Proc -> Seq(Chunk)]
  /\ written \subseteq Chunk
  /\ pending # None => /\ pending \in [buf : Seq(Chunk), received : Nat]
                       /\ pending.buf # <<>> => pending.received < Total
  /\ stored # None => stored \in Seq(Chunk)

\* A file that is stored is the file that was sent, chunk for chunk and in order, over
\* any number of sessions and restarts of either side and although some chunks go
\* through the outbox, as long as no chunk is written twice (sendFile, flushOutbox,
\* handleFileChunk).
WholeUnlessResent == stored # None /\ ~twice => stored = File

\* Once the receiver has the metadata, and while the session stays up, the whole file
\* follows and is stored (sendFile, handleFileChunk).
TransferCompletes ==
  (pending # None /\ pc[Sender] = "chunk" /\ CanWrite(Sender))
    ~> (stored # None \/ ~CanWrite(Sender))

\* README: GET /api/files/{id} downloads the raw bytes of the attachment; the log of
\* sendFile says that a failed chunk is queued for retry.  A file that is stored is the
\* file that was sent.
StoredIsWhole == stored # None => stored = File
==================================================================================
