-------------------------------- MODULE Delivery ---------------------------------
(* How a message gets from one client (the sender) to one peer: sent on the session  *)
(* when the peer is online and accepted, kept in the outbox otherwise, and flushed   *)
(* from there when a session starts or an admin asks for it.  Later edits and the     *)
(* deletion of a message are broadcast once to the sessions there are, and never      *)
(* queued.  Each request and each flush is a goroutine of its own; the outbox and the *)
(* messages are tables of the database and survive restarts.                         *)
(*                                                                                  *)
(* The session itself is what SecureChannel shows it to be with one writer at a time: *)
(* an ordered channel that loses what is in flight when the connection ends.  The     *)
(* order of a flush (ORDER BY created_at, in seconds) is left open, and so are names, *)
(* attachments and the rate limiter.                                                 *)
EXTENDS Naturals, Sequences

CONSTANTS Msg,          \* the messages, one send request each
          Edits,        \* PUT and DELETE requests for a message; a request that is
          Deletes,      \*   in several of these sets is any one of them
          Typed,        \* the messages that may be typed at the console instead
          Flushes,      \* POST /admin/outbox/flush requests
          Dialer,       \* which side opens the connections
          MaxSessions,  \* bound: connections that are made
          None

Side  == {"sender", "peer"}
Other(x) == IF x = "sender" THEN "peer" ELSE "sender"
Start == 1 .. MaxSessions     \* the goroutines that start the sessions, by number
Change == Edits \cup Deletes
Proc  == Msg \cup Change \cup Flushes \cup Start

\* What a message says: its first text, the text of an edit, or nothing any more.
Text == {None, "original", "deleted"} \cup Edits

\* A signal: its type, and the message or the change that it carries.
Sig(type, x) == [type |-> type, id |-> x]
Notice == Sig("peer_accepted", None)
Signal == [type : {"message"}, id : Msg] \cup [type : {"update"}, id : Edits]
            \cup [type : {"delete"}, id : Deletes] \cup {Notice}

ASSUME DeliveryAssumption ==
  /\ Dialer \in Side
  /\ MaxSessions \in Nat
  /\ Typed \subseteq Msg
  /\ (Msg \cup Change \cup Flushes) \cap Start = {}
  /\ None \notin Msg \cup Change \cup {"pending", "accepted", "original", "deleted"}
  /\ {"original", "deleted"} \cap Edits = {}

VARIABLES
  row,        \* row[x]: status of the other client in x's known_peers, or None
  stat,       \* stat[x]: status of x's current session
  admin,      \* admin[x]: where a request that accepts the other client is, on side x
  count,      \* number of the current session
  up,         \* its connection is up
  reg,        \* it is in the sender's sessions map
  chan,       \* signals in flight to the peer
  back,       \* an acceptance notice is in flight to the sender
  outbox,     \* messages with an entry in the sender's outbox
  pc, sess,   \* pc[p]; sess[p]: number of the session that p uses, or 0
  batch,      \* batch[p]: entries that flush p has read and not yet sent
  entry,      \* entry[p]: the entry that flush p has sent and not yet deleted
  mine,       \* mine[m]: the message in the sender's store
  theirs,     \* theirs[m]: the message in the peer's store
  about,      \* about[c]: the message that the change c is about
  refused,    \* history: messages the peer dropped for the status of its session,
  written,    \*   the sender has written to some connection,
  again,      \*   has written to a connection a second time,
  removed,    \*   an admin has taken out of the outbox,
  missed      \*   or with a change that the peer did not get, or not in order

link    == <<count, up, reg, chan, back>>
local   == <<pc, sess, batch, entry>>
texts   == <<mine, theirs, about, missed>>
history == <<refused, written, again, removed>>
vars    == <<row, stat, admin, link, outbox, local, texts, history>>

Init ==
  /\ row = [x \in Side |-> None]
  /\ stat = [x \in Side |-> None] /\ admin = [x \in Side |-> "idle"]
  /\ count = 0 /\ up = FALSE /\ reg = FALSE /\ chan = <<>> /\ back = FALSE
  /\ outbox = {}
  /\ pc = [p \in Proc |-> "idle"]
  /\ sess = [p \in Proc |-> 0]
  /\ batch = [p \in Proc |-> {}]
  /\ entry = [p \in Proc |-> None]
  /\ mine = [m \in Msg |-> None] /\ theirs = [m \in Msg |-> None]
  /\ about = [c \in Change |-> None]
  /\ refused = {} /\ written = {} /\ again = {} /\ removed = {} /\ missed = {}

Goto(p, to) == pc' = [pc EXCEPT ![p] = to]
Step(p, from, to) == pc[p] = from /\ Goto(p, to)

Return(p) == sess' = [sess EXCEPT ![p] = 0]

Online == reg /\ stat["sender"] = "accepted"

\* Session.send on the session that p has loaded.
CanWrite(p) == up /\ sess[p] = count
Write(m) ==
  /\ chan' = Append(chan, Sig("message", m))
  /\ written' = written \cup {m}
  /\ again' = IF m \in written THEN again \cup {m} ELSE again

----------------------------------------------------------------------------------
(* apiSendMessage and sendMessageToPeer: the message is stored first. *)

StoreOwn(m) ==
  /\ mine' = [mine EXCEPT ![m] = "original"]
  /\ UNCHANGED <<theirs, about, missed>>

\* The peer is online and accepted: the session is loaded.
LoadSession(m) ==
  /\ Step(m, "idle", "send")
  /\ row["sender"] # None
  /\ Online
  /\ sess' = [sess EXCEPT ![m] = count]
  /\ StoreOwn(m)
  /\ UNCHANGED <<row, stat, admin, link, outbox, batch, entry, history>>

LoadNone(m) ==
  /\ Step(m, "idle", "queue")
  /\ row["sender"] # None
  /\ ~Online
  /\ StoreOwn(m)
  /\ UNCHANGED <<row, stat, admin, link, outbox, sess, batch, entry, history>>

QueueSignal(m) ==
  /\ Step(m, "queue", "ok")
  /\ outbox' = outbox \cup {m}
  /\ UNCHANGED <<row, stat, admin, link, sess, batch, entry, texts, history>>

SendNow(m) ==
  /\ Step(m, "send", "ok")
  /\ CanWrite(m)
  /\ Write(m)
  /\ Return(m)
  /\ UNCHANGED <<row, stat, admin, count, up, reg, back, outbox, batch, entry>>
  /\ UNCHANGED <<texts, refused, removed>>

\* Mutant: a failed send is answered like a good one.
SendFails_Answered(m) ==
  /\ Step(m, "send", "ok")
  /\ ~CanWrite(m)
  /\ UNCHANGED <<row, stat, admin, link, outbox, sess, batch, entry, texts, history>>

\* A failed send is answered with 500; the message is not queued.
SendFails(m) ==
  /\ Step(m, "send", "failed")
  /\ ~CanWrite(m)
  /\ Return(m)
  /\ UNCHANGED <<row, stat, admin, link, outbox, batch, entry, texts, history>>

SendMessage(m) ==
  LoadSession(m) \/ LoadNone(m) \/ QueueSignal(m) \/ SendNow(m) \/ SendFails(m)

(* sendMessage, for a line that is typed (peerWriteLoop, sendToAll): the status of the *)
(* session is not asked for, and a failed send is only logged.                        *)

LoadTyped(m) ==
  /\ Step(m, "idle", "typed")
  /\ reg
  /\ sess' = [sess EXCEPT ![m] = count]
  /\ StoreOwn(m)
  /\ UNCHANGED <<row, stat, admin, link, outbox, batch, entry, history>>

SendTyped(m) ==
  /\ Step(m, "typed", "done")
  /\ IF CanWrite(m) THEN Write(m) ELSE UNCHANGED <<chan, written, again>>
  /\ Return(m)
  /\ UNCHANGED <<row, stat, admin, count, up, reg, back, outbox, batch, entry>>
  /\ UNCHANGED <<texts, refused, removed>>

SendLine(m) == LoadTyped(m) \/ SendTyped(m)

----------------------------------------------------------------------------------
(* apiUpdateMessage and apiDeleteMessage, run by the goroutine c. *)

Present(text) == text \notin {None, "deleted"}

\* The message is there: getOwnedMessage finds it and, for an edit, ChatStore.Update
\* does after it.
FindOwn(c, to) ==
  /\ Step(c, "idle", to)
  /\ \E m \in Msg : Present(mine[m]) /\ about' = [about EXCEPT ![c] = m]
  /\ UNCHANGED <<row, stat, admin, link, outbox, sess, batch, entry, mine, theirs, missed, history>>

\* The row is replaced, or inserted again when it has gone since.
StoreEdit(c) ==
  /\ Step(c, "edit", "update")
  /\ mine' = [mine EXCEPT ![about[c]] = c]
  /\ UNCHANGED <<row, stat, admin, link, outbox, sess, batch, entry, theirs, about, missed, history>>

\* Mutant: the deletion is not broadcast.
DeleteOwn_Quiet(c) ==
  /\ Step(c, "erase", "done")
  /\ mine' = [mine EXCEPT ![about[c]] = "deleted"]
  /\ UNCHANGED <<row, stat, admin, link, outbox, sess, batch, entry, theirs, about, missed, history>>

DeleteOwn(c) ==
  /\ Step(c, "erase", "revoke")
  /\ mine' = [mine EXCEPT ![about[c]] = "deleted"]
  /\ UNCHANGED <<row, stat, admin, link, outbox, sess, batch, entry, theirs, about, missed, history>>

\* broadcastUpdate and broadcastDelete: whatever the status of the session, and a
\* failed send is only logged.
Broadcast(c, from, type, text) ==
  /\ Step(c, from, "done")
  /\ chan' = IF reg /\ up THEN Append(chan, Sig(type, c)) ELSE chan
  /\ missed' = IF reg /\ up /\ mine[about[c]] = text THEN missed ELSE missed \cup {about[c]}
  /\ UNCHANGED <<row, stat, admin, count, up, reg, back, outbox, sess, batch, entry>>
  /\ UNCHANGED <<mine, theirs, about, history>>

BroadcastUpdate(c) == Broadcast(c, "update", "update", c)
BroadcastDelete(c) == Broadcast(c, "revoke", "delete", "deleted")

UpdateMessage(c) == FindOwn(c, "edit") \/ StoreEdit(c) \/ BroadcastUpdate(c)
DeleteMessage(c) == FindOwn(c, "erase") \/ DeleteOwn(c) \/ BroadcastDelete(c)

----------------------------------------------------------------------------------
(* flushOutbox, run by the goroutine p from label "from". *)

\* Mutant: the session starts without a flush.
ReadOutbox_Skipped(p, from) ==
  /\ Step(p, from, "flushed")
  /\ UNCHANGED <<row, stat, admin, link, outbox, sess, batch, entry, texts, history>>

ReadOutbox(p, from) ==
  /\ pc[p] = from
  /\ Goto(p, IF outbox = {} THEN "flushed" ELSE "load")
  /\ batch' = [batch EXCEPT ![p] = outbox]
  /\ UNCHANGED <<row, stat, admin, link, outbox, sess, entry, texts, history>>

FlushLoad(p) ==
  /\ pc[p] = "load"
  /\ Goto(p, IF Online THEN "flush" ELSE "flushed")
  /\ sess' = [sess EXCEPT ![p] = IF Online THEN count ELSE 0]
  /\ batch' = IF Online THEN batch ELSE [batch EXCEPT ![p] = {}]
  /\ UNCHANGED <<row, stat, admin, link, outbox, entry, texts, history>>

FlushSend(p) ==
  /\ Step(p, "flush", "delete")
  /\ CanWrite(p)
  /\ \E m \in batch[p] :
       /\ Write(m)
       /\ entry' = [entry EXCEPT ![p] = m]
       /\ batch' = [batch EXCEPT ![p] = @ \ {m}]
  /\ UNCHANGED <<row, stat, admin, count, up, reg, back, outbox, sess>>
  /\ UNCHANGED <<texts, refused, removed>>

\* Mutant: the entry is taken for delivered whether or not it was sent.
FlushFails_Deletes(p) ==
  /\ Step(p, "flush", "flushed")
  /\ batch[p] # {} /\ ~CanWrite(p)
  /\ \E m \in batch[p] : outbox' = outbox \ {m}
  /\ batch' = [batch EXCEPT ![p] = {}]
  /\ UNCHANGED <<row, stat, admin, link, sess, entry, texts, history>>

\* A failed send ends the flush; its entry stays, with a higher retry_count.
FlushFails(p) ==
  /\ Step(p, "flush", "flushed")
  /\ batch[p] # {} /\ ~CanWrite(p)
  /\ batch' = [batch EXCEPT ![p] = {}]
  /\ Return(p)
  /\ UNCHANGED <<row, stat, admin, link, outbox, entry, texts, history>>

FlushEnds(p) ==
  /\ Step(p, "flush", "flushed")
  /\ batch[p] = {}
  /\ Return(p)
  /\ UNCHANGED <<row, stat, admin, link, outbox, batch, entry, texts, history>>

DeleteEntry(p) ==
  /\ Step(p, "delete", "flush")
  /\ outbox' = outbox \ {entry[p]}
  /\ entry' = [entry EXCEPT ![p] = None]
  /\ UNCHANGED <<row, stat, admin, link, sess, batch, texts, history>>

FlushOutbox(p, from) ==
  \/ ReadOutbox(p, from) \/ FlushLoad(p) \/ FlushSend(p) \/ FlushFails(p)
  \/ FlushEnds(p) \/ DeleteEntry(p)

----------------------------------------------------------------------------------
(* Sessions: startSession on one side, dialAndHandshake on the other. *)

\* The side that dials a new peer knows it as accepted, the other side as pending.
FirstRow(x) == IF x = Dialer THEN "accepted" ELSE "pending"

\* The new session is stored and takes its status from the row.  (The peer reads its
\* first frame after its own side has gone back to pending, see Started.)
Connect ==
  /\ ~up /\ ~reg
  /\ count < MaxSessions
  /\ count' = count + 1
  /\ up' = TRUE /\ reg' = TRUE
  /\ LET first == count = 0
         known == IF first THEN [x \in Side |-> FirstRow(x)] ELSE row
     IN /\ row' = known
        /\ stat' = [known EXCEPT !["peer"] = IF first THEN "pending" ELSE @]
  /\ Step(count + 1, "idle", "start")
  /\ UNCHANGED <<admin, chan, back, outbox, sess, batch, entry, texts, history>>

\* The flush is over and the read loop starts; after the first session to a peer that
\* this client dials, its status goes back to pending.
Started(n) ==
  /\ Step(n, "flushed", "serving")
  /\ stat' = IF n = 1 /\ n = count /\ Dialer = "sender"
             THEN [stat EXCEPT !["sender"] = "pending"] ELSE stat
  /\ UNCHANGED <<row, admin, link, outbox, sess, batch, entry, texts, history>>

StartSession(n) == FlushOutbox(n, "start") \/ Started(n)

AdminFlush(f) == FlushOutbox(f, "idle")

\* The messages with a change among the signals of chan.
IsChange(sig) == sig.type \in {"update", "delete"}
ChangesInFlight == {about[chan[i].id] : i \in {j \in 1 .. Len(chan) : IsChange(chan[j])}}

\* The connection ends; what is in flight is lost.
Drop ==
  /\ up
  /\ up' = FALSE /\ chan' = <<>> /\ back' = FALSE
  /\ missed' = missed \cup ChangesInFlight
  /\ UNCHANGED <<row, stat, admin, count, reg, outbox, local, mine, theirs, about, history>>

\* The deferred Delete of the sender's read loop.
Unregister ==
  /\ ~up /\ reg
  /\ pc[count] = "serving"
  /\ reg' = FALSE
  /\ UNCHANGED <<row, stat, admin, count, up, chan, back, outbox, local, texts, history>>

\* The session is in the map of side x; the peer's map is taken to follow its connection.
Loaded(x) == IF x = "sender" THEN reg ELSE up

\* Bound: one acceptance notice is in flight in each direction.
NoticeOnItsWay(x) ==
  IF x = "peer" THEN back ELSE \E i \in 1 .. Len(chan) : chan[i] = Notice

AdminStep(x, from, to) == admin[x] = from /\ admin' = [admin EXCEPT ![x] = to]

\* adminAcceptPeer on either side (bound: one request at a time): the row ...
AcceptRow(x) ==
  /\ AdminStep(x, "idle", "session") /\ admin[Other(x)] = "idle"
  /\ row[x] # None
  /\ ~NoticeOnItsWay(x)
  /\ row' = [row EXCEPT ![x] = "accepted"]
  /\ UNCHANGED <<stat, link, outbox, local, texts, history>>

\* ... the session, if there is one ...
AcceptSession(x) ==
  /\ AdminStep(x, "session", "notice")
  /\ stat' = IF Loaded(x) THEN [stat EXCEPT ![x] = "accepted"] ELSE stat
  /\ UNCHANGED <<row, link, outbox, local, texts, history>>

\* ... and the notice, if it can be sent.
AcceptNotice(x) ==
  /\ AdminStep(x, "notice", "idle")
  /\ chan' = IF up /\ x = "sender" THEN Append(chan, Notice) ELSE chan
  /\ back' = (back \/ (up /\ x = "peer"))
  /\ UNCHANGED <<row, stat, count, up, reg, outbox, local, texts, history>>

Accept(x) == AcceptRow(x) \/ AcceptSession(x) \/ AcceptNotice(x)

\* handlePeerAccepted on side x, within the read loop: only the start of the next
\* session would read the row before the status follows.  Nothing is flushed.
Accepted(x) ==
  /\ row' = [row EXCEPT ![x] = "accepted"]
  /\ stat' = [stat EXCEPT ![x] = "accepted"]

ReceiveNotice ==
  /\ back
  /\ pc[count] = "serving"
  /\ back' = FALSE
  /\ Accepted("sender")
  /\ UNCHANGED <<admin, count, up, reg, chan, outbox, local, texts, history>>

\* Mutant: an update stores the message if it is not there.
Handle_Upserts(sig) ==
  LET m == IF sig.type = "message" THEN sig.id ELSE about[sig.id]
      text == CASE sig.type = "message" -> "original"
                [] sig.type = "update"  -> sig.id
                [] sig.type = "delete"  -> "deleted"
  IN theirs' = [theirs EXCEPT ![m] = text] /\ UNCHANGED missed

\* handleSignal of the peer: a message is stored again whatever there is, and only a
\* message that is there is updated or deleted (verifyAuthor).
Handle(sig) ==
  LET m == IF sig.type = "message" THEN sig.id ELSE about[sig.id]
      text == CASE sig.type = "message" -> "original"
                [] sig.type = "update"  -> sig.id
                [] sig.type = "delete"  -> "deleted"
      known == sig.type = "message" \/ Present(theirs[m])
  IN /\ theirs' = IF known THEN [theirs EXCEPT ![m] = text] ELSE theirs
     /\ missed' = IF known THEN missed ELSE missed \cup {m}

Ignore(sig) ==
  /\ missed' = IF IsChange(sig) THEN missed \cup {about[sig.id]} ELSE missed
  /\ UNCHANGED theirs

\* The peer's read loop and handleDecrypted: in an accepted session a signal is handled
\* unless the rate limiter drops it, in any other one it is dropped.
Receive ==
  /\ chan # <<>>
  /\ chan' = Tail(chan)
  /\ LET sig == Head(chan)
     IN \/ /\ sig = Notice
           /\ Accepted("peer")
           /\ UNCHANGED <<theirs, missed, refused>>
        \/ /\ sig # Notice /\ stat["peer"] = "accepted"
           /\ Handle(sig) \/ Ignore(sig)
           /\ UNCHANGED <<row, stat, refused>>
        \/ /\ sig # Notice /\ stat["peer"] # "accepted"
           /\ Ignore(sig)
           /\ refused' = IF sig.type = "message" THEN refused \cup {sig.id} ELSE refused
           /\ UNCHANGED <<row, stat>>
  /\ UNCHANGED <<admin, count, up, reg, back, outbox, local, mine, about, written, again, removed>>

\* adminDeleteOutboxEntry.
RemoveEntry(m) ==
  /\ m \in outbox
  /\ outbox' = outbox \ {m}
  /\ removed' = removed \cup {m}
  /\ UNCHANGED <<row, stat, admin, link, local, texts, refused, written, again>>

\* Changes that are made and not yet broadcast.
Announcing == {c \in Change : pc[c] \in {"update", "revoke"}}

\* The sender stops and starts again: its goroutines are gone, its tables are not.
Restart ==
  /\ up' = FALSE /\ reg' = FALSE /\ chan' = <<>> /\ back' = FALSE
  /\ pc' = [p \in Proc |-> IF pc[p] \in {"idle", "ok", "failed", "done"} THEN pc[p] ELSE "gone"]
  /\ sess' = [p \in Proc |-> 0]
  /\ batch' = [p \in Proc |-> {}]
  /\ entry' = [p \in Proc |-> None]
  /\ missed' = missed \cup ChangesInFlight \cup {about[c] : c \in Announcing}
  /\ admin' = [admin EXCEPT !["sender"] = "idle"]
  /\ UNCHANGED <<row, stat, count, outbox, mine, theirs, about, history>>

Next ==
  \/ \E m \in Msg : SendMessage(m) \/ RemoveEntry(m)
  \/ \E m \in Typed : SendLine(m)
  \/ \E c \in Edits : UpdateMessage(c)
  \/ \E c \in Deletes : DeleteMessage(c)
  \/ \E f \in Flushes : AdminFlush(f)
  \/ \E n \in Start : StartSession(n)
  \/ Connect \/ Drop \/ Unregister \/ ReceiveNotice \/ Receive \/ Restart
  \/ \E x \in Side : Accept(x)

Spec == Init /\ [][Next]_vars

(* The goroutine that starts a session runs: database calls return and writes have a *)
(* deadline.  No connection is promised, no frame and no admin request.              *)
FairSpec == Spec /\ \A n \in Start : WF_vars(StartSession(n))

----------------------------------------------------------------------------------
(* Properties *)

Label == {"idle", "typed", "send", "queue", "ok", "failed", "start", "load", "flush", "delete",
          "flushed", "serving", "edit", "erase", "update", "revoke", "done", "gone"}

LinkTypeOK ==
  /\ row \in [Side -> {None, "pending", "accepted"}]
  /\ stat \in [Side -> {None, "pending", "accepted"}]
  /\ admin \in [Side -> {"idle", "session", "notice"}]
  /\ count \in 0 .. MaxSessions
  /\ up \in BOOLEAN /\ reg \in BOOLEAN /\ back \in BOOLEAN
  /\ chan \in Seq(Signal)

ProcTypeOK ==
  /\ pc \in [Proc -> Label]
  /\ sess \in [Proc -> 0 .. MaxSessions]
  /\ batch \in [Proc -> SUBSET Msg]
  /\ entry \in [Proc -> Msg \cup {None}]
  /\ \A p \in Proc : (entry[p] # None) <=> (pc[p] = "delete")

TextTypeOK ==
  /\ mine \in [Msg -> Text] /\ theirs \in [Msg -> Text]
  /\ about \in [Change -> Msg \cup {None}]
  /\ missed \subseteq Msg
  /\ \A c \in Change : pc[c] \in {"edit", "erase", "update", "revoke"} => about[c] \in Msg
  /\ \A i \in 1 .. Len(chan) : IsChange(chan[i]) => about[chan[i].id] \in Msg

\* The values of the state; a flush has an entry to delete exactly after it sent one.
TypeOK ==
  /\ LinkTypeOK
  /\ ProcTypeOK
  /\ outbox \subseteq Msg
  /\ TextTypeOK
  /\ refused \subseteq Msg /\ written \subseteq Msg /\ again \subseteq Msg /\ removed \subseteq Msg

\* A message whose request was answered with success is never lost without a trace,
\* whatever sessions, flushes, admin deletes and restarts come in between: it is in
\* the outbox, was written to a connection, or was removed from the outbox by hand.
NoSilentLoss == \A m \in Msg : pc[m] = "ok" => m \in outbox \cup written \cup removed

\* What a flush has written leaves the outbox, and what it has not stays there: a
\* step that takes an entry out of the outbox takes out one that was written, unless
\* an admin removed it (flushOutbox deletes after the send, one entry at a time).
DeletedOnlyWhenWritten == [][\A m \in outbox \ outbox' : m \in written \/ m \in removed']_vars

\* A message that the sender has deleted at the peer does not come back there, in
\* whatever order flushes, edits and deletes reach it: only a message that was written
\* to a connection a second time can (two flushes of one outbox entry).
DeletedStaysGone ==
  [][\A m \in Msg : theirs[m] = "deleted" /\ theirs'[m] # "deleted" => m \in again]_vars

\* Once nothing is in flight or waits to be broadcast, the peer's copy of a message is
\* the sender's, unless a change was made while there was no connection, was lost with
\* it or ignored by the peer, or was overtaken by another change of the message before
\* its broadcast; or the message was written twice.
InStep ==
  \A m \in Msg :
    /\ chan = <<>> /\ Announcing = {}
    /\ theirs[m] # None /\ m \notin missed \cup again
    => theirs[m] = mine[m]

\* The flush at the start of an accepted session empties the outbox of what it holds
\* at that time, unless the connection ends.
OutboxDrains ==
  \A m \in Msg :
    (\E n \in Start : pc[n] = "start" /\ n = count /\ Online /\ m \in outbox)
      ~> (m \notin outbox \/ ~up)

\* README: a message is queued in the outbox if the peer is offline.  When nothing is
\* being sent or flushed and the peer is online and accepted, the outbox is empty.
QueuedOnlyOffline ==
  Online /\ up /\ (\A p \in Proc : pc[p] \in {"idle", "ok", "failed", "serving", "flushed", "done", "gone"})
    => outbox = {}

\* README: a message is sent to the peer, or queued.  A message the sender takes for
\* sent on an accepted session is not dropped by the peer for the session's status.
AcceptedIsMutual == refused = {}
==================================================================================
