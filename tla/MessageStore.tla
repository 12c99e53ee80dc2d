------------------------------ MODULE MessageStore ------------------------------
(* One chat message in the local store: its row in chats, its entry in the search  *)
(* index chat_search, its attachment in files, and the decrypted copy in the cache *)
(* in front of chats.  Requests and read loops call message.Put, Get, Update and   *)
(* Delete from goroutines of their own; nothing locks a message, and no operation  *)
(* is a transaction, so each statement on the database and each call of the cache  *)
(* is one action, and succeeds.  Messages are independent of each other.  Their    *)
(* text is opaque; the author does not change and is checked by the callers' first *)
(* Get.  The attachment of a message that is sent is stored by the request that    *)
(* sends it, that of a received one when its last chunk arrives.                   *)
EXTENDS Naturals

CONSTANTS Senders,    \* goroutines, by the operation they run: a message is sent
          Receivers,  \*   or received, the last chunk of its attachment arrives,
          Arrivals,   \*   the message is read, edited, deleted
          Getters,
          Updaters,
          Deleters,
          Text,
          None        \* no row, no entry, no value

Proc == Senders \cup Receivers \cup Arrivals \cup Getters \cup Updaters \cup Deleters

ASSUME StoreAssumption ==
  /\ None \notin Text
  /\ Senders \cap (Receivers \cup Arrivals \cup Getters \cup Updaters \cup Deleters) = {}
  /\ Receivers \cap (Arrivals \cup Getters \cup Updaters \cup Deleters) = {}
  /\ Arrivals \cap (Getters \cup Updaters \cup Deleters) = {}
  /\ Getters \cap (Updaters \cup Deleters) = {}
  /\ Updaters \cap Deleters = {}

VARIABLES
  row,      \* chats.value of the message
  idx,      \* the text chat_search holds for it
  file,     \* files holds its attachment
  cache,    \* the decrypted text in the cache
  pc,       \* pc[p]: where the goroutine p is
  loc,      \* loc[p]: the text that p has read, or is writing
  crashed   \* history: the program was restarted during an operation

vars == <<row, idx, file, cache, pc, loc, crashed>>

Step(p, from, to) == pc[p] = from /\ pc' = [pc EXCEPT ![p] = to]

Active(p) == pc[p] \notin {"idle", "done", "failed", "deleted"}
Quiet == \A p \in Proc : ~Active(p)

Init ==
  /\ row \in Text \cup {None}
  /\ idx = row
  /\ file \in BOOLEAN
  /\ cache = None
  /\ pc = [p \in Proc |-> "idle"]
  /\ loc = [p \in Proc |-> None]
  /\ crashed = FALSE

--------------------------------------------------------------------------------
(* loadPlain: the cache, or the row and then the cache.  L names its three steps. *)

First  == [load |-> "idle",  read |-> "read",  fill |-> "fill"]
Second == [load |-> "load2", read |-> "read2", fill |-> "fill2"]

CacheHit(p, L, found) ==
  /\ Step(p, L.load, found)
  /\ cache # None
  /\ loc' = [loc EXCEPT ![p] = cache]
  /\ UNCHANGED <<row, idx, file, cache, crashed>>

CacheMiss(p, L) ==
  /\ Step(p, L.load, L.read)
  /\ cache = None
  /\ UNCHANGED <<row, idx, file, cache, loc, crashed>>

ReadRow(p, L) ==
  /\ Step(p, L.read, L.fill)
  /\ row # None
  /\ loc' = [loc EXCEPT ![p] = row]
  /\ UNCHANGED <<row, idx, file, cache, crashed>>

NotExist(p, L, missing) ==
  /\ Step(p, L.read, missing)
  /\ row = None
  /\ UNCHANGED <<row, idx, file, cache, loc, crashed>>

CacheStore(p, from, to) ==
  /\ Step(p, from, to)
  /\ cache' = loc[p]
  /\ UNCHANGED <<row, idx, file, loc, crashed>>

LoadPlain(p, L, found, missing) ==
  \/ CacheHit(p, L, found) \/ CacheMiss(p, L)
  \/ ReadRow(p, L) \/ NotExist(p, L, missing)
  \/ CacheStore(p, L.fill, found)

--------------------------------------------------------------------------------
(* ChatStore.PutWithID, IndexSearch and Delete, statement by statement. *)

WriteRow(p, from) ==
  /\ Step(p, from, "evict")
  /\ \E t \in Text : row' = t /\ loc' = [loc EXCEPT ![p] = t]
  /\ UNCHANGED <<idx, file, cache, crashed>>

\* Mutant: the cache keeps what it has.
CacheDelete_Skipped(p, from, to) ==
  /\ Step(p, from, to)
  /\ UNCHANGED <<row, idx, file, cache, loc, crashed>>

CacheDelete(p, from, to) ==
  /\ Step(p, from, to)
  /\ cache' = None
  /\ UNCHANGED <<row, idx, file, loc, crashed>>

\* Mutant: the text that was indexed first stays.
IndexSearch_InsertOnly(p) ==
  /\ Step(p, "index", "store")
  /\ idx' = IF idx = None THEN loc[p] ELSE idx
  /\ UNCHANGED <<row, file, cache, loc, crashed>>

IndexSearch(p) ==
  /\ Step(p, "index", "store")
  /\ idx' = loc[p]
  /\ UNCHANGED <<row, file, cache, loc, crashed>>

Exists(p) ==
  /\ Step(p, "exists", IF row = None THEN "done" ELSE "write")
  /\ UNCHANGED <<row, idx, file, cache, loc, crashed>>

DeleteRow(p) ==
  /\ Step(p, "deleteRow", "deleteIndex")
  /\ row' = None
  /\ UNCHANGED <<idx, file, cache, loc, crashed>>

DeleteSearchIndex(p) ==
  /\ Step(p, "deleteIndex", "deleteCache")
  /\ idx' = None
  /\ UNCHANGED <<row, file, cache, loc, crashed>>

\* FileStore.PutWithID through StoreAttachments, and FileStore.Delete.
SetFile(p, from, to, present) ==
  /\ Step(p, from, to)
  /\ file' = present
  /\ UNCHANGED <<row, idx, cache, loc, crashed>>

--------------------------------------------------------------------------------
(* The operations. *)

\* An own message has a new id, which nobody knows before; it is not received.
Fresh == row = None /\ \A p \in Proc : pc[p] = "idle"
Own   == \E s \in Senders : pc[s] # "idle"

\* The end of ChatStore.PutWithID, and indexAndCache.
IndexAndCache(p, to) ==
  CacheDelete(p, "evict", "index") \/ IndexSearch(p) \/ CacheStore(p, "store", to)

\* The signal is written to the session or queued, or the request fails with what it
\* has stored so far.
SendSignal(s) ==
  /\ \E to \in {"attach", "failed"} : Step(s, "send", to)
  /\ UNCHANGED <<row, idx, file, cache, loc, crashed>>

\* apiSendMessage: message.Put, the send, StoreAttachments.
Send(s) ==
  \/ Fresh /\ WriteRow(s, "idle")
  \/ IndexAndCache(s, "send")
  \/ SendSignal(s)
  \/ SetFile(s, "attach", "done", TRUE)

\* handleSignal: message.Put.
Receive(r) == (~Own /\ WriteRow(r, "idle")) \/ IndexAndCache(r, "done")

\* finalizeFile: StoreAttachments, whether the message is there or not.
FinalizeFile(a) == ~Own /\ SetFile(a, "idle", "done", TRUE)

Get(p) == LoadPlain(p, First, "done", "done")

\* The caller's check of the author, then message.Update.
Update(p) ==
  \/ LoadPlain(p, First, "load2", "done")
  \/ LoadPlain(p, Second, "exists", "exists")
  \/ Exists(p) \/ WriteRow(p, "write") \/ IndexAndCache(p, "done")

\* Mutant: the attachments are not looked for.
Delete_KeepsFiles(p) ==
  \/ LoadPlain(p, First, "load2", "done")
  \/ LoadPlain(p, Second, "deleteRow", "deleteRow")
  \/ DeleteRow(p) \/ DeleteSearchIndex(p)
  \/ CacheDelete(p, "deleteCache", "deleted")

\* The caller's check of the author, then message.Delete.  A message that cannot be
\* loaded leaves its attachments alone.
Delete(p) ==
  \/ LoadPlain(p, First, "load2", "done")
  \/ LoadPlain(p, Second, "deleteFiles", "deleteRow")
  \/ SetFile(p, "deleteFiles", "deleteRow", FALSE)
  \/ DeleteRow(p) \/ DeleteSearchIndex(p)
  \/ CacheDelete(p, "deleteCache", "deleted")

\* Mutant: the cache is made without an expiration.
Expire_Never ==
  /\ cache = None
  /\ UNCHANGED vars

\* The entry of the cache expires.
Expire ==
  /\ cache # None
  /\ cache' = None
  /\ UNCHANGED <<row, idx, file, pc, loc, crashed>>

\* The program is restarted: the database stays, the cache and the goroutines go.
Crash ==
  /\ crashed' = (crashed \/ ~Quiet)
  /\ pc' = [p \in Proc |-> IF Active(p) THEN "done" ELSE pc[p]]
  /\ loc' = [p \in Proc |-> None]
  /\ cache' = None
  /\ UNCHANGED <<row, idx, file>>

Next ==
  \/ Expire
  \/ \E p \in Senders : Send(p)
  \/ \E p \in Receivers : Receive(p)
  \/ \E p \in Arrivals : FinalizeFile(p)
  \/ \E p \in Getters : Get(p)
  \/ \E p \in Updaters : Update(p)
  \/ \E p \in Deleters : Delete(p)

Spec == Init /\ [][Next]_vars

(* An operation that was started goes on: its database calls return.  Entries of    *)
(* the cache expire (gocache, DefaultExpiration).                                  *)
FairSpec ==
  /\ Spec
  /\ WF_vars(Expire)
  /\ \A p \in Senders : WF_vars(Active(p) /\ Send(p))
  /\ \A p \in Receivers : WF_vars(Active(p) /\ Receive(p))
  /\ \A p \in Getters : WF_vars(Active(p) /\ Get(p))
  /\ \A p \in Updaters : WF_vars(Active(p) /\ Update(p))
  /\ \A p \in Deleters : WF_vars(Active(p) /\ Delete(p))

(* One operation at a time, with restarts: how the tests use the store.            *)
Alone(p) == \A q \in Proc \ {p} : ~Active(q)

SerialNext ==
  \/ Expire
  \/ Crash
  \/ \E p \in Senders : Alone(p) /\ Send(p)
  \/ \E p \in Receivers : Alone(p) /\ Receive(p)
  \/ \E p \in Arrivals : Alone(p) /\ FinalizeFile(p)
  \/ \E p \in Getters : Alone(p) /\ Get(p)
  \/ \E p \in Updaters : Alone(p) /\ Update(p)
  \/ \E p \in Deleters : Alone(p) /\ Delete(p)

SerialSpec == Init /\ [][SerialNext]_vars

--------------------------------------------------------------------------------
(* Properties *)

Label == {"idle", "read", "fill", "load2", "read2", "fill2", "evict", "index", "store",
          "send", "attach", "failed", "exists", "write", "deleteFiles", "deleteRow", "deleteIndex",
          "deleteCache", "deleted", "done"}

\* The values of the state; a goroutine that writes the index or fills the cache has
\* a text to write.
TypeOK ==
  /\ row \in Text \cup {None}
  /\ idx \in Text \cup {None}
  /\ cache \in Text \cup {None}
  /\ file \in BOOLEAN
  /\ crashed \in BOOLEAN
  /\ pc \in [Proc -> Label]
  /\ loc \in [Proc -> Text \cup {None}]
  /\ \A p \in Proc : pc[p] \in {"fill", "fill2", "evict", "index", "store"} => loc[p] # None

\* Between operations that run one at a time, the cache holds the row's text or
\* nothing: every write evicts before it fills, and a restart empties the cache.
CacheCoherent == Quiet => cache \in {None, row}

\* A request that sent the message has been answered with success.
Sent == \E s \in Senders : pc[s] = "done"

\* Between operations that run one at a time and have not been cut short, the index
\* holds the row's text, and a message that was sent with success has its attachment
\* for as long as it is there: an update leaves both in place.
IndexCoherent == Quiet /\ ~crashed => idx = row /\ (Sent /\ row # None => file)

\* A message that goes takes its attachment along, wherever a restart cuts the
\* operations short: message.Delete deletes the files before the row that names them,
\* and a file whose row is gone could never be found again.
NoOrphan == [][row # None /\ row' = None => ~file']_vars

\* A copy left in the cache by a read that raced a write does not stay: once the
\* operations are over it expires, and later reads load the row.
StaleCopyExpires == <>[](cache \in {None, row})

\* A message was deleted, and not received again.
Deleted == (\E d \in Deleters : pc[d] = "deleted") /\ (\A r \in Receivers : pc[r] = "idle")

\* TestMessageDelete: a Get after a Delete fails.  Between operations, a deleted
\* message is neither in the database nor in the cache.
DeletedIsGone == Quiet /\ Deleted => row = None /\ cache = None

\* README: DELETE /api/messages/{id} deletes the message.  Between operations, a
\* deleted message has no row.
NotResurrected == Quiet /\ Deleted => row = None

\* README: messages persist across restarts, and the search finds them by content.
\* Between operations a message that is stored is in the index, after a restart too.
Searchable == Quiet /\ row # None => idx # None
================================================================================
