--------------------------- MODULE MessageStoreProofs ---------------------------
(* Proofs about MessageStore: type correctness for any interleaving, and what the  *)
(* store keeps when operations run one at a time, restarts included.               *)
EXTENDS MessageStore, TLAPS

USE ZenonT(1), SMTT(30)

(* Type correctness.  The steps of one goroutine preserve it, alone or not.         *)

LEMMA InitTypeOK == Init => TypeOK
BY ZenonT(30) DEF Init, TypeOK, Label

\* A step of p, of whatever operation.
Run(p) == Send(p) \/ Receive(p) \/ FinalizeFile(p) \/ Get(p) \/ Update(p) \/ Delete(p)

LEMMA RunTypeOK ==
  ASSUME TypeOK, NEW p \in Proc, Run(p)
  PROVE  TypeOK'
<1> USE StoreAssumption DEF TypeOK, Label, Step, First, Second
<1>0. CASE IndexAndCache(p, "send") \/ IndexAndCache(p, "done")
  BY <1>0 DEF IndexAndCache, CacheDelete, IndexSearch, CacheStore
<1>1. CASE Send(p)
  <2>1. CASE SetFile(p, "attach", "done", TRUE)
    BY <2>1, ZenonT(30) DEF SetFile
  <2>2. CASE WriteRow(p, "idle") \/ SendSignal(p)
    BY <2>2 DEF WriteRow, SendSignal
  <2> QED
    BY <1>0, <1>1, <2>1, <2>2 DEF Send
<1>5. CASE Receive(p)
  BY <1>0, <1>5 DEF Receive, WriteRow
<1>6. CASE FinalizeFile(p)
  BY <1>6, ZenonT(30) DEF FinalizeFile, SetFile
<1>2. CASE Get(p)
  BY <1>2 DEF Get, LoadPlain, CacheHit, CacheMiss, ReadRow, NotExist, CacheStore
<1>3. CASE Update(p)
  BY <1>0, <1>3 DEF Update, LoadPlain, CacheHit, CacheMiss, ReadRow, NotExist, CacheStore,
     Exists, WriteRow
<1>4. CASE Delete(p)
  <2>1. CASE LoadPlain(p, First, "load2", "done") \/ LoadPlain(p, Second, "deleteFiles", "deleteRow")
    BY <2>1 DEF LoadPlain, CacheHit, CacheMiss, ReadRow, NotExist, CacheStore
  <2>2. CASE SetFile(p, "deleteFiles", "deleteRow", FALSE)
    BY <2>2, ZenonT(30) DEF SetFile
  <2>3. CASE DeleteRow(p) \/ DeleteSearchIndex(p) \/ CacheDelete(p, "deleteCache", "deleted")
    BY <2>3 DEF DeleteRow, DeleteSearchIndex, CacheDelete
  <2> QED
    BY <1>4, <2>1, <2>2, <2>3, ZenonT(30) DEF Delete
<1> QED
  BY <1>1, <1>2, <1>3, <1>4, <1>5, <1>6 DEF Run

LEMMA NextTypeOK == TypeOK /\ [Next \/ SerialNext]_vars => TypeOK'
<1> SUFFICES ASSUME TypeOK, [Next \/ SerialNext]_vars PROVE TypeOK'
  OBVIOUS
<1>1. ASSUME NEW p \in Proc, Run(p) PROVE TypeOK'
  BY <1>1, RunTypeOK
<1>2. CASE Expire
  BY <1>2 DEF Expire, TypeOK
<1>3. CASE Crash
  BY <1>3 DEF Crash, TypeOK, Active, Label
<1>4. CASE UNCHANGED vars
  BY <1>4 DEF vars, TypeOK
<1> QED
  BY <1>1, <1>2, <1>3, <1>4, ZenonT(30) DEF Next, SerialNext, Run, Proc

\* However the operations interleave, a goroutine that fills the cache or the index
\* has read or written a text.
THEOREM TypeCorrect == Spec => []TypeOK
<1>1. TypeOK /\ [Next]_vars => TypeOK'
  BY NextTypeOK
<1> QED
  BY <1>1, InitTypeOK, PTL DEF Spec

(* The same for the operations run one at a time (no overlap). *)
THEOREM SerialTypeCorrect == SerialSpec => []TypeOK
<1>1. TypeOK /\ [SerialNext]_vars => TypeOK'
  BY NextTypeOK
<1> QED
  BY <1>1, InitTypeOK, PTL DEF SerialSpec

--------------------------------------------------------------------------------
(* One operation at a time.  CacheCoherent and IndexCoherent speak of the moments   *)
(* between operations; the invariant says how far from coherent each step of the    *)
(* one operation under way may leave the store.                                     *)

CacheOK == cache \in {None, row}
IndexOK == crashed \/ idx = row
FileOK  == crashed \/ (Sent /\ row # None => file)
Whole   == CacheOK /\ IndexOK

Reading == {"read", "fill", "load2", "read2", "fill2", "exists", "write", "deleteFiles"}
Writing == {"evict", "index", "store"}

At(p) ==
  /\ pc[p] \in Reading => Whole
  /\ pc[p] \in {"fill", "fill2"} => row = loc[p]
  /\ pc[p] = "write" => row # None
  /\ pc[p] \in Writing => row = loc[p]
  /\ pc[p] \in {"index", "store"} => cache = None
  /\ pc[p] = "store" => idx = row
  /\ pc[p] \in {"send", "attach"} => idx = row /\ CacheOK
  /\ pc[p] = "deleteRow" => CacheOK /\ IndexOK /\ (row = None \/ ~file)
  /\ pc[p] \in {"deleteIndex", "deleteCache"} => row = None
  /\ pc[p] = "deleteCache" => idx = None

SerialInv ==
  /\ \A p, q \in Proc : Active(p) /\ Active(q) => p = q
  /\ Quiet => Whole
  /\ \A p \in Proc : At(p)
  /\ (\A p \in Proc : pc[p] # "deleteRow") => FileOK

GoneInv ==
  Deleted => row = None /\ cache = None /\ \A p \in Proc : Active(p) => pc[p] = "read"

LEMMA NextSerialInv == TypeOK /\ SerialInv /\ [SerialNext]_vars => SerialInv'
<1> SUFFICES ASSUME TypeOK, SerialInv, [SerialNext]_vars PROVE SerialInv'
  OBVIOUS
<1> USE StoreAssumption DEF TypeOK, SerialInv, Quiet, Active, At, Whole, CacheOK, IndexOK, FileOK,
        Reading, Writing, Sent
<1>0. ASSUME NEW p \in Proc, Alone(p), IndexAndCache(p, "send") \/ (IndexAndCache(p, "done") /\ p \notin Senders)
      PROVE  SerialInv'
  BY <1>0 DEF IndexAndCache, CacheDelete, IndexSearch, CacheStore, Step, Alone, Proc
<1>1. ASSUME NEW p \in Senders, Alone(p), Send(p) PROVE SerialInv'
  <2> USE DEF Step, Alone, Proc
  <2>1. CASE Fresh /\ WriteRow(p, "idle")
    BY <1>1, <2>1 DEF Fresh, WriteRow
  <2>2. CASE SendSignal(p)
    BY <1>1, <2>2 DEF SendSignal
  <2>3. CASE SetFile(p, "attach", "done", TRUE)
    BY <1>1, <2>3 DEF SetFile
  <2> QED
    BY <1>0, <1>1, <2>1, <2>2, <2>3 DEF Send
<1>8. ASSUME NEW p \in Receivers, Alone(p), Receive(p) PROVE SerialInv'
  <2>1. CASE ~Own /\ WriteRow(p, "idle")
    BY <1>8, <2>1 DEF Own, WriteRow, Step, Alone, Proc
  <2> QED
    BY <1>0, <1>8, <2>1 DEF Receive, Proc
<1>9. ASSUME NEW p \in Arrivals, Alone(p), FinalizeFile(p) PROVE SerialInv'
  BY <1>9 DEF FinalizeFile, SetFile, Step, Alone, Proc
<1>2. ASSUME NEW p \in Getters, Alone(p), Get(p) PROVE SerialInv'
  BY <1>2 DEF Get, LoadPlain, CacheHit, CacheMiss, ReadRow, NotExist, CacheStore, First,
     Step, Alone, Proc
<1>3. ASSUME NEW p \in Updaters, Alone(p), Update(p) PROVE SerialInv'
  <2> USE DEF Step, Alone, Proc
  <2>1. CASE LoadPlain(p, First, "load2", "done")
    BY <1>3, <2>1 DEF LoadPlain, CacheHit, CacheMiss, ReadRow, NotExist, CacheStore, First
  <2>2. CASE LoadPlain(p, Second, "exists", "exists") \/ Exists(p)
    BY <1>3, <2>2 DEF LoadPlain, CacheHit, CacheMiss, ReadRow, NotExist, CacheStore, Second, Exists
  <2>3. CASE WriteRow(p, "write")
    BY <1>3, <2>3 DEF WriteRow
  <2> QED
    BY <1>0, <1>3, <2>1, <2>2, <2>3 DEF Update
<1>4. ASSUME NEW p \in Deleters, Alone(p), Delete(p) PROVE SerialInv'
  <2> USE DEF Step, Alone, Proc
  <2>1. CASE LoadPlain(p, First, "load2", "done")
    BY <1>4, <2>1 DEF LoadPlain, CacheHit, CacheMiss, ReadRow, NotExist, CacheStore, First
  <2>2. CASE LoadPlain(p, Second, "deleteFiles", "deleteRow")
    BY <1>4, <2>2 DEF LoadPlain, CacheHit, CacheMiss, ReadRow, NotExist, CacheStore, Second
  <2>3. CASE SetFile(p, "deleteFiles", "deleteRow", FALSE)
    BY <1>4, <2>3 DEF SetFile
  <2>4. CASE DeleteRow(p) \/ DeleteSearchIndex(p) \/ CacheDelete(p, "deleteCache", "deleted")
    BY <1>4, <2>4 DEF DeleteRow, DeleteSearchIndex, CacheDelete
  <2> QED
    BY <1>4, <2>1, <2>2, <2>3, <2>4, ZenonT(30) DEF Delete
<1>5. CASE Expire
  BY <1>5 DEF Expire
<1>6. CASE Crash
  BY <1>6, ZenonT(30) DEF Crash
<1>7. CASE UNCHANGED vars
  BY <1>7 DEF vars
<1> QED
  BY <1>1, <1>2, <1>3, <1>4, <1>5, <1>6, <1>7, <1>8, <1>9 DEF SerialNext

LEMMA NextGoneInv == TypeOK /\ SerialInv /\ GoneInv /\ [SerialNext]_vars => GoneInv'
<1> SUFFICES ASSUME TypeOK, SerialInv, GoneInv, [SerialNext]_vars PROVE GoneInv'
  OBVIOUS
<1>a. \A p \in Proc : pc[p] = "deleteCache" => row = None
  BY DEF SerialInv, At
<1> USE StoreAssumption DEF TypeOK, GoneInv, Deleted, Active
<1>0. ASSUME NEW p \in Proc, Alone(p), IndexAndCache(p, "send") \/ IndexAndCache(p, "done") PROVE GoneInv'
  BY <1>0 DEF IndexAndCache, CacheDelete, IndexSearch, CacheStore, Step, Alone, Proc
<1>1. ASSUME NEW p \in Senders, Alone(p), Send(p) PROVE GoneInv'
  <2> USE DEF Step, Alone, Proc
  <2>1. CASE Fresh /\ WriteRow(p, "idle")
    BY <1>1, <2>1 DEF Fresh, WriteRow
  <2>2. CASE SendSignal(p) \/ SetFile(p, "attach", "done", TRUE)
    BY <1>1, <2>2 DEF SendSignal, SetFile
  <2> QED
    BY <1>0, <1>1, <2>1, <2>2 DEF Send
<1>8. ASSUME NEW p \in Receivers, Alone(p), Receive(p) PROVE GoneInv'
  BY <1>0, <1>8 DEF Receive, WriteRow, Step, Alone, Proc
<1>9. ASSUME NEW p \in Arrivals, Alone(p), FinalizeFile(p) PROVE GoneInv'
  BY <1>9 DEF FinalizeFile, SetFile, Step, Alone, Proc
<1>2. ASSUME NEW p \in Getters, Alone(p), Get(p) PROVE GoneInv'
  BY <1>2 DEF Get, LoadPlain, CacheHit, CacheMiss, ReadRow, NotExist, CacheStore, First,
     Step, Alone, Proc
<1>3. ASSUME NEW p \in Updaters, Alone(p), Update(p) PROVE GoneInv'
  <2> USE DEF Step, Alone, Proc
  <2>1. CASE LoadPlain(p, First, "load2", "done")
    BY <1>3, <2>1 DEF LoadPlain, CacheHit, CacheMiss, ReadRow, NotExist, CacheStore, First
  <2>2. CASE LoadPlain(p, Second, "exists", "exists") \/ Exists(p)
    BY <1>3, <2>2 DEF LoadPlain, CacheHit, CacheMiss, ReadRow, NotExist, CacheStore, Second, Exists
  <2>3. CASE WriteRow(p, "write")
    BY <1>3, <2>3 DEF WriteRow
  <2> QED
    BY <1>0, <1>3, <2>1, <2>2, <2>3 DEF Update
<1>4. ASSUME NEW p \in Deleters, Alone(p), Delete(p) PROVE GoneInv'
  <2> USE DEF Step, Alone, Proc
  <2>1. CASE LoadPlain(p, First, "load2", "done")
    BY <1>4, <2>1 DEF LoadPlain, CacheHit, CacheMiss, ReadRow, NotExist, CacheStore, First
  <2>2. CASE LoadPlain(p, Second, "deleteFiles", "deleteRow")
    BY <1>4, <2>2 DEF LoadPlain, CacheHit, CacheMiss, ReadRow, NotExist, CacheStore, Second
  <2>3. CASE SetFile(p, "deleteFiles", "deleteRow", FALSE)
    BY <1>4, <2>3 DEF SetFile
  <2>4. CASE DeleteRow(p) \/ DeleteSearchIndex(p) \/ CacheDelete(p, "deleteCache", "deleted")
    BY <1>a, <1>4, <2>4 DEF DeleteRow, DeleteSearchIndex, CacheDelete
  <2> QED
    BY <1>4, <2>1, <2>2, <2>3, <2>4, ZenonT(30) DEF Delete
<1>5. CASE Expire
  BY <1>5 DEF Expire
<1>6. CASE Crash
  <2>1. \A p \in Proc : pc[p]' \notin {"idle", "deleted"} \/ pc[p]' = pc[p]
    BY <1>6 DEF Crash
  <2>2. \A p \in Proc : ~Active(p)'
    BY <1>6 DEF Crash
  <2>3. Deleted' => Deleted
    BY <2>1 DEF Proc
  <2> QED
    BY <1>6, <2>2, <2>3 DEF Crash
<1>7. CASE UNCHANGED vars
  BY <1>7 DEF vars
<1> QED
  BY <1>1, <1>2, <1>3, <1>4, <1>5, <1>6, <1>7, <1>8, <1>9 DEF SerialNext

LEMMA InitSerialInv == Init => SerialInv /\ GoneInv
BY ZenonT(30) DEF Init, SerialInv, GoneInv, Deleted, Quiet, Active, At, Whole, CacheOK, IndexOK, FileOK,
   Reading, Writing, Sent, Proc

LEMMA SerialInvariant == SerialSpec => [](TypeOK /\ SerialInv /\ GoneInv)
BY InitSerialInv, InitTypeOK, SerialTypeCorrect, NextSerialInv, NextGoneInv, PTL DEF SerialSpec

\* Between operations that run one at a time the cache never holds a text that the
\* database does not: Put, Update and Delete evict, loadPlain copies the row.
THEOREM CacheIsCoherent == SerialSpec => []CacheCoherent
<1>1. SerialInv => CacheCoherent
  BY DEF SerialInv, CacheCoherent, Whole, CacheOK
<1> QED
  BY <1>1, SerialInvariant, PTL

\* Between complete operations that run one at a time, the search index agrees with the
\* row, and a message that apiSendMessage has sent with success has its attachment.
THEOREM IndexIsCoherent == SerialSpec => []IndexCoherent
<1>1. TypeOK /\ SerialInv => IndexCoherent
  BY DEF TypeOK, SerialInv, IndexCoherent, Quiet, Active, Whole, IndexOK, FileOK
<1> QED
  BY <1>1, SerialInvariant, PTL

\* message.Delete leaves no attachment behind without its row, and neither does any other
\* operation, whatever restarts cut short: only DeleteRow takes the row away, and the
\* attachment has gone by then.
THEOREM AttachmentsGoFirst == SerialSpec => NoOrphan
<1>1. ASSUME TypeOK, SerialInv, [SerialNext]_vars PROVE row # None /\ row' = None => ~file'
  <2>1. ASSUME NEW p \in Proc, DeleteRow(p) PROVE row # None => ~file'
    BY <1>1, <2>1 DEF SerialInv, At, DeleteRow, Step
  <2>2. ASSUME NEW p \in Proc, Run(p), ~DeleteRow(p) PROVE row' = row \/ row' # None
    BY <2>2, StoreAssumption DEF Run, Send, Receive, FinalizeFile, Get, Update, Delete, IndexAndCache,
       LoadPlain, CacheHit, CacheMiss, ReadRow, NotExist, CacheStore, CacheDelete, IndexSearch,
       Exists, WriteRow, SetFile, SendSignal, DeleteSearchIndex
  <2>3. ASSUME Expire \/ Crash \/ UNCHANGED vars PROVE row' = row
    BY <2>3 DEF Expire, Crash, vars
  <2> QED
    BY <1>1, <2>1, <2>2, <2>3 DEF SerialNext, Run, Proc
<1> QED
  BY <1>1, SerialInvariant, PTL DEF SerialSpec, NoOrphan

\* When operations run one at a time, a deleted message cannot be read again.
THEOREM DeleteIsFinal == SerialSpec => []DeletedIsGone
<1>1. GoneInv => DeletedIsGone
  BY DEF GoneInv, DeletedIsGone
<1> QED
  BY <1>1, SerialInvariant, PTL
================================================================================
