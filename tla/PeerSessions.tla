------------------------------ MODULE PeerSessions ------------------------------
(* What one client keeps about one remote peer, and the goroutines that share it: *)
(* the peer's row in known_peers, the entry of the peer in the sessions map, and  *)
(* the sessions themselves.  The goroutines are the handlers of inbound           *)
(* connections (handleWS, startSession, readLoop), the outbound connections       *)
(* (dialAndHandshake, storeSession, readLoop) and the admin requests (accept,      *)
(* reject, disconnect, set nickname).                                             *)
(*                                                                                *)
(* Each access to the database, to the sessions map or to a session's mutex is    *)
(* one action.  Nothing in the code holds two of them together: in particular     *)
(* every update of a known_peers row is a Get of the whole row followed, later,   *)
(* by an Add that replaces the whole row.  Of the row the model keeps the status; *)
(* the other columns (name, nickname, last_seen, picture) travel in the same Get  *)
(* and Add.  Database errors are not modelled.                                    *)
EXTENDS Naturals

CONSTANTS Inbound,      \* connections the peer opens, one handler goroutine each
          Outbound,     \* connections this client opens to the peer
          Accepts,      \* admin requests, by kind; one of several kinds is any of them
          Rejects,
          Disconnects,
          Nicknames,
          None          \* no row, or no session

Sess  == Inbound \cup Outbound
Admin == Accepts \cup Rejects \cup Disconnects \cup Nicknames
Proc  == Sess \cup Admin

ASSUME ProcAssumption ==
  /\ None \notin Proc \cup {"pending", "accepted", "rejected"}
  /\ Inbound \cap Outbound = {}
  /\ Sess \cap Admin = {}

VARIABLES
  row,       \* status in the peer's row of known_peers, or None
  reg,       \* the session stored in c.sessions under the peer's key, or None
  stat,      \* stat[s]: Session.stat
  conn,      \* conn[s]: the websocket of s
  pc,        \* pc[p]: where the goroutine p is
  copy,      \* copy[p]: the row p has read and is about to write back
  old,       \* old[p]: the session p took out of the map and has still to close
  verdict    \* history: the last decision on the peer (see RejectRow)

vars == <<row, reg, stat, conn, pc, copy, old, verdict>>

Status == {"pending", "accepted", "rejected"}

At(p, from)      == pc[p] = from
Goto(p, to)      == pc' = [pc EXCEPT ![p] = to]
Step(p, from, to) == At(p, from) /\ Goto(p, to)

\* What an access to the database leaves alone.
others == <<reg, stat, conn, old, verdict>>

\* The client starts with the row that an earlier run left in the database, if any.
Init ==
  /\ row \in Status \cup {None}
  /\ reg = None
  /\ stat = [s \in Sess |-> None]
  /\ conn = [s \in Sess |-> "none"]
  /\ pc = [p \in Proc |-> "idle"]
  /\ copy = [p \in Proc |-> None]
  /\ old = [p \in Proc |-> None]
  /\ verdict = "open"

--------------------------------------------------------------------------------
(* KnownPeers.Get and KnownPeers.Add of a goroutine that changes another column.  *)

Get(p, from, to) ==
  /\ Step(p, from, to)
  /\ row # None
  /\ copy' = [copy EXCEPT ![p] = row]
  /\ UNCHANGED <<row, others>>

Add(p, from, to) ==
  /\ Step(p, from, to)
  /\ row' = copy[p]
  /\ copy' = [copy EXCEPT ![p] = None]
  /\ UNCHANGED others

\* A write that sets the status column.  The Get before it and the Add are one
\* step here: of what Get read, only columns outside the model survive.
SetRow(status) == row' = status /\ UNCHANGED <<copy, reg, stat, conn, old>>

\* closeConn of the session that p took out of the map.
CloseOld(p, from, to) ==
  /\ Step(p, from, to)
  /\ conn' = [conn EXCEPT ![old[p]] = "closed"]
  /\ old' = [old EXCEPT ![p] = None]
  /\ UNCHANGED <<row, reg, stat, copy, verdict>>

--------------------------------------------------------------------------------
(* handleWS: the handler of an inbound connection, up to its session. *)

\* An unknown peer is to be saved as pending.
WSUnknown(h) ==
  /\ Step(h, "idle", "addPending")
  /\ row = None
  /\ stat' = [stat EXCEPT ![h] = "pending"]
  /\ UNCHANGED <<row, reg, conn, copy, old, verdict>>

\* Mutant: the check for a rejected peer is missing.
WSKnown_AdmitsRejected(h) ==
  /\ Step(h, "idle", "check")
  /\ row # None
  /\ stat' = [stat EXCEPT ![h] = row]
  /\ UNCHANGED <<row, reg, conn, copy, old, verdict>>

\* The status read here is the status of the session, however long the rest takes.
WSKnown(h) ==
  /\ Step(h, "idle", "check")
  /\ row \in {"pending", "accepted"}
  /\ stat' = [stat EXCEPT ![h] = row]
  /\ UNCHANGED <<row, reg, conn, copy, old, verdict>>

\* 403 for a rejected peer.
WSRejected(h) ==
  /\ Step(h, "idle", "done")
  /\ row = "rejected"
  /\ UNCHANGED <<row, copy, others>>

WSAddPending(h) ==
  /\ Step(h, "addPending", "check")
  /\ SetRow("pending")
  /\ UNCHANGED verdict

\* 409 when the peer has a session.
WSConflict(h) ==
  /\ Step(h, "check", "done")
  /\ reg # None
  /\ UNCHANGED <<row, copy, others>>

WSUpgrade(h) ==
  /\ Step(h, "check", "replace")
  /\ reg = None
  /\ conn' = [conn EXCEPT ![h] = "open"]
  /\ UNCHANGED <<row, reg, stat, copy, old, verdict>>

WSUpgradeFails(h) ==
  /\ Step(h, "check", "done")
  /\ reg = None
  /\ UNCHANGED <<row, copy, others>>

\* closeExistingSession: a session stored since the check is taken out and closed.
WSReplace(h) ==
  /\ At(h, "replace")
  /\ Goto(h, IF reg = None THEN "handshake" ELSE "touchGet")
  /\ old' = [old EXCEPT ![h] = reg]
  /\ reg' = None
  /\ UNCHANGED <<row, stat, conn, copy, verdict>>

\* The connection is closed, and the handler, or the dial, returns.
HandshakeFails(s, from) ==
  /\ Step(s, from, "done")
  /\ conn' = [conn EXCEPT ![s] = "closed"]
  /\ UNCHANGED <<row, reg, stat, copy, old, verdict>>

Handshake(h) ==
  /\ Step(h, "handshake", "store")
  /\ UNCHANGED <<row, copy, others>>

Store(s, from, to) ==
  /\ Step(s, from, to)
  /\ reg' = s
  /\ UNCHANGED <<row, stat, conn, copy, old, verdict>>

HandleWS(h) ==
  \/ WSUnknown(h) \/ WSKnown(h) \/ WSRejected(h) \/ WSAddPending(h)
  \/ WSConflict(h) \/ WSUpgrade(h) \/ WSUpgradeFails(h) \/ WSReplace(h)
  \/ Get(h, "touchGet", "touchAdd")
  \/ Add(h, "touchAdd", "closeOld")
  \/ CloseOld(h, "closeOld", "handshake")
  \/ HandshakeFails(h, "handshake") \/ Handshake(h)
  \/ Store(h, "store", "nameGet")
  \/ Get(h, "nameGet", "nameAdd")
  \/ Add(h, "nameAdd", "loop")

--------------------------------------------------------------------------------
(* dialAndHandshake and storeSession: an outbound connection, up to its session. *)

\* No connection: the network, or 403 or 409 from the other side.
DialFails(o) ==
  /\ Step(o, "idle", "done")
  /\ UNCHANGED <<row, copy, others>>

DialOpens(o) ==
  /\ Step(o, "idle", "dialed")
  /\ conn' = [conn EXCEPT ![o] = "open"]
  /\ UNCHANGED <<row, reg, stat, copy, old, verdict>>

\* After the handshake the peer is looked up: is it new?
LookUp(o) ==
  /\ At(o, "dialed")
  /\ Goto(o, IF row = None THEN "addAccepted" ELSE "exists")
  /\ UNCHANGED <<row, copy, others>>

AddAccepted(o) ==
  /\ Step(o, "addAccepted", "existsNew")
  /\ SetRow("accepted")
  /\ verdict' = "open"

\* Mutant: the new connection is left open.
SessionExists_LeftOpen(o, from) ==
  /\ Step(o, from, "done")
  /\ reg # None
  /\ UNCHANGED <<row, copy, others>>

\* errSessionExists: the new connection is closed.
SessionExists(o, from) ==
  /\ Step(o, from, "done")
  /\ reg # None
  /\ conn' = [conn EXCEPT ![o] = "closed"]
  /\ UNCHANGED <<row, reg, stat, copy, old, verdict>>

NoSession(o, from, to) ==
  /\ Step(o, from, to)
  /\ reg = None
  /\ UNCHANGED <<row, copy, others>>

\* storeSession takes the status from the row it is about to rewrite.
TakeStatus(o, from, to) ==
  /\ Step(o, from, to)
  /\ row # None
  /\ stat' = [stat EXCEPT ![o] = row]
  /\ copy' = [copy EXCEPT ![o] = row]
  /\ UNCHANGED <<row, reg, conn, old, verdict>>

\* A peer met by dialling is known as accepted, its first session is pending.
Demote(o) ==
  /\ Step(o, "demote", "loop")
  /\ stat' = [stat EXCEPT ![o] = "pending"]
  /\ UNCHANGED <<row, reg, conn, copy, old, verdict>>

Dial(o) ==
  \/ DialFails(o) \/ DialOpens(o) \/ HandshakeFails(o, "dialed") \/ LookUp(o) \/ AddAccepted(o)
  \/ SessionExists(o, "exists") \/ SessionExists(o, "existsNew")
  \/ NoSession(o, "exists", "takeStatus") \/ NoSession(o, "existsNew", "takeStatusNew")
  \/ TakeStatus(o, "takeStatus", "rename")
  \/ TakeStatus(o, "takeStatusNew", "renameNew")
  \/ Add(o, "rename", "storeOut") \/ Add(o, "renameNew", "storeNew")
  \/ Store(o, "storeOut", "loop") \/ Store(o, "storeNew", "demote")
  \/ Demote(o)

--------------------------------------------------------------------------------
(* readLoop, and the signals it handles that change what is kept about the peer. *)

\* A frame is read and decrypted: an info response, or the peer's acceptance.
Receive(s) ==
  /\ At(s, "loop")
  /\ conn[s] = "open"
  /\ \E to \in {"infoGet", "grantRow"} : Goto(s, to)
  /\ UNCHANGED <<row, copy, others>>

\* handlePeerAccepted: the row, whatever it says, then the status of whatever session is
\* in the map.  It ends a reject too.
PeerAcceptedRow(s) ==
  /\ Step(s, "grantRow", "grantStat")
  /\ SetRow("accepted")
  /\ verdict' = "open"

AcceptSession(p, from, to) ==
  /\ Step(p, from, to)
  /\ stat' = IF reg = None THEN stat ELSE [stat EXCEPT ![reg] = "accepted"]
  /\ UNCHANGED <<row, reg, conn, copy, old, verdict>>

\* ReadMessage fails: because the connection is closed, or on the read deadline.
ReadFails(s) ==
  /\ Step(s, "loop", "unregister")
  /\ conn[s] = "closed"
  /\ UNCHANGED <<row, copy, others>>

ReadTimeout(s) ==
  /\ Step(s, "loop", "unregister")
  /\ conn[s] = "open"
  /\ UNCHANGED <<row, copy, others>>

\* Mutant: the entry stays in the map.
Unregister_Skipped(s) ==
  /\ Step(s, "unregister", "seenGet")
  /\ UNCHANGED <<row, copy, others>>

\* The deferred sessions.Delete: by the peer's key, whatever is stored there.
Unregister(s) ==
  /\ Step(s, "unregister", "seenGet")
  /\ reg' = None
  /\ UNCHANGED <<row, stat, conn, copy, old, verdict>>

CloseSelf(s) ==
  /\ Step(s, "closing", "done")
  /\ conn' = [conn EXCEPT ![s] = "closed"]
  /\ UNCHANGED <<row, reg, stat, copy, old, verdict>>

ReadLoop(s) ==
  \/ Get(s, "infoGet", "infoAdd") \/ Add(s, "infoAdd", "loop")
  \/ PeerAcceptedRow(s) \/ AcceptSession(s, "grantStat", "loop")
  \/ ReadFails(s) \/ Unregister(s)
  \/ Get(s, "seenGet", "seenAdd") \/ Add(s, "seenAdd", "closing")
  \/ CloseSelf(s)

\* The peer, the network or Shutdown closes the connection of s.
ConnDrops(s) ==
  /\ conn[s] = "open"
  /\ conn' = [conn EXCEPT ![s] = "closed"]
  /\ UNCHANGED <<row, reg, stat, pc, copy, old, verdict>>

--------------------------------------------------------------------------------
(* The admin requests. *)

\* updatePeerStatus finds no peer (404); the request goes on to the session.
NoPeer(p, to) ==
  /\ Step(p, "idle", to)
  /\ row = None
  /\ UNCHANGED <<row, copy, others>>

AcceptRow(a) ==
  /\ Step(a, "idle", "acceptStat")
  /\ row # None
  /\ SetRow("accepted")
  /\ verdict' = "open"

\* Some goroutine is setting a session up, taking one down or rewriting the row.  A dial
\* that has not looked the peer up will find it rejected.
Busy(q) == pc[q] \notin {"idle", "dialed", "loop", "done"}

\* The verdict is "clean" when the row is written while nobody else is busy.
RejectRow(r) ==
  /\ Step(r, "idle", "take")
  /\ row # None
  /\ SetRow("rejected")
  /\ verdict' = IF \E q \in Proc : Busy(q) THEN "raced" ELSE "clean"

\* LoadAndDelete: adminDeleteSession, and updateSessionStatus of a reject.
Take(p, from) ==
  /\ At(p, from)
  /\ Goto(p, IF reg = None THEN "done" ELSE "closeOld")
  /\ old' = [old EXCEPT ![p] = reg]
  /\ reg' = None
  /\ UNCHANGED <<row, stat, conn, copy, verdict>>

AcceptPeer(a) ==
  NoPeer(a, "acceptStat") \/ AcceptRow(a) \/ AcceptSession(a, "acceptStat", "done")

RejectPeer(r) ==
  NoPeer(r, "take") \/ RejectRow(r) \/ Take(r, "take") \/ CloseOld(r, "closeOld", "done")

DeleteSession(d) == Take(d, "idle") \/ CloseOld(d, "closeOld", "done")

SetNickname(n) ==
  NoPeer(n, "done") \/ Get(n, "idle", "nickAdd") \/ Add(n, "nickAdd", "done")

--------------------------------------------------------------------------------
Next ==
  \/ \E h \in Inbound : HandleWS(h)
  \/ \E o \in Outbound : Dial(o)
  \/ \E s \in Sess : Receive(s) \/ ReadTimeout(s) \/ ReadLoop(s) \/ ConnDrops(s)
  \/ \E a \in Accepts : AcceptPeer(a)
  \/ \E r \in Rejects : RejectPeer(r)
  \/ \E d \in Disconnects : DeleteSession(d)
  \/ \E n \in Nicknames : SetNickname(n)

Spec == Init /\ [][Next]_vars

(* A goroutine that has been started keeps running: its handshake has a deadline,  *)
(* its database calls return, and a read on a closed connection fails.  Nothing is *)
(* assumed of the peer, of the network or of the user.                            *)
Runs(s) ==
  /\ pc[s] # "idle"
  /\ (s \in Inbound /\ HandleWS(s)) \/ (s \in Outbound /\ Dial(s)) \/ ReadLoop(s)

FairSpec == Spec /\ \A s \in Sess : WF_vars(Runs(s))

--------------------------------------------------------------------------------
(* Properties *)

Label ==
  {"idle", "addPending", "check", "replace", "touchGet", "touchAdd", "closeOld",
   "handshake", "store", "nameGet", "nameAdd", "dialed", "addAccepted", "exists", "existsNew",
   "takeStatus", "takeStatusNew", "rename", "renameNew", "storeOut", "storeNew",
   "demote", "loop", "infoGet", "infoAdd", "grantRow", "grantStat", "unregister",
   "seenGet", "seenAdd", "closing", "acceptStat", "take", "nickAdd", "done"}

\* The values of the state.
TypeOK ==
  /\ row \in Status \cup {None}
  /\ reg \in Sess \cup {None}
  /\ stat \in [Sess -> Status \cup {None}]
  /\ conn \in [Sess -> {"none", "open", "closed"}]
  /\ pc \in [Proc -> Label]
  /\ copy \in [Proc -> Status \cup {None}]
  /\ old \in [Proc -> Sess \cup {None}]
  /\ verdict \in {"open", "clean", "raced"}

\* The goroutine of a session that is in the map: its sessions.Delete is ahead of it.
Serving ==
  {"nameGet", "nameAdd", "demote", "loop", "infoGet", "infoAdd", "grantRow",
   "grantStat", "unregister"}

\* No session is left in the map by a goroutine that will never remove it, whatever
\* the order of stores, replacements and deletes (readLoop's deferred Delete).
NoLeakedEntry == \A s \in Sess : reg = s => pc[s] \in Serving

\* A goroutine that has finished leaves no websocket open, on any of its error
\* paths (403 and 409 before the upgrade, a handshake that fails on either side,
\* errSessionExists, a read error, a session that another one replaced).
NoLeakedConn == \A s \in Sess : pc[s] = "done" => conn[s] # "open"

\* A reject that meets no goroutine in mid-course holds until the peer is accepted
\* again, by an admin or by its own peer_accepted: the row stays rejected through the
\* goroutines that rewrite it, no inbound session is in the map once the request is
\* over, and a session this client dials itself is a rejected one (adminRejectPeer,
\* handleWS, storeSession).
RejectHolds ==
  verdict = "clean" =>
    /\ row = "rejected"
    /\ (\A r \in Rejects : pc[r] # "take") =>
         reg \notin Inbound /\ (reg \in Outbound => stat[reg] = "rejected")

\* A session whose connection is closed does not stay in the map: its read loop
\* fails and deletes the entry, so that the peer's next connection is not refused
\* with 409 for ever (readLoop, handleWS).
EntryGoesAway == \A s \in Sess : (reg = s /\ conn[s] = "closed") ~> reg # s

--------------------------------------------------------------------------------
(* What the documentation says and the interleavings do not keep. *)

\* README: GET /admin/sessions lists the active sessions.  While the read loop of some
\* session serves an open connection that nobody is about to close, the peer has an
\* entry in the map.
ActiveSessionListed ==
  (\E s \in Sess : pc[s] = "loop" /\ conn[s] = "open" /\ \A p \in Proc : old[p] # s)
    => reg # None

\* README: PUT /admin/peers/{pubKey}/reject rejects the peer.  Until the peer is
\* accepted again, by an admin or by its own peer_accepted, its row says so.
RejectSticks == verdict # "open" => row = "rejected"

\* The log of adminRejectPeer: the peer is rejected and closed.  While its row says
\* rejected and no reject is under way, it has no inbound session.
RejectCloses ==
  row = "rejected" /\ (\A r \in Rejects : pc[r] # "take") => reg \notin Inbound
================================================================================
