------------------------------- MODULE ProfileSync -------------------------------
(* How a change of a client's profile (the owner's name and picture) reaches the row  *)
(* that a peer keeps of it: admin requests change the profile and announce it with    *)
(* info_changed, the peer asks with info_request, the owner's read loop answers with  *)
(* info_response, and the peer's read loop stores the picture and the row.  Requests  *)
(* and read loops are goroutines of their own and every database call is a step; the  *)
(* profile, the files, the row and the outbox are tables and survive restarts.        *)
(* Which session is in which map is the subject of PeerSessions; here there is one   *)
(* at a time.  Database calls succeed.                                                *)
EXTENDS Naturals, Sequences

CONSTANTS Requests,     \* PUT /admin/profile and DELETE /admin/profile/picture, at the owner
          Rewrites,     \* a nickname, an acceptance or the end of a session, at the peer
          MaxSessions,  \* bound: connections between the two
          MaxPics,      \* bound: pictures that the peer stores
          ClientName,   \* -client
          None

ASSUME ProfileAssumption ==
  /\ MaxSessions \in Nat /\ MaxPics \in Nat
  /\ None \notin Requests \cup {ClientName} /\ ClientName \notin Requests

Proc == Requests \cup Rewrites      \* one of both kinds is either
Name == Requests \cup {ClientName}   \* a name, or a picture, is called after the request
Pic  == Requests \cup {None}         \*   that it came with

VARIABLES
  profile,    \* the owner's [name, pic]; a picture is there only if it is in files
  files,
  row,        \* the peer's [name, pic] of the owner; pic is an id of stored, or 0
  stored,     \* the peer's files: [id, pic]
  fresh,      \* the last id that the peer has made
  link,       \* "down", "dialing" or "up"
  count,      \* number of connections so far
  known,      \* the peer has a row of the owner
  greeting,   \* the owner's name as newSession has taken it
  reg,        \* the owner's sessions map has an entry of the peer
  toPeer,     \* signals in flight to the peer
  asked,      \* number of info_requests in flight to the owner
  outbox,     \* number of info_changed in the owner's outbox
  pc,         \* pc[p]: where the request p is
  loc,        \* loc[p]: what it has read, and the picture it brings
  answer,     \* the owner's read loop: where it is, and what it has read
  reader,     \* the peer's read loop: where it is, the row and the response
  missed,     \* history: what of the last change was not announced, or lost on its way,
  stale,      \*   requests overlapped and one wrote back what another had replaced, or
              \*   a restart came after one had deleted the old picture,
  torn        \*   the same for the peer's row, or a restart of the peer within its update

owner   == <<profile, files>>
peer    == <<row, stored, fresh>>
session == <<link, count, known, greeting, reg>>
wire    == <<toPeer, asked, outbox>>
local   == <<pc, loc, answer, reader>>
history == <<missed, stale, torn>>
vars    == <<owner, peer, session, wire, local, history>>

Parts == {"name", "picture"}

Changed == [type |-> "info_changed", name |-> None, pic |-> None]
Response(name, pic) == [type |-> "info_response", name |-> name, pic |-> pic]

NoRow == [name |-> None, pic |-> 0]
Idle  == [at |-> "idle", name |-> None, pic |-> None]
Blank == [name |-> None, pic |-> None, new |-> None]
AtRest == [at |-> "idle", row |-> NoRow, got |-> Changed]

Init ==
  /\ profile = [name |-> ClientName, pic |-> None] /\ files = {}
  /\ row = NoRow /\ stored = {} /\ fresh = 0
  /\ link = "down" /\ count = 0 /\ known = FALSE /\ greeting = None /\ reg = FALSE
  /\ toPeer = <<>> /\ asked = 0 /\ outbox = 0
  /\ pc = [p \in Proc |-> "idle"]
  /\ loc = [p \in Proc |-> Blank]
  /\ answer = Idle /\ reader = AtRest
  /\ missed = {} /\ stale = FALSE /\ torn = FALSE

\* Not within a request.
Outside == {"idle", "add", "done"}

Changing == \E r \in Requests : pc[r] \notin Outside

Step(p, from, to) == pc[p] = from /\ pc' = [pc EXCEPT ![p] = to]

----------------------------------------------------------------------------------
(* adminUpdateProfile and adminDeleteProfilePic. *)

\* setName reads the picture ...
SetName(r) ==
  /\ Step(r, "idle", "rename")
  /\ loc' = [loc EXCEPT ![r].pic = profile.pic]
  /\ UNCHANGED <<owner, peer, session, wire, answer, reader, history>>

\* ... and writes it back with the new name; the form may hold a picture too.
WriteName(r) ==
  /\ \E to \in {"file", "tell"} : Step(r, "rename", to)
  /\ profile' = [name |-> r, pic |-> loc[r].pic]
  /\ stale' = (stale \/ profile.pic # loc[r].pic)
  /\ UNCHANGED <<files, peer, session, wire, loc, answer, reader, missed, torn>>

\* The old picture is looked up and the new one stored ...
PutPicture(r) ==
  /\ Step(r, "idle", "replace") \/ Step(r, "file", "replace")
  /\ loc' = [loc EXCEPT ![r].pic = profile.pic, ![r].new = r]
  /\ files' = files \cup {r}
  /\ UNCHANGED <<profile, peer, session, wire, answer, reader, history>>

\* ... or, to delete it, only looked up.
FindPicture(r) ==
  /\ Step(r, "idle", "replace")
  /\ loc' = [loc EXCEPT ![r].pic = profile.pic, ![r].new = None]
  /\ UNCHANGED <<owner, peer, session, wire, answer, reader, history>>

\* The old picture is deleted, and the name is read to be written back.
DeletePicture(r) ==
  /\ Step(r, "replace", "save")
  /\ files' = files \ {loc[r].pic}
  /\ loc' = [loc EXCEPT ![r].name = profile.name]
  /\ UNCHANGED <<profile, peer, session, wire, answer, reader, history>>

\* Mutant of SaveProfile: a deleted picture stays in the profile.
SaveProfile_Keeps(r) ==
  /\ Step(r, "save", "tell")
  /\ profile' = [name |-> loc[r].name, pic |-> IF loc[r].new = None THEN loc[r].pic ELSE loc[r].new]
  /\ stale' = (stale \/ profile # [name |-> loc[r].name, pic |-> loc[r].pic])
  /\ UNCHANGED <<files, peer, session, wire, loc, answer, reader, missed, torn>>

SaveProfile(r) ==
  /\ Step(r, "save", "tell")
  /\ profile' = [name |-> loc[r].name, pic |-> loc[r].new]
  /\ stale' = (stale \/ profile # [name |-> loc[r].name, pic |-> loc[r].pic])
  /\ UNCHANGED <<files, peer, session, wire, loc, answer, reader, missed, torn>>

\* broadcastInfoChanged: what cannot be sent on the session that there is goes to the
\* outbox; without a session nobody is told.
Tell(r) ==
  /\ Step(r, "tell", "done")
  /\ toPeer' = IF reg /\ link = "up" THEN Append(toPeer, Changed) ELSE toPeer
  /\ outbox' = IF reg /\ link # "up" THEN outbox + 1 ELSE outbox
  /\ missed' = IF reg THEN {} ELSE Parts
  /\ loc' = [loc EXCEPT ![r] = Blank]
  /\ UNCHANGED <<owner, peer, session, asked, answer, reader, stale, torn>>

UpdateProfile(r) ==
  \/ SetName(r) \/ WriteName(r) \/ PutPicture(r) \/ FindPicture(r) \/ DeletePicture(r)
  \/ SaveProfile(r) \/ Tell(r)

----------------------------------------------------------------------------------
(* handleInfoRequest, in the owner's read loop. *)

\* The rate limiter of the session drops a signal now and then.
LimitRequest ==
  /\ asked > 0 /\ answer.at = "idle"
  /\ asked' = asked - 1
  /\ missed' = Parts
  /\ UNCHANGED <<owner, peer, session, toPeer, outbox, local, stale, torn>>

TakeRequest ==
  /\ asked > 0 /\ answer.at = "idle"
  /\ asked' = asked - 1
  /\ answer' = [at |-> "load", name |-> profile.name, pic |-> profile.pic]
  /\ missed' = {}
  /\ UNCHANGED <<owner, peer, session, toPeer, outbox, pc, loc, reader, stale, torn>>

\* A picture that is not there is left out.
LoadPicture ==
  /\ answer.at = "load"
  /\ answer' = [answer EXCEPT !.at = "reply", !.pic = IF @ \in files THEN @ ELSE None]
  /\ UNCHANGED <<owner, peer, session, wire, pc, loc, reader, history>>

Reply ==
  /\ answer.at = "reply"
  /\ toPeer' = IF link = "up" THEN Append(toPeer, Response(answer.name, answer.pic)) ELSE toPeer
  /\ answer' = Idle
  /\ UNCHANGED <<owner, peer, session, asked, outbox, pc, loc, reader, history>>

HandleInfoRequest == TakeRequest \/ LoadPicture \/ Reply

----------------------------------------------------------------------------------
(* The peer's read loop: handleInfoChanged and handleInfoResponse. *)

First == Head(toPeer)
Waiting(type) == toPeer # <<>> /\ reader.at = "idle" /\ First.type = type

LimitSignal ==
  /\ toPeer # <<>> /\ reader.at = "idle"
  /\ toPeer' = Tail(toPeer)
  /\ missed' = Parts
  /\ UNCHANGED <<owner, peer, session, asked, outbox, local, stale, torn>>

\* Mutant of TakeChanged: a change is not asked about while a request is open.
TakeChanged_Once ==
  /\ Waiting("info_changed")
  /\ toPeer' = Tail(toPeer)
  /\ asked' = IF asked > 0 \/ answer.at # "idle" THEN asked ELSE 1
  /\ UNCHANGED <<owner, peer, session, outbox, local, history>>

\* requestPeerInfo.
TakeChanged ==
  /\ Waiting("info_changed")
  /\ toPeer' = Tail(toPeer)
  /\ asked' = asked + 1
  /\ UNCHANGED <<owner, peer, session, outbox, local, history>>

\* The whole row is read, to be written back later.
TakeResponse ==
  /\ Waiting("info_response")
  /\ toPeer' = Tail(toPeer)
  /\ reader' = [at |-> IF First.pic = None THEN "add" ELSE "put", row |-> row, got |-> First]
  /\ UNCHANGED <<owner, peer, session, asked, outbox, pc, loc, answer, history>>

\* A picture gets an id of its own each time.
StorePicture ==
  /\ reader.at = "put"
  /\ fresh < MaxPics
  /\ fresh' = fresh + 1
  /\ stored' = stored \cup {[id |-> fresh + 1, pic |-> reader.got.pic]}
  /\ reader' = [reader EXCEPT !.at = "delete"]
  /\ UNCHANGED <<owner, row, session, wire, pc, loc, answer, history>>

\* Mutant of DeleteOldPicture: it stays.
DeleteOldPicture_Stays ==
  /\ reader.at = "delete"
  /\ reader' = [reader EXCEPT !.at = "add", !.row.pic = fresh]
  /\ UNCHANGED <<owner, peer, session, wire, pc, loc, answer, history>>

\* The old picture goes before the row refers to the new one.
DeleteOldPicture ==
  /\ reader.at = "delete"
  /\ stored' = {f \in stored : f.id # reader.row.pic}
  /\ reader' = [reader EXCEPT !.at = "add", !.row.pic = fresh]
  /\ UNCHANGED <<owner, row, fresh, session, wire, pc, loc, answer, history>>

\* Mutant of AddRow: a name that is there is kept.
AddRow_Keeps ==
  /\ reader.at = "add"
  /\ row' = [reader.row EXCEPT !.name = IF @ = None THEN reader.got.name ELSE @]
  /\ reader' = AtRest
  /\ UNCHANGED <<owner, stored, fresh, session, wire, pc, loc, answer, history>>

AddRow ==
  /\ reader.at = "add"
  /\ row' = [reader.row EXCEPT !.name = reader.got.name]
  /\ reader' = AtRest
  /\ UNCHANGED <<owner, stored, fresh, session, wire, pc, loc, answer, history>>

HandleInfoResponse == TakeResponse \/ StorePicture \/ DeleteOldPicture \/ AddRow

\* adminSetNickname, handlePeerAccepted, updatePeerStatus and the end of a read loop
\* read the row and write it back with a column of their own changed.
ReadRow(n) ==
  /\ known
  /\ Step(n, "idle", "add")
  /\ loc' = [loc EXCEPT ![n].name = row.name, ![n].pic = row.pic]
  /\ UNCHANGED <<owner, peer, session, wire, answer, reader, history>>

WriteRow(n) ==
  /\ Step(n, "add", "done")
  /\ row' = [name |-> loc[n].name, pic |-> loc[n].pic]
  /\ torn' = (torn \/ row # row' \/ reader.at # "idle")
  /\ loc' = [loc EXCEPT ![n] = Blank]
  /\ UNCHANGED <<owner, stored, fresh, session, wire, answer, reader, missed, stale>>

RewriteRow(n) == ReadRow(n) \/ WriteRow(n)

----------------------------------------------------------------------------------
(* Sessions and restarts. *)

\* newSession takes the name before the handshake ...
Dial ==
  /\ link = "down" /\ ~reg
  /\ count < MaxSessions
  /\ link' = "dialing" /\ count' = count + 1 /\ greeting' = profile.name
  /\ missed' = missed \ {"name"}
  /\ UNCHANGED <<owner, peer, known, reg, wire, local, stale, torn>>

DialFails ==
  /\ link = "dialing"
  /\ link' = "down" /\ greeting' = None
  /\ UNCHANGED <<owner, peer, count, known, reg, wire, local, history>>

\* flushOutbox at the start of a session, which sends only if the session is accepted.
FlushOutbox ==
  \/ toPeer' = [i \in 1 .. outbox |-> Changed] /\ outbox' = 0
  \/ toPeer' = <<>> /\ UNCHANGED outbox

\* Mutant of Ready: nobody asks.
Ready_Silent ==
  /\ link = "dialing" /\ reader.at = "idle"
  /\ link' = "up" /\ reg' = TRUE /\ known' = TRUE /\ greeting' = None
  /\ row' = [row EXCEPT !.name = greeting]
  /\ FlushOutbox
  /\ asked' = 0
  /\ missed' = IF known THEN missed ELSE {}
  /\ UNCHANGED <<owner, stored, fresh, count, local, stale, torn>>

\* ... and the peer stores the name that the handshake brought; the owner's outbox is
\* flushed, and a peer to whom the owner is new or still pending asks for the rest.
Ready ==
  /\ link = "dialing" /\ reader.at = "idle"
  /\ link' = "up" /\ reg' = TRUE /\ known' = TRUE /\ greeting' = None
  /\ row' = [row EXCEPT !.name = greeting]
  /\ FlushOutbox
  /\ asked' \in {1} \cup (IF known THEN {0} ELSE {})
  /\ missed' = IF known THEN missed ELSE {}
  /\ UNCHANGED <<owner, stored, fresh, count, local, stale, torn>>

\* flushOutbox for an admin, on a session that has been accepted: entry by entry.
FlushEntry ==
  /\ link = "up" /\ reg /\ outbox > 0
  /\ toPeer' = Append(toPeer, Changed) /\ outbox' = outbox - 1
  /\ UNCHANGED <<owner, peer, session, asked, local, history>>

\* The connection is lost with what is in flight on it, or under way to it.
Lost == IF toPeer # <<>> \/ asked > 0 \/ answer.at # "idle" THEN Parts ELSE {}

Drop ==
  /\ link = "up"
  /\ link' = "down" /\ toPeer' = <<>> /\ asked' = 0
  /\ missed' = missed \cup Lost
  /\ UNCHANGED <<owner, peer, count, known, greeting, reg, outbox, local, stale, torn>>

\* The owner's read loop returns.
Unregister ==
  /\ link = "down" /\ reg /\ answer.at = "idle"
  /\ reg' = FALSE
  /\ UNCHANGED <<owner, peer, link, count, known, greeting, wire, local, history>>

OwnerStops ==
  /\ link' = "down" /\ greeting' = None /\ reg' = FALSE
  /\ toPeer' = <<>> /\ asked' = 0 /\ answer' = Idle
  /\ pc' = [p \in Proc |-> IF pc[p] \in {"idle", "add"} THEN pc[p] ELSE "done"]
  /\ loc' = [p \in Proc |-> IF pc[p] = "add" THEN loc[p] ELSE Blank]
  /\ UNCHANGED <<files, peer, count, known, outbox, reader, torn>>

\* New writes the name of the command line and no picture into the profile ...
RestartOwner ==
  /\ OwnerStops
  /\ profile' = [name |-> ClientName, pic |-> None]
  /\ missed' = missed \cup Lost
  /\ UNCHANGED stale

\* ... unless the command line has an empty name: what requests have written by now stays.
RestartUnnamed ==
  /\ OwnerStops
  /\ UNCHANGED profile
  /\ missed' = missed \cup Lost \cup (IF Changing THEN Parts ELSE {})
  /\ stale' = (stale \/ \E r \in Requests : pc[r] = "save")

RestartPeer ==
  /\ link' = "down" /\ greeting' = None
  /\ toPeer' = <<>> /\ asked' = 0 /\ reader' = AtRest
  /\ pc' = [p \in Proc |-> IF pc[p] = "add" THEN "done" ELSE pc[p]]
  /\ missed' = missed \cup Lost \cup (IF reader.at # "idle" THEN Parts ELSE {})
  /\ torn' = (torn \/ reader.at = "delete" \/ (reader.at = "add" /\ reader.got.pic # None))
  /\ UNCHANGED <<owner, peer, count, known, reg, outbox, loc, answer, stale>>

Next ==
  \/ \E r \in Requests : UpdateProfile(r)
  \/ \E n \in Rewrites : RewriteRow(n)
  \/ HandleInfoRequest \/ LimitRequest
  \/ TakeChanged \/ HandleInfoResponse \/ LimitSignal
  \/ Dial \/ DialFails \/ Ready \/ FlushEntry \/ Drop \/ Unregister
  \/ RestartOwner \/ RestartUnnamed \/ RestartPeer

Spec == Init /\ [][Next]_vars

(* Requests that have begun and read loops go on: database calls return, writes have *)
(* a deadline, and what is in flight on a connection that stays up arrives.          *)
FairSpec ==
  /\ Spec
  /\ WF_vars(HandleInfoRequest) /\ WF_vars(TakeChanged \/ HandleInfoResponse)
  /\ \A r \in Requests : WF_vars(pc[r] # "idle" /\ UpdateProfile(r))

----------------------------------------------------------------------------------
(* Properties *)

\* The values of the state.
TypeOK ==
  /\ profile \in [name : Name, pic : Pic] /\ files \subseteq Requests
  /\ row \in [name : Name \cup {None}, pic : 0 .. MaxPics]
  /\ stored \subseteq [id : 1 .. MaxPics, pic : Requests] /\ fresh \in 0 .. MaxPics
  /\ link \in {"down", "dialing", "up"} /\ count \in 0 .. MaxSessions
  /\ (known <=> row.name # None) /\ (link = "up" => known /\ reg)
  /\ link # "up" => toPeer = <<>> /\ asked = 0

\* Nothing is being changed, asked, answered or stored.
Quiet ==
  /\ link = "up" /\ toPeer = <<>> /\ asked = 0 /\ outbox = 0
  /\ answer.at = "idle" /\ reader.at = "idle"
  /\ ~Changing

\* However requests, answers and reconnections interleave, the peer ends up with the
\* owner's name: unless the last change found no session to be announced on, a signal
\* was lost or dropped, or the peer's row was overwritten from an older copy.
NameArrives == Quiet /\ "name" \notin missed /\ ~torn => row.name = profile.name

\* The same for the picture, as long as the owner has one: the peer keeps its copy of
\* a picture that was deleted.
PictureArrives ==
  Quiet /\ "picture" \notin missed /\ ~torn /\ profile.pic \in files
    => \E f \in stored : f.id = row.pic /\ f.pic = profile.pic

\* A picture that a row refers to is there, and one that is there is referred to,
\* between two updates of the row, unless a copy of the row was written back late or
\* the peer restarted after it had deleted the old picture.
OnePicture ==
  reader.at = "idle" /\ ~torn => {f.id : f \in stored} = {row.pic} \ {0}

\* The owner's picture is there, at rest, unless requests overlapped, or a restart that
\* leaves the profile alone came between the deletion of the old picture and the save.
OwnPicture == ~Changing /\ ~stale => profile.pic \in files \cup {None}

\* A change that is about to be announced on a session that stays up reaches the peer.
ChangeArrives ==
  \A r \in Requests :
    (pc[r] = "tell" /\ link = "up") ~> (row.name = profile.name \/ link # "up" \/ "name" \in missed \/ torn)
==================================================================================
