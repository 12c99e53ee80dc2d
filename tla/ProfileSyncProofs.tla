----------------------------- MODULE ProfileSyncProofs ----------------------------
(* Proofs about ProfileSync, for every set of requests and of rewrites of the row,    *)
(* any number of sessions and of pictures.                                           *)
EXTENDS ProfileSync, TLAPS

\* Most leaves are propositional or about sets: Zenon first, which is the faster one there.
USE ZenonT(1), SMTT(30)

----------------------------------------------------------------------------------
(* The inductive invariant. *)

Row      == [name : Name \cup {None}, pic : 0 .. MaxPics]
Answers  == [type : {"info_response"}, name : Name, pic : Pic]
Signals  == {Changed} \cup Answers
Labels   == {"idle", "rename", "file", "replace", "save", "tell", "add", "done"}
Locals   == [name : Name \cup {None}, pic : Pic \cup 0 .. MaxPics, new : Pic]

\* The values of the variables that TypeOK says nothing of.
ValuesInv ==
  /\ known \in BOOLEAN /\ reg \in BOOLEAN /\ stale \in BOOLEAN /\ torn \in BOOLEAN
  /\ missed \subseteq Parts
  /\ greeting \in Name \cup {None}
  /\ toPeer \in Seq(Signals) /\ asked \in Nat /\ outbox \in Nat
  /\ pc \in [Proc -> Labels] /\ loc \in [Proc -> Locals]
  /\ answer \in [at : {"idle", "load", "reply"}, name : Name \cup {None}, pic : Pic]
  /\ reader \in [at : {"idle", "put", "delete", "add"}, row : Row, got : Signals]

\* What requests and read loops hold where they are.
PlacesInv ==
  /\ \A r \in Proc : /\ pc[r] \in {"rename", "replace", "save"} => loc[r].pic \in Pic
                     /\ pc[r] = "save" => loc[r].name \in Name
                     /\ pc[r] = "add" => known /\ loc[r].name \in Name /\ loc[r].pic \in 0 .. fresh
  /\ answer.at # "idle" => answer.name \in Name
  /\ reader.at # "idle" => reader.got \in Answers /\ known
  /\ reader.at \in {"put", "delete"} => reader.got.pic # None
  /\ link = "dialing" => greeting \in Name /\ ~reg
  /\ ~reg => answer.at = "idle"

\* Nothing refers to a picture that the peer has not stored yet.
FreshInv ==
  /\ row.pic <= fresh /\ reader.row.pic <= fresh
  /\ \A f \in stored : f.id <= fresh

TypeInv == TypeOK /\ ValuesInv /\ PlacesInv /\ FreshInv

\* Before a request has written its picture into the profile, nobody else can have it.
Unsaved(r) == pc[r] \in {"idle", "add", "rename", "file", "replace", "save"}

\* A request that brings a picture has stored it, and nobody deletes it before it is in
\* the profile.
UnsavedInv ==
  /\ \A r \in Requests : pc[r] \in {"replace", "save"} => loc[r].new \in {r, None} /\ loc[r].new \in files \cup {None}
  /\ \A r \in Requests : Unsaved(r) =>
       /\ profile.pic # r
       /\ \A q \in Requests : pc[q] \in {"rename", "replace", "save"} => loc[q].pic # r

\* The picture of the profile is missing only between its deletion and the save.
OwnInv ==
  ~stale => \/ profile.pic \in files \cup {None}
            \/ \E r \in Requests : pc[r] = "save" /\ loc[r].pic = profile.pic

Ids == {f.id : f \in stored}

\* While the peer's read loop replaces a picture the new one is there too, and after it
\* has deleted the old one only the new one is.
OneInv ==
  ~torn =>
    /\ reader.at \in {"idle", "put"} \/ (reader.at = "add" /\ reader.got.pic = None)
         => Ids = {row.pic} \ {0}
    /\ reader.at \in {"put", "delete"} \/ (reader.at = "add" /\ reader.got.pic = None)
         => reader.row.pic = row.pic
    /\ reader.at = "delete" => Ids = ({row.pic} \ {0}) \cup {fresh}
    /\ reader.at = "add" /\ reader.got.pic # None => Ids = {fresh}

\* The picture that is being stored gets an id that nothing refers to.
NewInv ==
  /\ reader.at = "delete" => reader.row.pic < fresh
  /\ reader.at = "add" /\ reader.got.pic # None => reader.row.pic = fresh /\ fresh > 0
  /\ reader.at = "delete" \/ (reader.at = "add" /\ reader.got.pic # None)
       => [id |-> fresh, pic |-> reader.got.pic] \in stored

\* Something is under way that makes the peer ask, or the owner answer, once more.
Asking ==
  \/ outbox > 0 \/ asked > 0
  \/ \E i \in 1 .. Len(toPeer) : toPeer[i].type = "info_changed"
  \/ \E r \in Requests : pc[r] \notin Outside

\* The name that the row will have when all that is under way has arrived.
FinalName ==
  IF answer.at # "idle" THEN answer.name
  ELSE IF toPeer # <<>> THEN toPeer[Len(toPeer)].name
  ELSE IF reader.at # "idle" THEN reader.got.name
  ELSE row.name

\* If nobody will ask again, the last answer under way has the name of the profile; and a
\* session that is being made brings it.
NameInv ==
  /\ link = "up" /\ "name" \notin missed /\ ~torn /\ ~Asking => FinalName = profile.name
  /\ link = "dialing" /\ "name" \notin missed /\ (\A r \in Requests : pc[r] \in Outside)
       => greeting = profile.name

\* The same for a picture.
FinalPicture(pic) ==
  IF answer.at # "idle" THEN answer.pic = pic
  ELSE IF toPeer # <<>> THEN toPeer[Len(toPeer)].pic = pic
  ELSE IF reader.at # "idle" THEN reader.got.pic = pic
  ELSE \E f \in stored : f.id = row.pic /\ f.pic = pic

\* If nobody will ask again, with or without a session, the last answer under way has the
\* picture of the profile; an answer that has lost its session is made up for.
PictureInv ==
  /\ "picture" \notin missed /\ ~torn /\ profile.pic \in files /\ ~Asking => FinalPicture(profile.pic)
  /\ link # "up" /\ answer.at # "idle" => "picture" \in missed \/ outbox > 0

----------------------------------------------------------------------------------
(* Lemmas about the values. *)

LEMMA SignalFacts ==
  /\ Changed \in Signals /\ Changed \notin Answers /\ Changed.type = "info_changed"
  /\ \A s \in Signals : /\ s.type \in {"info_changed", "info_response"}
                        /\ s.type = "info_response" <=> s \in Answers
                        /\ s.pic \in Pic
  /\ \A s \in Answers : s.name \in Name /\ s.pic \in Pic
  /\ \A n \in Name, p \in Pic : /\ Response(n, p) \in Answers
                                /\ Response(n, p).name = n /\ Response(n, p).pic = p
  BY DEF Signals, Answers, Changed, Response, Name, Pic

\* The first of the signals in flight is taken, or one more is sent.
LEMMA FlightFacts ==
  ASSUME NEW q \in Seq(Signals)
  PROVE  /\ Len(q) \in Nat
         /\ q # <<>> => /\ Head(q) \in Signals /\ Head(q) = q[1] /\ 1 \in 1 .. Len(q)
                        /\ Tail(q) \in Seq(Signals) /\ Len(Tail(q)) = Len(q) - 1
                        /\ \A i \in 1 .. Len(Tail(q)) : i + 1 \in 1 .. Len(q) /\ Tail(q)[i] = q[i + 1]
         /\ \A s \in Signals : /\ Append(q, s) \in Seq(Signals) /\ Append(q, s) # <<>>
                               /\ Len(Append(q, s)) = Len(q) + 1
                               /\ Append(q, s)[Len(q) + 1] = s
                               /\ \A i \in 1 .. Len(q) : Append(q, s)[i] = q[i]
  OBVIOUS

LEMMA FlushFacts ==
  ASSUME NEW n \in Nat
  PROVE  /\ [i \in 1 .. n |-> Changed] \in Seq(Signals)
         /\ Len([i \in 1 .. n |-> Changed]) = n
         /\ n = 0 => [i \in 1 .. n |-> Changed] = <<>>
  BY SignalFacts

\* The names and the pictures.
LEMMA ValueFacts ==
  /\ None \notin Name /\ ClientName \in Name /\ None \in Pic
  /\ \A r \in Requests : r \in Name /\ r \in Pic /\ r \in Proc /\ r # None
  /\ \A r \in Rewrites : r \in Proc
  /\ Blank \in Locals /\ NoRow \in Row /\ Blank.pic \in Pic
  /\ Idle.at = "idle" /\ AtRest.at = "idle" /\ AtRest.row.pic = 0
  /\ Idle \in [at : {"idle", "load", "reply"}, name : Name \cup {None}, pic : Pic]
  /\ AtRest \in [at : {"idle", "put", "delete", "add"}, row : Row, got : Signals]
<1> USE ProfileAssumption
<1>1. /\ None \notin Name /\ ClientName \in Name /\ None \in Pic
      /\ \A r \in Requests : r \in Name /\ r \in Pic /\ r \in Proc /\ r # None
      /\ \A r \in Rewrites : r \in Proc
  BY DEF Name, Pic, Proc
<1>2. /\ Blank \in Locals /\ NoRow \in Row /\ Blank.pic \in Pic
      /\ Idle.at = "idle" /\ AtRest.at = "idle" /\ AtRest.row.pic = 0
  BY <1>1 DEF Blank, Locals, NoRow, Row, Idle, AtRest
<1>3. Idle \in [at : {"idle", "load", "reply"}, name : Name \cup {None}, pic : Pic]
  BY <1>1 DEF Idle
<1>4. AtRest \in [at : {"idle", "put", "delete", "add"}, row : Row, got : Signals]
  BY <1>2, SignalFacts DEF AtRest
<1> QED
  BY <1>1, <1>2, <1>3, <1>4

LEMMA InitTypeInv == Init => TypeInv
<1> SUFFICES ASSUME Init PROVE TypeInv
  OBVIOUS
<1> USE ValueFacts, SignalFacts, ProfileAssumption DEF Init
<1>1. TypeOK
  BY DEF TypeOK, NoRow
<1>2. ValuesInv
  <2>1. known \in BOOLEAN /\ reg \in BOOLEAN /\ stale \in BOOLEAN /\ torn \in BOOLEAN
    BY ZenonT(30)
  <2>2. missed \subseteq Parts /\ greeting \in Name \cup {None}
    OBVIOUS
  <2>3. toPeer \in Seq(Signals) /\ asked \in Nat /\ outbox \in Nat
    OBVIOUS
  <2>4. pc \in [Proc -> Labels] /\ loc \in [Proc -> Locals]
    BY DEF Labels
  <2> QED
    BY <2>1, <2>2, <2>3, <2>4 DEF ValuesInv
<1>3. PlacesInv /\ FreshInv
  BY DEF PlacesInv, FreshInv, NoRow
<1> QED
  BY <1>1, <1>2, <1>3 DEF TypeInv

\* A request that has read something, or stored, puts it into its own variables.
LEMMA LocalUpdates ==
  ASSUME NEW l \in [Proc -> Locals], NEW r \in Proc
  PROVE  /\ \A p \in Pic \cup 0 .. MaxPics : [l EXCEPT ![r].pic = p] \in [Proc -> Locals]
         /\ \A n \in Name \cup {None} : [l EXCEPT ![r].name = n] \in [Proc -> Locals]
         /\ \A n \in Name \cup {None}, p \in Pic \cup 0 .. MaxPics :
              [l EXCEPT ![r].name = n, ![r].pic = p] \in [Proc -> Locals]
         /\ \A p \in Pic \cup 0 .. MaxPics, w \in Pic :
              [l EXCEPT ![r].pic = p, ![r].new = w] \in [Proc -> Locals]
  BY ZenonT(30) DEF Locals

\* Each action keeps the types.
LEMMA NextTypeInv == TypeInv /\ [Next]_vars => TypeInv'
<1> SUFFICES ASSUME TypeInv, [Next]_vars PROVE TypeInv'
  OBVIOUS
<1> USE ValueFacts, SignalFacts, ProfileAssumption
    DEF TypeInv, owner, peer, session, wire, local, history
<1>1. ASSUME NEW r \in Requests, SetName(r) PROVE TypeInv'
  <2>1. TypeOK'
    BY <1>1 DEF SetName, Step, TypeOK
  <2>2. ValuesInv'
    BY <1>1, LocalUpdates, ZenonT(30) DEF SetName, Step, ValuesInv, TypeOK, Labels
  <2>3. PlacesInv'
    BY <1>1 DEF SetName, Step, PlacesInv, TypeOK, ValuesInv
  <2>4. FreshInv'
    BY <1>1 DEF SetName, Step, FreshInv, TypeOK
  <2> QED
    BY <2>1, <2>2, <2>3, <2>4
<1>2. ASSUME NEW r \in Requests, WriteName(r) PROVE TypeInv'
  <2>1. TypeOK'
    BY <1>2 DEF WriteName, Step, TypeOK, ValuesInv, PlacesInv
  <2>2. ValuesInv'
    BY <1>2 DEF WriteName, Step, ValuesInv, Labels
  <2>3. PlacesInv'
    BY <1>2 DEF WriteName, Step, PlacesInv, TypeOK, ValuesInv
  <2>4. FreshInv'
    BY <1>2 DEF WriteName, Step, FreshInv, TypeOK
  <2> QED
    BY <2>1, <2>2, <2>3, <2>4
<1>3. ASSUME NEW r \in Requests, PutPicture(r) PROVE TypeInv'
  <2>1. TypeOK'
    BY <1>3 DEF PutPicture, Step, TypeOK
  <2>2. ValuesInv'
    <3>1. loc \in [Proc -> Locals] /\ r \in Proc /\ profile.pic \in Pic \cup 0 .. MaxPics
      BY DEF ValuesInv, TypeOK
    <3>2. loc' \in [Proc -> Locals]
      BY <1>3, <3>1, LocalUpdates, ZenonT(60) DEF PutPicture
    <3> QED
      BY <1>3, <3>2 DEF PutPicture, Step, ValuesInv, Labels
  <2>3. PlacesInv'
    BY <1>3 DEF PutPicture, Step, PlacesInv, TypeOK, ValuesInv
  <2>4. FreshInv'
    BY <1>3 DEF PutPicture, Step, FreshInv, TypeOK
  <2> QED
    BY <2>1, <2>2, <2>3, <2>4
<1>4. ASSUME NEW r \in Requests, FindPicture(r) PROVE TypeInv'
  <2>1. TypeOK'
    BY <1>4 DEF FindPicture, Step, TypeOK
  <2>2. ValuesInv'
    <3>1. loc \in [Proc -> Locals] /\ r \in Proc /\ profile.pic \in Pic \cup 0 .. MaxPics
      BY DEF ValuesInv, TypeOK
    <3>2. loc' \in [Proc -> Locals]
      BY <1>4, <3>1, LocalUpdates, ZenonT(60) DEF FindPicture
    <3> QED
      BY <1>4, <3>2 DEF FindPicture, Step, ValuesInv, Labels
  <2>3. PlacesInv'
    BY <1>4 DEF FindPicture, Step, PlacesInv, TypeOK, ValuesInv
  <2>4. FreshInv'
    BY <1>4 DEF FindPicture, Step, FreshInv, TypeOK
  <2> QED
    BY <2>1, <2>2, <2>3, <2>4
<1>5. ASSUME NEW r \in Requests, DeletePicture(r) PROVE TypeInv'
  <2>1. TypeOK'
    BY <1>5 DEF DeletePicture, Step, TypeOK
  <2>2. ValuesInv'
    BY <1>5, LocalUpdates, ZenonT(30) DEF DeletePicture, Step, ValuesInv, TypeOK, Labels
  <2>3. PlacesInv'
    BY <1>5 DEF DeletePicture, Step, PlacesInv, TypeOK, ValuesInv
  <2>4. FreshInv'
    BY <1>5 DEF DeletePicture, Step, FreshInv, TypeOK
  <2> QED
    BY <2>1, <2>2, <2>3, <2>4
<1>6. ASSUME NEW r \in Requests, SaveProfile(r) PROVE TypeInv'
  <2>1. TypeOK'
    BY <1>6 DEF SaveProfile, Step, TypeOK, ValuesInv, PlacesInv, Locals
  <2>2. ValuesInv'
    BY <1>6 DEF SaveProfile, Step, ValuesInv, Labels
  <2>3. PlacesInv'
    BY <1>6 DEF SaveProfile, Step, PlacesInv, TypeOK, ValuesInv
  <2>4. FreshInv'
    BY <1>6 DEF SaveProfile, Step, FreshInv, TypeOK
  <2> QED
    BY <2>1, <2>2, <2>3, <2>4
<1>7. ASSUME NEW r \in Requests, Tell(r) PROVE TypeInv'
  <2>1. TypeOK'
    BY <1>7, FlightFacts DEF Tell, Step, TypeOK, ValuesInv
  <2>2. ValuesInv'
    BY <1>7, FlightFacts DEF Tell, Step, ValuesInv, Labels
  <2>3. PlacesInv'
    BY <1>7, FlightFacts DEF Tell, Step, PlacesInv, TypeOK, ValuesInv
  <2>4. FreshInv'
    BY <1>7, FlightFacts DEF Tell, Step, FreshInv, TypeOK
  <2> QED
    BY <2>1, <2>2, <2>3, <2>4
<1>8. ASSUME NEW n \in Rewrites, ReadRow(n) PROVE TypeInv'
  <2>1. TypeOK'
    BY <1>8 DEF ReadRow, Step, TypeOK
  <2>2. ValuesInv'
    <3>1. /\ loc \in [Proc -> Locals] /\ n \in Proc
          /\ row.name \in Name \cup {None} /\ row.pic \in Pic \cup 0 .. MaxPics
      BY DEF TypeOK, ValuesInv
    <3>2. loc' \in [Proc -> Locals]
      BY <1>8, <3>1, LocalUpdates, ZenonT(60) DEF ReadRow
    <3> QED
      BY <1>8, <3>2 DEF ReadRow, Step, ValuesInv, Labels
  <2>3. PlacesInv'
    <3>1. row.name \in Name /\ row.pic \in 0 .. fresh
      BY <1>8 DEF ReadRow, TypeOK, FreshInv
    <3>2. /\ pc' = [pc EXCEPT ![n] = "add"] /\ n \in Proc /\ known
          /\ loc' = [loc EXCEPT ![n].name = row.name, ![n].pic = row.pic]
          /\ UNCHANGED <<session, fresh, answer, reader>>
      BY <1>8 DEF ReadRow, Step
    <3>3. loc'[n].name = row.name /\ loc'[n].pic = row.pic /\ pc'[n] = "add"
      BY <3>2 DEF ValuesInv, Locals
    <3>4. \A r \in Proc : r # n => loc'[r] = loc[r] /\ pc'[r] = pc[r]
      BY <3>2 DEF ValuesInv
    <3> QED
      BY <3>1, <3>2, <3>3, <3>4, ZenonT(60) DEF PlacesInv
  <2>4. FreshInv'
    BY <1>8 DEF ReadRow, Step, FreshInv, TypeOK
  <2> QED
    BY <2>1, <2>2, <2>3, <2>4
<1>9. ASSUME NEW n \in Rewrites, WriteRow(n) PROVE TypeInv'
  <2>1. TypeOK'
    <3>1. known /\ loc[n].name \in Name /\ loc[n].pic \in 0 .. MaxPics
      BY <1>9 DEF WriteRow, Step, PlacesInv, TypeOK
    <3>2. row' \in [name : Name \cup {None}, pic : 0 .. MaxPics] /\ row'.name # None
      BY <1>9, <3>1 DEF WriteRow
    <3> QED
      BY <1>9, <3>1, <3>2 DEF WriteRow, TypeOK
  <2>2. ValuesInv'
    BY <1>9 DEF WriteRow, Step, ValuesInv, Labels
  <2>3. PlacesInv'
    BY <1>9 DEF WriteRow, Step, PlacesInv, TypeOK, ValuesInv
  <2>4. FreshInv'
    <3>1. row'.pic \in 0 .. fresh
      BY <1>9 DEF WriteRow, Step, PlacesInv
    <3> QED
      BY <1>9, <3>1 DEF WriteRow, FreshInv, TypeOK
  <2> QED
    BY <2>1, <2>2, <2>3, <2>4
<1>10. ASSUME LimitRequest PROVE TypeInv'
  <2>1. TypeOK'
    BY <1>10 DEF LimitRequest, TypeOK, ValuesInv
  <2>2. ValuesInv'
    BY <1>10 DEF LimitRequest, ValuesInv
  <2>3. PlacesInv'
    BY <1>10 DEF LimitRequest, PlacesInv, TypeOK, ValuesInv
  <2>4. FreshInv'
    BY <1>10 DEF LimitRequest, FreshInv, TypeOK
  <2> QED
    BY <2>1, <2>2, <2>3, <2>4
<1>11. ASSUME TakeRequest PROVE TypeInv'
  <2>1. TypeOK'
    BY <1>11 DEF TakeRequest, TypeOK, ValuesInv
  <2>2. ValuesInv'
    BY <1>11 DEF TakeRequest, ValuesInv, TypeOK
  <2>3. PlacesInv'
    BY <1>11 DEF TakeRequest, PlacesInv, TypeOK, ValuesInv
  <2>4. FreshInv'
    BY <1>11 DEF TakeRequest, FreshInv, TypeOK
  <2> QED
    BY <2>1, <2>2, <2>3, <2>4
<1>12. ASSUME LoadPicture PROVE TypeInv'
  <2>1. TypeOK'
    BY <1>12 DEF LoadPicture, TypeOK
  <2>2. ValuesInv'
    BY <1>12, ZenonT(30) DEF LoadPicture, ValuesInv
  <2>3. PlacesInv'
    BY <1>12 DEF LoadPicture, PlacesInv, TypeOK, ValuesInv
  <2>4. FreshInv'
    BY <1>12 DEF LoadPicture, FreshInv, TypeOK
  <2> QED
    BY <2>1, <2>2, <2>3, <2>4
<1>13. ASSUME Reply PROVE TypeInv'
  <2>1. TypeOK'
    BY <1>13, FlightFacts DEF Reply, TypeOK, ValuesInv
  <2>2. ValuesInv'
    BY <1>13, FlightFacts DEF Reply, ValuesInv, PlacesInv, Signals
  <2>3. PlacesInv'
    BY <1>13, FlightFacts DEF Reply, PlacesInv, TypeOK, ValuesInv
  <2>4. FreshInv'
    BY <1>13, FlightFacts DEF Reply, FreshInv, TypeOK
  <2> QED
    BY <2>1, <2>2, <2>3, <2>4
<1>14. ASSUME LimitSignal PROVE TypeInv'
  <2>1. TypeOK'
    BY <1>14, FlightFacts DEF LimitSignal, TypeOK, ValuesInv
  <2>2. ValuesInv'
    BY <1>14, FlightFacts DEF LimitSignal, ValuesInv
  <2>3. PlacesInv'
    BY <1>14, FlightFacts DEF LimitSignal, PlacesInv, TypeOK, ValuesInv
  <2>4. FreshInv'
    BY <1>14, FlightFacts DEF LimitSignal, FreshInv, TypeOK
  <2> QED
    BY <2>1, <2>2, <2>3, <2>4
<1>15. ASSUME TakeChanged PROVE TypeInv'
  <2>1. TypeOK'
    BY <1>15, FlightFacts DEF TakeChanged, Waiting, First, TypeOK, ValuesInv
  <2>2. ValuesInv'
    BY <1>15, FlightFacts DEF TakeChanged, Waiting, First, ValuesInv
  <2>3. PlacesInv'
    BY <1>15, FlightFacts DEF TakeChanged, Waiting, First, PlacesInv, TypeOK, ValuesInv
  <2>4. FreshInv'
    BY <1>15, FlightFacts DEF TakeChanged, Waiting, First, FreshInv, TypeOK
  <2> QED
    BY <2>1, <2>2, <2>3, <2>4
<1>16. ASSUME TakeResponse PROVE TypeInv'
  <2>1. TypeOK'
    BY <1>16, FlightFacts DEF TakeResponse, Waiting, First, TypeOK, ValuesInv
  <2>2. ValuesInv'
    <3>1. First \in Signals /\ Tail(toPeer) \in Seq(Signals)
      BY <1>16, FlightFacts DEF TakeResponse, Waiting, First, ValuesInv
    <3>2. row \in Row
      BY DEF TypeOK, Row
    <3>3. reader' \in [at : {"idle", "put", "delete", "add"}, row : Row, got : Signals]
      BY <1>16, <3>1, <3>2 DEF TakeResponse
    <3> QED
      BY <1>16, <3>1, <3>3 DEF TakeResponse, ValuesInv
  <2>3. PlacesInv'
    <3>1. First \in Answers /\ link = "up"
      BY <1>16, FlightFacts DEF TakeResponse, Waiting, First, ValuesInv, TypeOK
    <3>2. /\ reader'.at \in {"add", "put"} /\ reader'.got = First
          /\ reader'.at = "put" => First.pic # None
      BY <1>16 DEF TakeResponse
    <3> QED
      BY <1>16, <3>1, <3>2 DEF TakeResponse, PlacesInv, TypeOK
  <2>4. FreshInv'
    BY <1>16, FlightFacts DEF TakeResponse, Waiting, First, FreshInv, TypeOK
  <2> QED
    BY <2>1, <2>2, <2>3, <2>4
<1>17. ASSUME StorePicture PROVE TypeInv'
  <2>1. TypeOK'
    <3>1. fresh + 1 \in 1 .. MaxPics /\ reader.got.pic \in Requests
      BY <1>17 DEF StorePicture, TypeOK, PlacesInv, Pic
    <3> QED
      BY <1>17, <3>1 DEF StorePicture, TypeOK
  <2>2. ValuesInv'
    BY <1>17 DEF StorePicture, ValuesInv
  <2>3. PlacesInv'
    BY <1>17 DEF StorePicture, PlacesInv, TypeOK, ValuesInv
  <2>4. FreshInv'
    <3>1. /\ fresh \in Nat /\ fresh' = fresh + 1 /\ row' = row /\ row.pic \in Nat
          /\ stored' = stored \cup {[id |-> fresh + 1, pic |-> reader.got.pic]}
          /\ \A f \in stored : f.id \in Nat
      BY <1>17 DEF StorePicture, TypeOK
    <3>2. reader'.row = reader.row /\ reader.row.pic \in Nat
      BY <1>17 DEF StorePicture, ValuesInv, Row
    <3>3. row'.pic <= fresh' /\ reader'.row.pic <= fresh'
      BY <3>1, <3>2 DEF FreshInv
    <3>4. \A f \in stored' : f.id <= fresh'
      BY <3>1 DEF FreshInv
    <3> QED
      BY <3>3, <3>4 DEF FreshInv
  <2> QED
    BY <2>1, <2>2, <2>3, <2>4
<1>18. ASSUME DeleteOldPicture PROVE TypeInv'
  <2>1. TypeOK'
    BY <1>18 DEF DeleteOldPicture, TypeOK
  <2>2. ValuesInv'
    <3>1. reader.row \in Row /\ fresh \in 0 .. MaxPics
      BY DEF ValuesInv, TypeOK
    <3>2. [reader.row EXCEPT !.pic = fresh] \in Row
      BY <3>1 DEF Row
    <3>3. reader' = [reader EXCEPT !.at = "add", !.row = [@ EXCEPT !.pic = fresh]]
      BY <1>18 DEF DeleteOldPicture, ValuesInv
    <3>4. reader' \in [at : {"idle", "put", "delete", "add"}, row : Row, got : Signals]
      BY <3>2, <3>3, ZenonT(30) DEF ValuesInv
    <3> QED
      BY <1>18, <3>4 DEF DeleteOldPicture, ValuesInv
  <2>3. PlacesInv'
    BY <1>18 DEF DeleteOldPicture, PlacesInv, TypeOK, ValuesInv
  <2>4. FreshInv'
    <3>1. reader'.row.pic = fresh
      BY <1>18 DEF DeleteOldPicture, ValuesInv, Row
    <3> QED
      BY <1>18, <3>1 DEF DeleteOldPicture, FreshInv, TypeOK
  <2> QED
    BY <2>1, <2>2, <2>3, <2>4
<1>19. ASSUME AddRow PROVE TypeInv'
  <2>1. TypeOK'
    <3>1. reader.row \in Row /\ reader.got.name \in Name /\ known
      BY <1>19 DEF AddRow, ValuesInv, PlacesInv
    <3>2. row' \in [name : Name \cup {None}, pic : 0 .. MaxPics] /\ row'.name # None
      BY <1>19, <3>1 DEF AddRow, Row
    <3> QED
      BY <1>19, <3>1, <3>2 DEF AddRow, TypeOK
  <2>2. ValuesInv'
    BY <1>19 DEF AddRow, ValuesInv
  <2>3. PlacesInv'
    BY <1>19 DEF AddRow, PlacesInv, TypeOK, ValuesInv
  <2>4. FreshInv'
    BY <1>19 DEF AddRow, FreshInv, TypeOK
  <2> QED
    BY <2>1, <2>2, <2>3, <2>4
<1>20. ASSUME Dial PROVE TypeInv'
  <2>1. TypeOK'
    BY <1>20 DEF Dial, TypeOK
  <2>2. ValuesInv'
    BY <1>20 DEF Dial, ValuesInv, TypeOK
  <2>3. PlacesInv'
    BY <1>20 DEF Dial, PlacesInv, TypeOK, ValuesInv
  <2>4. FreshInv'
    BY <1>20 DEF Dial, FreshInv, TypeOK
  <2> QED
    BY <2>1, <2>2, <2>3, <2>4
<1>21. ASSUME DialFails PROVE TypeInv'
  <2>1. TypeOK'
    BY <1>21 DEF DialFails, TypeOK
  <2>2. ValuesInv'
    BY <1>21 DEF DialFails, ValuesInv
  <2>3. PlacesInv'
    BY <1>21 DEF DialFails, PlacesInv, TypeOK, ValuesInv
  <2>4. FreshInv'
    BY <1>21 DEF DialFails, FreshInv, TypeOK
  <2> QED
    BY <2>1, <2>2, <2>3, <2>4
<1>22. ASSUME Ready PROVE TypeInv'
  <2>1. TypeOK'
    <3>1. row' \in [name : Name \cup {None}, pic : 0 .. MaxPics] /\ row'.name # None
      BY <1>22 DEF Ready, TypeOK, PlacesInv
    <3> QED
      BY <1>22, <3>1 DEF Ready, TypeOK
  <2>2. ValuesInv'
    <3>1. toPeer' \in Seq(Signals) /\ outbox' \in Nat
      <4>1. outbox \in Nat /\ FlushOutbox
        BY <1>22 DEF Ready, ValuesInv
      <4>2. [i \in 1 .. outbox |-> Changed] \in Seq(Signals)
        BY <4>1, FlushFacts
      <4>3. CASE toPeer' = [i \in 1 .. outbox |-> Changed] /\ outbox' = 0
        BY <4>2, <4>3
      <4>4. CASE toPeer' = <<>> /\ UNCHANGED outbox
        BY <4>1, <4>4
      <4> QED
        BY <4>1, <4>3, <4>4 DEF FlushOutbox
    <3>2. asked' \in Nat
      BY <1>22 DEF Ready
    <3>3. UNCHANGED <<pc, loc, answer, reader, stale, torn>>
      BY <1>22 DEF Ready
    <3>4. known' \in BOOLEAN /\ reg' \in BOOLEAN /\ missed' \subseteq Parts /\ greeting' = None
      BY <1>22 DEF Ready, ValuesInv
    <3> QED
      BY <3>1, <3>2, <3>3, <3>4 DEF ValuesInv
  <2>3. PlacesInv'
    BY <1>22 DEF Ready, PlacesInv, TypeOK, ValuesInv
  <2>4. FreshInv'
    BY <1>22 DEF Ready, FreshInv, TypeOK
  <2> QED
    BY <2>1, <2>2, <2>3, <2>4
<1>23. ASSUME Drop PROVE TypeInv'
  <2>1. TypeOK'
    BY <1>23 DEF Drop, TypeOK
  <2>2. ValuesInv'
    BY <1>23 DEF Drop, ValuesInv, Lost
  <2>3. PlacesInv'
    BY <1>23 DEF Drop, PlacesInv, TypeOK, ValuesInv
  <2>4. FreshInv'
    BY <1>23 DEF Drop, FreshInv, TypeOK
  <2> QED
    BY <2>1, <2>2, <2>3, <2>4
<1>24. ASSUME Unregister PROVE TypeInv'
  <2>1. TypeOK'
    BY <1>24 DEF Unregister, TypeOK
  <2>2. ValuesInv'
    BY <1>24, ZenonT(30) DEF Unregister, ValuesInv
  <2>3. PlacesInv'
    BY <1>24 DEF Unregister, PlacesInv, TypeOK, ValuesInv
  <2>4. FreshInv'
    BY <1>24 DEF Unregister, FreshInv, TypeOK
  <2> QED
    BY <2>1, <2>2, <2>3, <2>4
<1>25. ASSUME RestartOwner \/ RestartUnnamed PROVE TypeInv'
  <2>0. OwnerStops /\ profile' \in {profile, [name |-> ClientName, pic |-> None]}
    BY <1>25 DEF RestartOwner, RestartUnnamed
  <2>1. TypeOK'
    BY <2>0 DEF OwnerStops, TypeOK
  <2>2. ValuesInv'
    <3>1. pc' \in [Proc -> Labels] /\ loc' \in [Proc -> Locals]
      BY <2>0 DEF OwnerStops, ValuesInv, Labels
    <3>2. missed' \subseteq Parts /\ toPeer' \in Seq(Signals)
      BY <1>25, <2>0 DEF RestartOwner, RestartUnnamed, OwnerStops, ValuesInv, Lost
    <3>3. stale' \in BOOLEAN
      BY <1>25, ZenonT(30) DEF RestartOwner, RestartUnnamed, ValuesInv
    <3> QED
      BY <2>0, <3>1, <3>2, <3>3, ZenonT(30) DEF OwnerStops, ValuesInv
  <2>3. PlacesInv'
    BY <2>0 DEF OwnerStops, PlacesInv, TypeOK, ValuesInv
  <2>4. FreshInv'
    BY <2>0 DEF OwnerStops, FreshInv, TypeOK
  <2> QED
    BY <2>1, <2>2, <2>3, <2>4
<1>26. ASSUME RestartPeer PROVE TypeInv'
  <2>1. TypeOK'
    BY <1>26 DEF RestartPeer, TypeOK
  <2>2. ValuesInv'
    <3>1. pc' \in [Proc -> Labels]
      BY <1>26 DEF RestartPeer, ValuesInv, Labels
    <3> QED
      BY <1>26, <3>1 DEF RestartPeer, ValuesInv, Lost
  <2>3. PlacesInv'
    BY <1>26 DEF RestartPeer, PlacesInv, TypeOK, ValuesInv
  <2>4. FreshInv'
    BY <1>26 DEF RestartPeer, FreshInv, TypeOK
  <2> QED
    BY <2>1, <2>2, <2>3, <2>4
<1>27. ASSUME FlushEntry PROVE TypeInv'
  <2>1. TypeOK'
    BY <1>27 DEF FlushEntry, TypeOK
  <2>2. ValuesInv'
    <3>1. toPeer' \in Seq(Signals) /\ outbox' \in Nat
      BY <1>27, FlightFacts DEF FlushEntry, ValuesInv
    <3> QED
      BY <1>27, <3>1 DEF FlushEntry, ValuesInv
  <2>3. PlacesInv'
    BY <1>27 DEF FlushEntry, PlacesInv
  <2>4. FreshInv'
    BY <1>27 DEF FlushEntry, FreshInv
  <2> QED
    BY <2>1, <2>2, <2>3, <2>4
<1>28. CASE UNCHANGED vars
  BY <1>28 DEF vars, TypeOK, ValuesInv, PlacesInv, FreshInv
<1> QED
  BY <1>1, <1>2, <1>3, <1>4, <1>5, <1>6, <1>7, <1>8, <1>9, <1>10, <1>11, <1>12,
     <1>13, <1>14, <1>15, <1>16, <1>17, <1>18, <1>19, <1>20, <1>21, <1>22, <1>23,
     <1>24, <1>25, <1>26, <1>27, <1>28
  DEF Next, UpdateProfile, RewriteRow, HandleInfoRequest, HandleInfoResponse

\* What a goroutine has read is still good where it uses it: one that writes the row back
\* has a name and a picture that the peer has stored, one that saves the profile has a
\* name, a read loop stores only an answer of the owner to a peer that has a row, the
\* owner answers only while it has a session of the peer, and no row or file has an id
\* that the peer has not made yet.
THEOREM TypeCorrect == Spec => []TypeInv
  BY InitTypeInv, NextTypeInv, PTL DEF Spec

----------------------------------------------------------------------------------
(* The owner's picture. *)

\* What happens on sessions and in the read loops.
Networking ==
  \/ HandleInfoRequest \/ LimitRequest \/ TakeChanged \/ HandleInfoResponse \/ LimitSignal
  \/ Dial \/ DialFails \/ Ready \/ FlushEntry \/ Drop \/ Unregister

LEMMA NetworkingLeavesOwner == Networking \/ UNCHANGED vars => UNCHANGED <<profile, files, pc, loc, stale>>
<1>1. HandleInfoRequest \/ LimitRequest => UNCHANGED <<profile, files, pc, loc, stale>>
  BY DEF HandleInfoRequest, LimitRequest, TakeRequest, LoadPicture, Reply, owner, local, history
<1>2. TakeChanged \/ HandleInfoResponse \/ LimitSignal => UNCHANGED <<profile, files, pc, loc, stale>>
  BY DEF TakeChanged, HandleInfoResponse, LimitSignal, TakeResponse, StorePicture,
         DeleteOldPicture, AddRow, owner, local, history
<1>3. Dial \/ DialFails \/ Ready \/ FlushEntry \/ Drop \/ Unregister \/ UNCHANGED vars
        => UNCHANGED <<profile, files, pc, loc, stale>>
  BY DEF Dial, DialFails, Ready, FlushEntry, Drop, Unregister, vars, owner, local, history
<1> QED
  BY <1>1, <1>2, <1>3 DEF Networking

OwnerInv == TypeInv /\ UnsavedInv /\ OwnInv

LEMMA InitOwnerInv == Init => OwnerInv
<1> SUFFICES ASSUME Init PROVE OwnerInv
  OBVIOUS
<1>1. TypeInv
  BY InitTypeInv
<1>2. UnsavedInv /\ OwnInv
  BY ValueFacts DEF Init, UnsavedInv, OwnInv
<1> QED
  BY <1>1, <1>2 DEF OwnerInv

\* Each action keeps the invariant.
LEMMA NextOwnerInv == OwnerInv /\ [Next]_vars => OwnerInv'
<1> SUFFICES ASSUME OwnerInv, [Next]_vars PROVE UnsavedInv' /\ OwnInv'
  BY NextTypeInv DEF OwnerInv
<1> USE ValueFacts DEF owner
<1>0. /\ UnsavedInv /\ OwnInv /\ pc \in [Proc -> Labels] /\ loc \in [Proc -> Locals]
      /\ profile \in [name : Name, pic : Pic] /\ files \subseteq Requests /\ stale \in BOOLEAN
  BY DEF OwnerInv, TypeInv, TypeOK, ValuesInv
<1>1. ASSUME NEW r \in Requests, SetName(r) PROVE UnsavedInv' /\ OwnInv'
  <2>1. /\ UNCHANGED <<profile, files, stale>> /\ pc[r] = "idle" /\ pc' = [pc EXCEPT ![r] = "rename"]
        /\ \A q \in Requests : q # r => loc'[q] = loc[q]
    BY <1>0, <1>1 DEF SetName, Step, history
  <2>2. loc'[r].pic = profile.pic
    BY <1>0, <1>1 DEF SetName, Locals
  <2>3. UnsavedInv'
    BY <1>0, <2>1, <2>2 DEF UnsavedInv, Unsaved
  <2> QED
    BY <1>0, <2>1, <2>3 DEF OwnInv
<1>2. ASSUME NEW r \in Requests, WriteName(r) PROVE UnsavedInv' /\ OwnInv'
  <2>1. PICK to \in {"file", "tell"} : pc[r] = "rename" /\ pc' = [pc EXCEPT ![r] = to]
    BY <1>2, ZenonT(30) DEF WriteName, Step
  <2>2. /\ UNCHANGED <<files, loc>> /\ profile' = [name |-> r, pic |-> loc[r].pic]
        /\ stale' = (stale \/ profile.pic # loc[r].pic)
    BY <1>2 DEF WriteName
  <2>3. UnsavedInv'
    BY <1>0, <2>1, <2>2 DEF UnsavedInv, Unsaved
  <2>4. OwnInv'
    BY <1>0, <2>1, <2>2, ZenonT(30) DEF OwnInv
  <2> QED
    BY <2>3, <2>4
<1>3. ASSUME NEW r \in Requests, PutPicture(r) PROVE UnsavedInv' /\ OwnInv'
  <2>1. /\ UNCHANGED <<profile, stale>> /\ files' = files \cup {r}
        /\ pc[r] \in {"idle", "file"} /\ pc' = [pc EXCEPT ![r] = "replace"]
        /\ \A q \in Requests : q # r => loc'[q] = loc[q]
    BY <1>0, <1>3 DEF PutPicture, Step, history
  <2>2. loc'[r].pic = profile.pic /\ loc'[r].new = r
    BY <1>0, <1>3 DEF PutPicture, Locals
  <2>3. UnsavedInv'
    BY <1>0, <2>1, <2>2 DEF UnsavedInv, Unsaved
  <2>4. OwnInv'
    BY <1>0, <2>1 DEF OwnInv
  <2> QED
    BY <2>3, <2>4
<1>4. ASSUME NEW r \in Requests, FindPicture(r) PROVE UnsavedInv' /\ OwnInv'
  <2>1. /\ UNCHANGED <<profile, files, stale>> /\ pc[r] = "idle" /\ pc' = [pc EXCEPT ![r] = "replace"]
        /\ \A q \in Requests : q # r => loc'[q] = loc[q]
    BY <1>0, <1>4 DEF FindPicture, Step, history
  <2>2. loc'[r].pic = profile.pic /\ loc'[r].new = None
    BY <1>0, <1>4 DEF FindPicture, Locals
  <2>3. UnsavedInv'
    BY <1>0, <2>1, <2>2 DEF UnsavedInv, Unsaved
  <2>4. OwnInv'
    BY <1>0, <2>1 DEF OwnInv
  <2> QED
    BY <2>3, <2>4
<1>5. ASSUME NEW r \in Requests, DeletePicture(r) PROVE UnsavedInv' /\ OwnInv'
  <2>1. /\ UNCHANGED <<profile, stale>> /\ files' = files \ {loc[r].pic}
        /\ pc[r] = "replace" /\ pc' = [pc EXCEPT ![r] = "save"]
        /\ \A q \in Requests : loc'[q].pic = loc[q].pic /\ loc'[q].new = loc[q].new
    BY <1>0, <1>5 DEF DeletePicture, Step, history, Locals
  <2>2. UnsavedInv'
    BY <1>0, <2>1 DEF UnsavedInv, Unsaved
  <2>3. OwnInv'
    BY <1>0, <2>1 DEF OwnInv
  <2> QED
    BY <2>2, <2>3
<1>6. ASSUME NEW r \in Requests, SaveProfile(r) PROVE UnsavedInv' /\ OwnInv'
  <2>1. /\ UNCHANGED <<files, loc>> /\ profile' = [name |-> loc[r].name, pic |-> loc[r].new]
        /\ pc[r] = "save" /\ pc' = [pc EXCEPT ![r] = "tell"]
    BY <1>6 DEF SaveProfile, Step
  <2>2. UnsavedInv'
    BY <1>0, <2>1 DEF UnsavedInv, Unsaved
  <2>3. OwnInv'
    BY <1>0, <2>1 DEF OwnInv, UnsavedInv
  <2> QED
    BY <2>2, <2>3
<1>7. ASSUME NEW r \in Requests, Tell(r) PROVE UnsavedInv' /\ OwnInv'
  <2>1. /\ UNCHANGED <<profile, files, stale>> /\ pc[r] = "tell" /\ pc' = [pc EXCEPT ![r] = "done"]
        /\ \A q \in Requests : q # r => loc'[q] = loc[q]
    BY <1>0, <1>7 DEF Tell, Step
  <2> QED
    BY <1>0, <2>1 DEF UnsavedInv, Unsaved, OwnInv
<1>8. ASSUME NEW n \in Rewrites, RewriteRow(n) PROVE UnsavedInv' /\ OwnInv'
  <2>1. /\ UNCHANGED <<profile, files, stale>>
        /\ pc[n] \in {"idle", "add"} /\ \E to \in {"add", "done"} : pc' = [pc EXCEPT ![n] = to]
        /\ \A q \in Requests : q # n => loc'[q] = loc[q]
    BY <1>0, <1>8 DEF RewriteRow, ReadRow, WriteRow, Step, history
  <2>2. \A q \in Requests : \/ q # n /\ pc'[q] = pc[q]
                            \/ pc'[q] = "add" /\ pc[q] \in {"idle", "add"}
                            \/ pc'[q] = "done" /\ pc[q] \in {"idle", "add"}
    BY <1>0, <2>1
  <2> QED
    BY <1>0, <2>1, <2>2 DEF UnsavedInv, Unsaved, OwnInv
<1>9. CASE RestartOwner
  <2>1. /\ profile'.pic = None /\ files' = files
        /\ \A q \in Requests : pc'[q] \in {"idle", "add", "done"}
    BY <1>0, <1>9 DEF RestartOwner, OwnerStops
  <2> QED
    BY <2>1 DEF UnsavedInv, Unsaved, OwnInv
<1>10. CASE RestartPeer
  <2>1. /\ UNCHANGED <<profile, files, stale, loc>>
        /\ \A q \in Requests : pc'[q] = pc[q] \/ (pc[q] = "add" /\ pc'[q] = "done")
    BY <1>0, <1>10 DEF RestartPeer
  <2> QED
    BY <1>0, <2>1 DEF UnsavedInv, Unsaved, OwnInv
<1>11. CASE RestartUnnamed
  <2>1. /\ UNCHANGED <<profile, files>>
        /\ \A q \in Requests : pc'[q] \in {pc[q], "done"} /\ pc'[q] \in {"idle", "add", "done"}
    BY <1>0, <1>11 DEF RestartUnnamed, OwnerStops
  <2>2. stale' \/ (~stale /\ \A q \in Requests : pc[q] # "save")
    BY <1>0, <1>11, ZenonT(30) DEF RestartUnnamed
  <2>3. UnsavedInv'
    BY <1>0, <2>1 DEF UnsavedInv, Unsaved
  <2>4. OwnInv'
    BY <1>0, <2>1, <2>2 DEF OwnInv
  <2> QED
    BY <2>3, <2>4
<1>12. ASSUME Networking \/ UNCHANGED vars PROVE UnsavedInv' /\ OwnInv'
  BY <1>0, <1>12, NetworkingLeavesOwner DEF UnsavedInv, Unsaved, OwnInv
<1> QED
  BY <1>1, <1>2, <1>3, <1>4, <1>5, <1>6, <1>7, <1>8, <1>9, <1>10, <1>11, <1>12
  DEF Next, UpdateProfile, Networking

\* However many requests overlap, the picture of the profile is among the files once they
\* are over, unless one of them wrote back what another had replaced; also when the owner
\* stops between the deletion of the old picture and the save, if -client names it.
THEOREM OwnPictureIsThere == Spec => []OwnPicture
<1>1. OwnerInv => OwnPicture
  BY DEF OwnerInv, OwnInv, OwnPicture, Changing, Outside
<1> QED
  BY <1>1, InitOwnerInv, NextOwnerInv, PTL DEF Spec

----------------------------------------------------------------------------------
(* The peer's copies of pictures. *)

\* What does not change the peer's table, its files or its read loop's copy of the row.
Elsewhere ==
  \/ \E r \in Requests : UpdateProfile(r)
  \/ \E n \in Rewrites : ReadRow(n)
  \/ HandleInfoRequest \/ LimitRequest \/ TakeChanged \/ LimitSignal
  \/ Dial \/ DialFails \/ FlushEntry \/ Drop \/ Unregister \/ RestartOwner \/ RestartUnnamed

LEMMA ElsewhereLeavesRow == Elsewhere \/ UNCHANGED vars => UNCHANGED <<row, stored, fresh, reader, torn>>
<1> USE DEF peer, local, history
<1>1. ASSUME NEW r \in Requests, UpdateProfile(r) PROVE UNCHANGED <<row, stored, fresh, reader, torn>>
  BY <1>1 DEF UpdateProfile, SetName, WriteName, PutPicture, FindPicture, DeletePicture, SaveProfile, Tell
<1>2. ASSUME NEW n \in Rewrites, ReadRow(n) PROVE UNCHANGED <<row, stored, fresh, reader, torn>>
  BY <1>2 DEF ReadRow
<1>3. HandleInfoRequest \/ LimitRequest => UNCHANGED <<row, stored, fresh, reader, torn>>
  BY DEF HandleInfoRequest, TakeRequest, LoadPicture, Reply, LimitRequest
<1>4. TakeChanged \/ LimitSignal => UNCHANGED <<row, stored, fresh, reader, torn>>
  BY DEF TakeChanged, LimitSignal
<1>5. Dial \/ DialFails \/ FlushEntry \/ Drop \/ Unregister \/ RestartOwner \/ RestartUnnamed
        => UNCHANGED <<row, stored, fresh, reader, torn>>
  BY DEF Dial, DialFails, FlushEntry, Drop, Unregister, RestartOwner, RestartUnnamed, OwnerStops
<1>6. UNCHANGED vars => UNCHANGED <<row, stored, fresh, reader, torn>>
  BY DEF vars
<1> QED
  BY <1>1, <1>2, <1>3, <1>4, <1>5, <1>6 DEF Elsewhere

LEMMA NextCases ==
  ASSUME Next
  PROVE  \/ Elsewhere \/ TakeResponse \/ StorePicture \/ DeleteOldPicture \/ AddRow
         \/ (\E n \in Rewrites : WriteRow(n)) \/ Ready \/ RestartPeer
  BY DEF Next, Elsewhere, HandleInfoResponse, RewriteRow

CopyInv == TypeInv /\ OneInv /\ NewInv

LEMMA InitCopyInv == Init => CopyInv
<1> SUFFICES ASSUME Init PROVE CopyInv
  OBVIOUS
<1>1. TypeInv
  BY InitTypeInv
<1>2. reader.at = "idle" /\ row.pic = 0 /\ stored = {}
  BY DEF Init, AtRest, NoRow
<1>3. Ids = {}
  BY <1>2 DEF Ids
<1>4. OneInv
  BY <1>2, <1>3 DEF OneInv
<1>5. NewInv
  BY <1>2 DEF NewInv
<1> QED
  BY <1>1, <1>4, <1>5 DEF CopyInv

LEMMA NextCopyInv == CopyInv /\ [Next]_vars => CopyInv'
<1> SUFFICES ASSUME CopyInv, [Next]_vars PROVE OneInv' /\ NewInv'
  BY NextTypeInv DEF CopyInv
<1> USE ValueFacts
<1>0. /\ OneInv /\ NewInv /\ row \in Row /\ fresh \in 0 .. MaxPics /\ torn \in BOOLEAN
      /\ stored \subseteq [id : 1 .. MaxPics, pic : Requests]
      /\ reader \in [at : {"idle", "put", "delete", "add"}, row : Row, got : Signals]
      /\ row.pic <= fresh /\ reader.row.pic <= fresh /\ \A f \in stored : f.id <= fresh
      /\ reader.at # "idle" => reader.got \in Answers
      /\ reader.at \in {"put", "delete"} => reader.got.pic # None
  BY DEF CopyInv, TypeInv, TypeOK, ValuesInv, PlacesInv, FreshInv, Row
<1>1. ASSUME Elsewhere \/ UNCHANGED vars PROVE OneInv' /\ NewInv'
  <2>1. UNCHANGED <<row, stored, fresh, reader, torn>>
    BY <1>1, ElsewhereLeavesRow
  <2> QED
    BY <1>0, <2>1 DEF OneInv, NewInv, Ids
<1>2. CASE TakeResponse
  <2>1. /\ reader.at = "idle" /\ reader'.row = row
        /\ \/ reader'.at = "add" /\ reader'.got.pic = None
           \/ reader'.at = "put"
    BY <1>2 DEF TakeResponse, Waiting, First
  <2>2. UNCHANGED <<row, stored, fresh, torn>>
    BY <1>2 DEF TakeResponse, peer, history
  <2> QED
    BY <1>0, <2>1, <2>2 DEF OneInv, NewInv, Ids
<1>3. CASE StorePicture
  <2>1. /\ reader.at = "put" /\ reader'.at = "delete" /\ reader'.row = reader.row /\ reader'.got = reader.got
        /\ fresh' = fresh + 1 /\ UNCHANGED <<row, torn>>
        /\ stored' = stored \cup {[id |-> fresh + 1, pic |-> reader.got.pic]}
    BY <1>0, <1>3 DEF StorePicture, history
  <2>2. Ids' = Ids \cup {fresh'}
    <3> DEFINE new == [id |-> fresh + 1, pic |-> reader.got.pic]
    <3>1. stored' = stored \cup {new} /\ new.id = fresh'
      BY <2>1
    <3> HIDE DEF new
    <3> QED
      BY <3>1 DEF Ids
  <2>3. reader.row.pic \in Nat /\ fresh \in Nat /\ row.pic \in Nat
    BY <1>0 DEF Row
  <2>4. NewInv'
    BY <1>0, <2>1, <2>3 DEF NewInv
  <2>5. OneInv'
    BY <1>0, <2>1, <2>2 DEF OneInv
  <2> QED
    BY <2>4, <2>5
<1>4. CASE DeleteOldPicture
  <2>1. /\ reader.at = "delete" /\ reader'.at = "add" /\ reader'.got = reader.got
        /\ reader'.row.pic = fresh
    BY <1>0, <1>4 DEF DeleteOldPicture, Row
  <2>2. /\ UNCHANGED <<row, fresh, torn>>
        /\ stored' = {f \in stored : f.id # reader.row.pic}
    BY <1>4 DEF DeleteOldPicture, history
  <2>3. Ids' = Ids \ {reader.row.pic}
    BY <2>2 DEF Ids
  <2>4. /\ reader.row.pic < fresh /\ [id |-> fresh, pic |-> reader.got.pic] \in stored
        /\ reader.row.pic \in Nat /\ fresh \in Nat /\ row.pic \in Nat /\ reader.got.pic # None
    BY <1>0, <2>1 DEF NewInv, Row
  <2>5. NewInv'
    BY <2>1, <2>2, <2>4 DEF NewInv
  <2>6. ~torn => Ids = ({row.pic} \ {0}) \cup {fresh} /\ reader.row.pic = row.pic
    BY <1>0, <2>1 DEF OneInv
  <2>7. ~torn => Ids' = {fresh}
    BY <2>3, <2>4, <2>6
  <2>8. OneInv'
    BY <2>1, <2>2, <2>4, <2>7 DEF OneInv
  <2> QED
    BY <2>5, <2>8
<1>5. CASE AddRow
  <2>1. reader.at = "add" /\ reader'.at = "idle" /\ UNCHANGED <<stored, fresh, torn>>
    BY <1>5 DEF AddRow, AtRest, history
  <2>2. row'.pic = reader.row.pic
    BY <1>0, <1>5 DEF AddRow, Row
  <2>3. ~torn => Ids = {reader.row.pic} \ {0}
    BY <1>0, <2>1 DEF OneInv, NewInv
  <2>4. Ids' = Ids
    BY <2>1 DEF Ids
  <2> QED
    BY <2>1, <2>2, <2>3, <2>4 DEF OneInv, NewInv
<1>6. ASSUME NEW n \in Rewrites, WriteRow(n) PROVE OneInv' /\ NewInv'
  <2>1. UNCHANGED <<stored, fresh, reader>> /\ torn' = (torn \/ row # row' \/ reader.at # "idle")
    BY <1>6 DEF WriteRow
  <2>2. Ids' = Ids
    BY <2>1 DEF Ids
  <2>3. NewInv'
    BY <1>0, <2>1 DEF NewInv
  <2>4. OneInv'
    BY <1>0, <2>1, <2>2, ZenonT(30) DEF OneInv
  <2> QED
    BY <2>3, <2>4
<1>7. CASE Ready
  <2>1. UNCHANGED <<stored, fresh, reader, torn>>
    BY <1>7 DEF Ready, local
  <2>2. row'.pic = row.pic
    BY <1>0, <1>7 DEF Ready, Row
  <2>3. Ids' = Ids
    BY <2>1 DEF Ids
  <2>4. NewInv'
    BY <1>0, <2>1 DEF NewInv
  <2>5. OneInv'
    BY <1>0, <2>1, <2>2, <2>3 DEF OneInv
  <2> QED
    BY <2>4, <2>5
<1>8. CASE RestartPeer
  <2>1. /\ UNCHANGED <<row, stored, fresh>> /\ reader'.at = "idle"
        /\ torn' = (torn \/ reader.at = "delete" \/ (reader.at = "add" /\ reader.got.pic # None))
    BY <1>8 DEF RestartPeer, AtRest, peer
  <2>2. Ids' = Ids
    BY <2>1 DEF Ids
  <2>3. NewInv'
    BY <2>1 DEF NewInv
  <2>4. OneInv'
    BY <1>0, <2>1, <2>2, ZenonT(30) DEF OneInv
  <2> QED
    BY <2>3, <2>4
<1> QED
  BY <1>1, <1>2, <1>3, <1>4, <1>5, <1>6, <1>7, <1>8, NextCases

\* Between two updates of the row, the peer has the picture that its row refers to and no
\* other, unless a copy of the row was written back late or the peer restarted after it
\* had deleted the old picture.
THEOREM OnePictureIsKept == Spec => []OnePicture
<1>1. CopyInv => OnePicture
  BY DEF CopyInv, OneInv, OnePicture, Ids
<1> QED
  BY <1>1, InitCopyInv, NextCopyInv, PTL DEF Spec

----------------------------------------------------------------------------------
(* What makes the peer ask once more. *)

Last == toPeer[Len(toPeer)]

\* A request that is not over makes the peer ask, and when it is over it has left a signal
\* behind or there was no session to be told on.
LEMMA RequestAsks ==
  ASSUME TypeInv, NEW r \in Requests, UpdateProfile(r)
  PROVE  /\ Asking' \/ missed' = Parts
         /\ UNCHANGED <<link, reg, greeting, answer>>
         /\ \/ pc'[r] \notin Outside /\ UNCHANGED <<missed, outbox>>
            \/ ~reg /\ missed' = Parts
            \/ reg /\ link = "up"
            \/ reg /\ outbox' > 0
<1> USE ValueFacts
<1>0. pc \in [Proc -> Labels] /\ toPeer \in Seq(Signals) /\ outbox \in Nat /\ reg \in BOOLEAN
  BY DEF TypeInv, ValuesInv
<1>1. UNCHANGED <<link, reg, greeting, answer>>
  BY DEF UpdateProfile, SetName, WriteName, PutPicture, FindPicture, DeletePicture, SaveProfile,
         Tell, session
<1>2. CASE SetName(r) \/ WriteName(r) \/ PutPicture(r) \/ FindPicture(r) \/ DeletePicture(r) \/ SaveProfile(r)
  <2>1. \E to \in {"rename", "file", "replace", "save", "tell"} : pc' = [pc EXCEPT ![r] = to]
    BY <1>2 DEF SetName, WriteName, PutPicture, FindPicture, DeletePicture, SaveProfile, Step
  <2>2. pc'[r] \notin Outside
    BY <1>0, <2>1 DEF Outside
  <2>3. UNCHANGED <<missed, outbox>>
    BY <1>2 DEF SetName, WriteName, PutPicture, FindPicture, DeletePicture, SaveProfile, wire, history
  <2> QED
    BY <1>1, <2>2, <2>3 DEF Asking
<1>3. CASE Tell(r)
  <2>1. CASE reg /\ link = "up"
    <3>1. toPeer' = Append(toPeer, Changed)
      BY <1>3, <2>1 DEF Tell
    <3>2. /\ Len(toPeer') = Len(toPeer) + 1 /\ Len(toPeer) \in Nat
          /\ toPeer'[Len(toPeer) + 1].type = "info_changed"
      BY <1>0, <3>1, FlightFacts, SignalFacts
    <3>3. Len(toPeer) + 1 \in 1 .. Len(toPeer')
      BY <3>2
    <3>4. Asking'
      BY <3>2, <3>3 DEF Asking
    <3> QED
      BY <1>1, <2>1, <3>4
  <2>2. CASE reg /\ link # "up"
    <3>1. outbox' = outbox + 1
      BY <1>3, <2>2 DEF Tell
    <3>2. outbox' > 0
      BY <1>0, <3>1
    <3> QED
      BY <1>1, <2>2, <3>2 DEF Asking
  <2>3. CASE ~reg
    BY <1>1, <1>3, <2>3 DEF Tell
  <2> QED
    BY <1>0, <2>1, <2>2, <2>3
<1> QED
  BY <1>2, <1>3 DEF UpdateProfile

\* The signals that a step leaves alone still make the peer ask.
LEMMA AskingStays ==
  ASSUME TypeInv, UNCHANGED <<outbox, asked, toPeer>>,
         \A r \in Requests : pc[r] \notin Outside => pc'[r] \notin Outside
  PROVE  Asking => Asking'
  BY DEF Asking

\* An answer that is sent is the last of the signals, one that is taken the first.
LEMMA ReplyFacts ==
  ASSUME TypeInv, Reply, link = "up"
  PROVE  /\ toPeer' # <<>> /\ Last'.name = answer.name /\ Last'.pic = answer.pic
         /\ Asking => Asking'
<1> USE ValueFacts
<1>1. /\ toPeer \in Seq(Signals) /\ toPeer' = Append(toPeer, Response(answer.name, answer.pic))
      /\ UNCHANGED <<outbox, asked, pc>>
      /\ Response(answer.name, answer.pic) \in Signals
      /\ Response(answer.name, answer.pic).name = answer.name
      /\ Response(answer.name, answer.pic).pic = answer.pic
  BY SignalFacts DEF TypeInv, ValuesInv, PlacesInv, Reply, Signals
<1>2. /\ toPeer' # <<>> /\ Len(toPeer') = Len(toPeer) + 1 /\ Len(toPeer) \in Nat
      /\ toPeer'[Len(toPeer) + 1] = Response(answer.name, answer.pic)
      /\ \A i \in 1 .. Len(toPeer) : toPeer'[i] = toPeer[i]
  BY <1>1, FlightFacts
<1>3. \A i \in 1 .. Len(toPeer) : i \in 1 .. Len(toPeer')
  BY <1>2
<1>4. Asking => Asking'
  BY <1>1, <1>2, <1>3 DEF Asking
<1> QED
  BY <1>1, <1>2, <1>4 DEF Last

LEMMA ResponseFacts ==
  ASSUME TypeInv, TakeResponse
  PROVE  /\ toPeer # <<>> /\ reader.at = "idle" /\ reader'.at # "idle" /\ reader'.got = First
         /\ toPeer' # <<>> => Last' = Last
         /\ toPeer' = <<>> => Last = First
         /\ Asking => Asking'
         /\ UNCHANGED <<profile, files, link, missed, torn, greeting, answer, pc, outbox>>
<1>1. /\ toPeer \in Seq(Signals) /\ toPeer # <<>> /\ toPeer' = Tail(toPeer)
      /\ Head(toPeer).type = "info_response" /\ reader.at = "idle"
      /\ reader'.at # "idle" /\ reader'.got = First
  BY DEF TypeInv, ValuesInv, TakeResponse, Waiting, First
<1>2. UNCHANGED <<profile, files, link, missed, torn, greeting, answer, pc, outbox, asked>>
  BY DEF TakeResponse, owner, session, history
<1>3. /\ Len(toPeer) \in Nat /\ First = toPeer[1] /\ 1 \in 1 .. Len(toPeer)
      /\ toPeer' \in Seq(Signals) /\ Len(toPeer') = Len(toPeer) - 1
      /\ \A i \in 1 .. Len(toPeer') : i + 1 \in 1 .. Len(toPeer) /\ toPeer'[i] = toPeer[i + 1]
  BY <1>1, FlightFacts DEF First
<1>4. toPeer' # <<>> => Len(toPeer') \in 1 .. Len(toPeer')
  BY <1>3, FlightFacts
<1>5. toPeer' # <<>> => Last' = Last
  BY <1>3, <1>4 DEF Last
<1>6. toPeer' = <<>> => Last = First
  <2>1. toPeer' = <<>> => Len(toPeer') = 0
    OBVIOUS
  <2>2. toPeer' = <<>> => Len(toPeer) = 1
    BY <1>3, <2>1
  <2> QED
    BY <1>3, <2>2, ZenonT(30) DEF Last
<1>7. ASSUME NEW i \in 1 .. Len(toPeer), toPeer[i].type = "info_changed"
      PROVE  \E j \in 1 .. Len(toPeer') : toPeer'[j].type = "info_changed"
  <2>1. i # 1
    BY <1>1, <1>3, <1>7, SignalFacts DEF First
  <2>2. i - 1 \in 1 .. Len(toPeer') /\ (i - 1) + 1 = i
    BY <1>3, <2>1
  <2>3. toPeer'[i - 1] = toPeer[i]
    BY <1>3, <2>2
  <2> QED
    BY <1>7, <2>2, <2>3
<1>8. Asking => Asking'
  BY <1>2, <1>7 DEF Asking
<1> QED
  BY <1>1, <1>2, <1>5, <1>6, <1>8

\* An entry of the outbox that is sent makes the peer ask.
LEMMA FlushAsks ==
  ASSUME TypeInv, FlushEntry
  PROVE  Asking' /\ link = "up" /\ link' = link
<1>1. toPeer \in Seq(Signals) /\ toPeer' = Append(toPeer, Changed) /\ link = "up" /\ link' = link
  BY DEF TypeInv, ValuesInv, FlushEntry, session
<1>2. /\ Len(toPeer') = Len(toPeer) + 1 /\ Len(toPeer) \in Nat
      /\ toPeer'[Len(toPeer) + 1].type = "info_changed"
  BY <1>1, FlightFacts, SignalFacts
<1>3. Len(toPeer) + 1 \in 1 .. Len(toPeer')
  BY <1>2
<1> QED
  BY <1>1, <1>2, <1>3 DEF Asking

\* A session that comes up with nothing to ask had nothing to flush.
LEMMA ReadyFacts ==
  ASSUME TypeInv, Ready
  PROVE  /\ link = "dialing" /\ link' = "up" /\ answer.at = "idle" /\ reader.at = "idle"
         /\ row'.name = greeting /\ row'.pic = row.pic
         /\ UNCHANGED <<profile, files, stored, torn, answer, reader, pc>>
         /\ Asking' \/ (toPeer' = <<>> /\ toPeer = <<>> /\ ~Asking /\ missed' = missed)
<1>1. /\ link = "dialing" /\ link' = "up" /\ reader.at = "idle"
      /\ UNCHANGED <<profile, files, stored, torn, answer, reader, pc>>
      /\ \/ toPeer' = [i \in 1 .. outbox |-> Changed] /\ outbox' = 0
         \/ toPeer' = <<>> /\ outbox' = outbox
      /\ asked' \in {1} \cup (IF known THEN {0} ELSE {})
      /\ missed' = IF known THEN missed ELSE {}
  BY DEF Ready, FlushOutbox, owner, local
<1>2. /\ answer.at = "idle" /\ outbox \in Nat /\ known \in BOOLEAN /\ row \in Row
      /\ toPeer = <<>> /\ asked = 0
  BY <1>1 DEF TypeInv, TypeOK, ValuesInv, PlacesInv, Row
<1>3. row'.name = greeting /\ row'.pic = row.pic
  BY <1>2 DEF Ready, Row
<1>4. CASE asked' = 1
  BY <1>1, <1>2, <1>3, <1>4 DEF Asking
<1>5. CASE asked' = 0 /\ known /\ outbox > 0
  <2>1. outbox' > 0 \/ (1 \in 1 .. Len(toPeer') /\ toPeer'[1] = Changed)
    BY <1>1, <1>2, <1>5, FlushFacts
  <2>2. Asking'
    BY <2>1, SignalFacts DEF Asking
  <2> QED
    BY <1>1, <1>2, <1>3, <2>2
<1>6. CASE asked' = 0 /\ known /\ outbox = 0
  <2>1. toPeer' = <<>> /\ missed' = missed
    BY <1>1, <1>6, FlushFacts
  <2>2. Asking => \E r \in Requests : pc[r] \notin Outside
    BY <1>2, <1>6 DEF Asking
  <2>3. Asking => Asking'
    BY <1>1, <2>2 DEF Asking
  <2> QED
    BY <1>1, <1>2, <1>3, <2>1, <2>3
<1> QED
  BY <1>1, <1>2, <1>4, <1>5, <1>6

----------------------------------------------------------------------------------
(* The name arrives. *)

LEMMA InitNameInv == Init => NameInv
  BY DEF Init, NameInv

LEMMA NextNameInv == TypeInv /\ NameInv /\ [Next]_vars => NameInv'
<1> SUFFICES ASSUME TypeInv, NameInv, [Next]_vars PROVE NameInv'
  OBVIOUS
<1> USE ValueFacts
<1>0. /\ pc \in [Proc -> Labels] /\ missed \subseteq Parts /\ torn \in BOOLEAN
      /\ link # "up" => toPeer = <<>> /\ asked = 0
      /\ link = "dialing" => ~reg
      /\ asked \in Nat /\ row \in Row
  BY DEF TypeInv, TypeOK, ValuesInv, PlacesInv, Row
<1>1. ASSUME NEW r \in Requests, UpdateProfile(r) PROVE NameInv'
  <2>1. "name" \in missed' \/ Asking'
    BY <1>1, RequestAsks DEF Parts
  <2>2. link' = "dialing" => "name" \in missed' \/ pc'[r] \notin Outside
    BY <1>0, <1>1, RequestAsks DEF Parts
  <2> QED
    BY <2>1, <2>2 DEF NameInv
<1>2. ASSUME NEW n \in Rewrites, RewriteRow(n) PROVE NameInv'
  <2>1. /\ UNCHANGED <<link, missed, profile, greeting, toPeer, asked, outbox, answer, reader>>
        /\ torn' \/ (~torn /\ row' = row)
    BY <1>0, <1>2, ZenonT(30) DEF RewriteRow, ReadRow, WriteRow, owner, peer, session, wire, history
  <2>2. /\ pc[n] \in {"idle", "add"} /\ \E to \in {"add", "done"} : pc' = [pc EXCEPT ![n] = to]
    BY <1>2 DEF RewriteRow, ReadRow, WriteRow, Step
  <2>3. \A r \in Requests : pc[r] \notin Outside <=> pc'[r] \notin Outside
    BY <1>0, <2>2 DEF Outside
  <2>4. Asking => Asking'
    BY <2>1, <2>3, AskingStays
  <2>5. torn' \/ FinalName' = FinalName
    BY <2>1 DEF FinalName
  <2> QED
    BY <1>0, <2>1, <2>3, <2>4, <2>5 DEF NameInv
<1>3. CASE TakeRequest
  <2>1. /\ link' = link /\ link = "up" /\ profile' = profile
        /\ answer'.at # "idle" /\ answer'.name = profile.name
    BY <1>0, <1>3 DEF TakeRequest, session, owner
  <2> QED
    BY <2>1 DEF NameInv, FinalName
<1>4. CASE LoadPicture
  <2>1. /\ answer.at # "idle" /\ answer'.at # "idle" /\ answer'.name = answer.name
    BY <1>4 DEF LoadPicture, TypeInv, ValuesInv
  <2>2. UNCHANGED <<link, missed, torn, profile, greeting, toPeer, asked, outbox, pc>>
    BY <1>4 DEF LoadPicture, owner, session, wire, history
  <2>3. Asking => Asking'
    BY <2>2, AskingStays
  <2> QED
    BY <2>1, <2>2, <2>3 DEF NameInv, FinalName
<1>5. CASE Reply
  <2>1. answer.at # "idle" /\ answer'.at = "idle" /\ UNCHANGED <<link, missed, torn, profile, greeting, pc>>
    BY <1>5 DEF Reply, owner, session, history
  <2>2. CASE link = "up"
    <3>1. toPeer' # <<>> /\ Last'.name = answer.name /\ (Asking => Asking')
      BY <1>5, <2>2, ReplyFacts
    <3> QED
      BY <2>1, <2>2, <3>1 DEF NameInv, FinalName, Last
  <2> QED
    BY <2>1, <2>2 DEF NameInv
<1>6. CASE LimitRequest \/ LimitSignal
  <2>1. missed' = Parts
    BY <1>6 DEF LimitRequest, LimitSignal
  <2> QED
    BY <2>1 DEF NameInv, Parts
<1>7. CASE TakeChanged
  <2>1. asked' > 0 /\ UNCHANGED <<link, missed, profile, greeting, pc>> /\ toPeer # <<>>
    BY <1>0, <1>7 DEF TakeChanged, Waiting, owner, session, local, history
  <2> QED
    BY <1>0, <2>1 DEF NameInv, Asking
<1>8. CASE TakeResponse
  <2>1. Asking \/ FinalName' = FinalName
    BY <1>8, ResponseFacts DEF FinalName, Last
  <2> QED
    BY <1>8, <2>1, ResponseFacts DEF NameInv
<1>9. CASE StorePicture \/ DeleteOldPicture
  <2>1. reader.at # "idle" /\ reader'.at # "idle" /\ reader'.got = reader.got
    BY <1>9, ZenonT(30) DEF StorePicture, DeleteOldPicture, TypeInv, ValuesInv
  <2>2. UNCHANGED <<link, missed, torn, profile, greeting, toPeer, asked, outbox, pc, answer>>
    BY <1>9 DEF StorePicture, DeleteOldPicture, owner, session, wire, history
  <2>3. Asking => Asking'
    BY <2>2, AskingStays
  <2> QED
    BY <2>1, <2>2, <2>3 DEF NameInv, FinalName
<1>10. CASE AddRow
  <2>1. reader.at # "idle" /\ reader'.at = "idle"
    BY <1>10 DEF AddRow, AtRest
  <2>2. row'.name = reader.got.name
    BY <1>10 DEF AddRow, TypeInv, ValuesInv, Row
  <2>3. UNCHANGED <<link, missed, torn, profile, greeting, toPeer, asked, outbox, pc, answer>>
    BY <1>10 DEF AddRow, owner, session, wire, history
  <2>4. Asking => Asking'
    BY <2>3, AskingStays
  <2> QED
    BY <2>1, <2>2, <2>3, <2>4 DEF NameInv, FinalName
<1>11. CASE Dial
  <2>1. link' = "dialing" /\ greeting' = profile.name /\ profile' = profile
    BY <1>11 DEF Dial, owner
  <2> QED
    BY <2>1 DEF NameInv
<1>12. CASE DialFails \/ Drop \/ Unregister \/ RestartOwner \/ RestartUnnamed \/ RestartPeer
  <2>1. link' = "down"
    BY <1>12 DEF DialFails, Drop, Unregister, RestartOwner, RestartUnnamed, OwnerStops, RestartPeer
  <2> QED
    BY <2>1 DEF NameInv
<1>13. CASE Ready
  <2>1. link' = "up"
    BY <1>13, ReadyFacts
  <2>2. SUFFICES ASSUME "name" \notin missed', ~Asking' PROVE FinalName' = profile'.name
    BY <2>1 DEF NameInv
  <2>3. toPeer' = <<>> /\ ~Asking /\ missed' = missed
    BY <1>13, <2>2, ReadyFacts
  <2>4. greeting = profile.name
    BY <1>13, <2>2, <2>3, ReadyFacts DEF NameInv, Asking
  <2> QED
    BY <1>13, <2>3, <2>4, ReadyFacts DEF FinalName
<1>14. CASE FlushEntry
  BY <1>14, FlushAsks DEF NameInv
<1>15. CASE UNCHANGED vars
  <2>1. UNCHANGED <<link, missed, torn, profile, greeting, toPeer, asked, outbox, pc, answer, reader, row>>
    BY <1>15 DEF vars, owner, peer, session, wire, local, history
  <2> QED
    BY <2>1 DEF NameInv, FinalName, Asking
<1> QED
  BY <1>1, <1>2, <1>3, <1>4, <1>5, <1>6, <1>7, <1>8, <1>9, <1>10, <1>11, <1>12, <1>13, <1>14,
     <1>15
  DEF Next, HandleInfoRequest, HandleInfoResponse

\* However requests, answers and reconnections interleave, the peer ends up with the
\* owner's name, unless the last change found no session to be announced on, a signal was
\* lost or dropped, or the peer's row was overwritten from an older copy.
THEOREM NamesArrive == Spec => []NameArrives
<1>1. NameInv => NameArrives
  BY DEF NameInv, NameArrives, Quiet, Changing, Asking, FinalName, Outside
<1> QED
  BY <1>1, InitTypeInv, NextTypeInv, InitNameInv, NextNameInv, PTL DEF Spec

----------------------------------------------------------------------------------
(* The picture arrives. *)

LEMMA InitPictureInv == Init => PictureInv
  BY DEF Init, PictureInv, Idle

LEMMA NextPictureInv == TypeInv /\ NewInv /\ PictureInv /\ [Next]_vars => PictureInv'
<1> SUFFICES ASSUME TypeInv, NewInv, PictureInv, [Next]_vars PROVE PictureInv'
  OBVIOUS
<1> USE ValueFacts
<1>0. /\ pc \in [Proc -> Labels] /\ missed \subseteq Parts /\ torn \in BOOLEAN /\ files \subseteq Requests
      /\ link # "up" => toPeer = <<>> /\ asked = 0
      /\ ~reg => answer.at = "idle"
      /\ asked \in Nat /\ row \in Row /\ outbox \in Nat /\ "picture" \in Parts
  BY DEF TypeInv, TypeOK, ValuesInv, PlacesInv, Row, Parts
<1>1. ASSUME NEW r \in Requests, UpdateProfile(r) PROVE PictureInv'
  <2>1. "picture" \in missed' \/ Asking'
    BY <1>0, <1>1, RequestAsks
  <2>2. link' # "up" /\ answer'.at # "idle" => "picture" \in missed' \/ outbox' > 0
    BY <1>0, <1>1, RequestAsks DEF PictureInv
  <2> QED
    BY <2>1, <2>2 DEF PictureInv
<1>2. ASSUME NEW n \in Rewrites, RewriteRow(n) PROVE PictureInv'
  <2>1. /\ UNCHANGED <<link, missed, profile, files, stored, toPeer, asked, outbox, answer, reader>>
        /\ torn' \/ (~torn /\ row' = row)
    BY <1>0, <1>2, ZenonT(30) DEF RewriteRow, ReadRow, WriteRow, owner, peer, session, wire, history
  <2>2. /\ pc[n] \in {"idle", "add"} /\ \E to \in {"add", "done"} : pc' = [pc EXCEPT ![n] = to]
    BY <1>2 DEF RewriteRow, ReadRow, WriteRow, Step
  <2>3. \A r \in Requests : pc[r] \notin Outside <=> pc'[r] \notin Outside
    BY <1>0, <2>2 DEF Outside
  <2>4. Asking => Asking'
    BY <2>1, <2>3, AskingStays
  <2>5. torn' \/ (FinalPicture(profile.pic) => FinalPicture(profile.pic)')
    BY <2>1 DEF FinalPicture
  <2> QED
    BY <1>0, <2>1, <2>4, <2>5 DEF PictureInv
<1>3. CASE TakeRequest
  <2>1. /\ link' = link /\ link = "up" /\ profile' = profile
        /\ answer'.at # "idle" /\ answer'.pic = profile.pic
    BY <1>0, <1>3 DEF TakeRequest, session, owner
  <2> QED
    BY <2>1 DEF PictureInv, FinalPicture
<1>4. CASE LoadPicture
  <2>1. /\ answer.at # "idle" /\ answer'.at # "idle"
        /\ answer'.pic = IF answer.pic \in files THEN answer.pic ELSE None
    BY <1>4 DEF LoadPicture, TypeInv, ValuesInv
  <2>2. UNCHANGED <<link, missed, torn, profile, files, toPeer, asked, outbox, pc>>
    BY <1>4 DEF LoadPicture, owner, session, wire, history
  <2>3. Asking => Asking'
    BY <2>2, AskingStays
  <2> QED
    BY <2>1, <2>2, <2>3 DEF PictureInv, FinalPicture
<1>5. CASE Reply
  <2>1. /\ answer.at # "idle" /\ answer'.at = "idle"
        /\ UNCHANGED <<link, missed, torn, profile, files, outbox>>
    BY <1>5 DEF Reply, owner, session, history
  <2>2. CASE link = "up"
    <3>1. toPeer' # <<>> /\ Last'.pic = answer.pic /\ (Asking => Asking')
      BY <1>5, <2>2, ReplyFacts
    <3> QED
      BY <2>1, <2>2, <3>1 DEF PictureInv, FinalPicture, Last
  <2>3. CASE link # "up"
    <3>1. "picture" \in missed' \/ Asking'
      BY <2>1, <2>3 DEF PictureInv, Asking
    <3> QED
      BY <2>1, <3>1 DEF PictureInv
  <2> QED
    BY <2>2, <2>3
<1>6. CASE LimitRequest \/ LimitSignal
  <2>1. missed' = Parts
    BY <1>6 DEF LimitRequest, LimitSignal
  <2> QED
    BY <1>0, <2>1 DEF PictureInv
<1>7. CASE TakeChanged
  <2>1. asked' > 0 /\ toPeer # <<>> /\ UNCHANGED link
    BY <1>0, <1>7 DEF TakeChanged, Waiting, session
  <2> QED
    BY <1>0, <2>1 DEF PictureInv, Asking
<1>8. CASE TakeResponse
  <2>1. Asking \/ (FinalPicture(profile.pic) => FinalPicture(profile.pic)')
    BY <1>8, ResponseFacts DEF FinalPicture, Last
  <2> QED
    BY <1>8, <2>1, ResponseFacts DEF PictureInv
<1>9. CASE StorePicture \/ DeleteOldPicture
  <2>1. reader.at # "idle" /\ reader'.at # "idle" /\ reader'.got = reader.got
    BY <1>9, ZenonT(30) DEF StorePicture, DeleteOldPicture, TypeInv, ValuesInv
  <2>2. UNCHANGED <<link, missed, torn, profile, files, toPeer, asked, outbox, pc, answer>>
    BY <1>9 DEF StorePicture, DeleteOldPicture, owner, session, wire, history
  <2>3. Asking => Asking'
    BY <2>2, AskingStays
  <2> QED
    BY <2>1, <2>2, <2>3 DEF PictureInv, FinalPicture
<1>10. CASE AddRow
  <2>1. reader.at = "add" /\ reader'.at = "idle"
    BY <1>10 DEF AddRow, AtRest
  <2>2. row'.pic = reader.row.pic
    BY <1>10 DEF AddRow, TypeInv, ValuesInv, Row
  <2>3. UNCHANGED <<link, missed, torn, profile, files, stored, toPeer, asked, outbox, pc, answer>>
    BY <1>10 DEF AddRow, owner, session, wire, history
  <2>4. Asking => Asking'
    BY <2>3, AskingStays
  <2>5. reader.got.pic # None => \E f \in stored : f.id = row'.pic /\ f.pic = reader.got.pic
    BY <2>1, <2>2 DEF NewInv
  <2>6. profile.pic \in files /\ FinalPicture(profile.pic) => FinalPicture(profile.pic)'
    BY <1>0, <2>1, <2>3, <2>5 DEF FinalPicture
  <2> QED
    BY <2>3, <2>4, <2>6 DEF PictureInv
<1>11. CASE Dial \/ DialFails \/ Unregister
  <2>1. /\ UNCHANGED <<torn, profile, files, row, stored, toPeer, asked, outbox, pc, answer, reader>>
        /\ "picture" \in missed <=> "picture" \in missed'
        /\ link # "up"
    BY <1>11 DEF Dial, DialFails, Unregister, owner, peer, wire, local, history
  <2>2. Asking => Asking'
    BY <2>1, AskingStays
  <2> QED
    BY <2>1, <2>2 DEF PictureInv, FinalPicture
<1>12. CASE Drop
  <2>1. /\ UNCHANGED <<torn, profile, files, row, stored, outbox, pc, answer, reader>>
        /\ toPeer' = <<>> /\ asked' = 0 /\ missed' = missed \cup Lost
    BY <1>12 DEF Drop, owner, peer, local
  <2>2. CASE toPeer = <<>> /\ asked = 0 /\ answer.at = "idle"
    <3>1. Asking => Asking'
      BY <2>1, <2>2, AskingStays
    <3> QED
      BY <2>1, <2>2, <3>1 DEF PictureInv, FinalPicture
  <2>3. CASE ~(toPeer = <<>> /\ asked = 0 /\ answer.at = "idle")
    <3>1. "picture" \in missed'
      BY <1>0, <2>1, <2>3 DEF Lost
    <3> QED
      BY <3>1 DEF PictureInv
  <2> QED
    BY <2>2, <2>3
<1>13. CASE RestartOwner
  <2>1. profile'.pic \notin files' /\ answer'.at = "idle"
    BY <1>0, <1>13 DEF RestartOwner, OwnerStops
  <2> QED
    BY <2>1 DEF PictureInv
<1>14. CASE RestartPeer
  <2>1. /\ UNCHANGED <<profile, files, row, stored, outbox, answer>> /\ reader'.at = "idle"
        /\ toPeer' = <<>> /\ asked' = 0 /\ (torn => torn')
        /\ missed' = missed \cup Lost \cup (IF reader.at # "idle" THEN Parts ELSE {})
        /\ \A r \in Requests : pc'[r] = IF pc[r] = "add" THEN "done" ELSE pc[r]
    BY <1>14, ZenonT(30) DEF RestartPeer, owner, peer, AtRest
  <2>2. CASE toPeer = <<>> /\ asked = 0 /\ answer.at = "idle" /\ reader.at = "idle"
    <3>1. Asking => Asking'
      BY <2>1, <2>2, AskingStays DEF Outside
    <3> QED
      BY <2>1, <2>2, <3>1 DEF PictureInv, FinalPicture
  <2>3. CASE ~(toPeer = <<>> /\ asked = 0 /\ answer.at = "idle" /\ reader.at = "idle")
    <3>1. "picture" \in missed'
      BY <1>0, <2>1, <2>3 DEF Lost
    <3> QED
      BY <3>1 DEF PictureInv
  <2> QED
    BY <2>2, <2>3
<1>15. CASE Ready
  <2>1. Asking' \/ (FinalPicture(profile.pic) => FinalPicture(profile.pic)')
    BY <1>15, ReadyFacts DEF FinalPicture
  <2> QED
    BY <1>15, <2>1, ReadyFacts DEF PictureInv
<1>16. CASE FlushEntry
  BY <1>16, FlushAsks DEF PictureInv
<1>17. CASE RestartUnnamed
  <2>1. /\ UNCHANGED <<torn, profile, files, row, stored, outbox, reader>> /\ answer'.at = "idle"
        /\ toPeer' = <<>> /\ asked' = 0
        /\ missed' = missed \cup Lost \cup (IF Changing THEN Parts ELSE {})
    BY <1>17 DEF RestartUnnamed, OwnerStops, peer, Idle
  <2>2. CASE toPeer = <<>> /\ asked = 0 /\ answer.at = "idle" /\ ~Changing
    <3>1. Asking => Asking'
      BY <2>1, <2>2, AskingStays DEF Changing
    <3> QED
      BY <2>1, <2>2, <3>1 DEF PictureInv, FinalPicture
  <2>3. CASE ~(toPeer = <<>> /\ asked = 0 /\ answer.at = "idle" /\ ~Changing)
    <3>1. "picture" \in missed'
      BY <1>0, <2>1, <2>3 DEF Lost
    <3> QED
      BY <3>1 DEF PictureInv
  <2> QED
    BY <2>2, <2>3
<1>18. CASE UNCHANGED vars
  <2>1. /\ UNCHANGED <<link, missed, torn, profile, files, toPeer, asked, outbox, pc, answer>>
        /\ UNCHANGED <<reader, row, stored>>
    BY <1>18 DEF vars, owner, peer, session, wire, local, history
  <2> QED
    BY <2>1 DEF PictureInv, FinalPicture, Asking
<1> QED
  BY <1>1, <1>2, <1>3, <1>4, <1>5, <1>6, <1>7, <1>8, <1>9, <1>10, <1>11, <1>12, <1>13, <1>14, <1>15, <1>16,
     <1>17, <1>18
  DEF Next, HandleInfoRequest, HandleInfoResponse

\* The same for the picture, as long as the owner has one: whichever of its files the
\* peer's row refers to then holds the picture of the owner's profile.
THEOREM PicturesArrive == Spec => []PictureArrives
<1>1. PictureInv => PictureArrives
  BY DEF PictureInv, PictureArrives, Quiet, Changing, Asking, FinalPicture, Outside
<1>2. CopyInv => TypeInv /\ NewInv
  BY DEF CopyInv
<1> QED
  BY <1>1, <1>2, InitCopyInv, NextCopyInv, InitPictureInv, NextPictureInv, PTL DEF Spec

==================================================================================
