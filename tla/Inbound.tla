--------------------------------- MODULE Inbound ---------------------------------
(* What one end of a session does with a frame: doRecv reads the key exchange of the *)
(* handshake, and then the read loop gives each plaintext to handleDecrypted, which   *)
(* tells signals from file chunks, parses the signal, asks for the status of the      *)
(* session and the rate limiter, and lets handleSignal decode the content.  The other *)
(* end builds its frames with the encoders of Wire.                                  *)
EXTENDS RateLimiter, Wire

CONSTANTS Peer,       \* the key of the peer, as bytes
          Body,       \* Body[t]: the contents the peer sends in signals of type t, and
                      \*   in chunks of files where t is "chunk"
          Ids,        \* the ids that go with them
          Dropped,    \* a signal that is not handled
          None

ASSUME ParcelAssumption ==
  /\ \A id \in Ids : id \in Seq(0 .. Base - 1) /\ Len(id) = IdSize
  /\ "chunk" \in DOMAIN Body => Body["chunk"] \subseteq Seq(0 .. Base - 1)

VARIABLES
  status,    \* the session is in its handshake, pending or accepted
  sent,      \* the parcel that is being read
  got        \* what is made of it: a parcel, or why there is none

vars == <<limiter, status, sent, got>>

Parcel(t) == [type : {t}, id : Ids, body : Body[t]]

Init == NewLimiter /\ status = "handshake" /\ sent = None /\ got = None

----------------------------------------------------------------------------------
(* The frame of a parcel, and what is read from it. *)

HasFormat == {"message", "file_meta", "info_response", "key_exchange"}

EncodeBody(type, body) ==
  CASE type = "message"       -> Encode(body)
    [] type = "file_meta"     -> EncodeFileMeta(body)
    [] type = "info_response" -> EncodeInfoResponse(body)
    [] type = "key_exchange"  -> EncodeKeyExchange(body)
    [] OTHER                  -> body

\* A chunk of a file is its id and its bytes after a zero (sendFile).
Frame(p) ==
  IF p.type = "chunk" THEN <<0>> \o p.id \o p.body
  ELSE New([type |-> p.type, from |-> Peer, id |-> p.id, content |-> EncodeBody(p.type, p.body)])

DecodeBody(type, content) ==
  CASE type = "message"       -> ToMessage(content)
    [] type = "file_meta"     -> Record(Read(content, 0, FileMetaFormat))
    [] type = "info_response" -> Record(Read(content, 0, InfoResponseFormat))
    [] type = "key_exchange"  -> Record(Read(content, 0, KeyExchangeFormat))
    [] OTHER                  -> content

\* handleFileChunk, of the plaintext without its first byte.
ReadChunk(frame) ==
  LET plain == Tail(frame)
  IN IF Len(plain) < IdSize THEN Error
     ELSE [type |-> "chunk", id |-> Slice(plain, 0, IdSize),
           body |-> Slice(plain, IdSize, Len(plain) - IdSize)]

Handled(type, id, body) == IF Failed(body) THEN body ELSE [type |-> type, id |-> id, body |-> body]

\* handleSignal refuses these unless they carry the key of the session's peer.
FromPeer == {"message", "file_meta", "delete", "update"}

ReadParsed(sig) ==
  IF Failed(sig) THEN sig
  ELSE IF TypeOf(sig.type) \in FromPeer /\ sig.from # Peer THEN Error
  ELSE Handled(TypeOf(sig.type), sig.id, DecodeBody(TypeOf(sig.type), sig.content))

ReadSignal(frame) == ReadParsed(Parse(frame))

\* doRecv: the key of the signal, where it has one, replaces the one of the content.
NilKey == [i \in 1 .. KeySize |-> 0]

ReadKeyExchange(frame) ==
  LET sig == Parse(frame)
      result == ReadParsed(sig)
  IN IF Failed(result) \/ sig.from = NilKey THEN result
     ELSE [result EXCEPT !.body.staticPubKey = sig.from]

IsSignal(frame) == frame[1] = Marker

Understand(frame) ==
  IF frame = <<>> THEN Error ELSE IF IsSignal(frame) THEN ReadSignal(frame) ELSE ReadChunk(frame)

----------------------------------------------------------------------------------
(* One frame after the other. *)

Reading(p, result) == sent = None /\ sent' = p /\ got' = result

\* doRecv; the handshake goes on and leaves the session pending or accepted.
DoRecv(p) ==
  /\ status = "handshake" /\ p.type = "key_exchange"
  /\ Reading(p, ReadKeyExchange(Frame(p)))
  /\ status' \in {"pending", "accepted"}
  /\ UNCHANGED limiter

\* Chunks are asked neither for a status nor for a token.
HandleChunk(p) ==
  /\ status # "handshake" /\ ~IsSignal(Frame(p))
  /\ Reading(p, ReadChunk(Frame(p)))
  /\ UNCHANGED <<limiter, status>>

\* Before the peer is accepted only these signals are handled, and none is counted.
Introductory == {"info_request", "info_response", "info_changed", "peer_accepted"}

HandlePending(p) ==
  /\ status = "pending" /\ IsSignal(Frame(p))
  /\ Reading(p, IF p.type \in Introductory THEN ReadSignal(Frame(p)) ELSE Dropped)
  /\ status' = IF p.type = "peer_accepted" THEN "accepted" ELSE status
  /\ UNCHANGED limiter

HandleAccepted(p) ==
  /\ status = "accepted" /\ IsSignal(Frame(p))
  /\ \/ AllowsOne /\ Reading(p, IF p.type = "key_exchange" THEN Dropped ELSE ReadSignal(Frame(p)))
     \/ AllowsNone /\ Reading(p, Dropped)
  /\ UNCHANGED status

\* adminAcceptPeer, at any time.
Accept ==
  /\ status = "pending"
  /\ status' = "accepted"
  /\ UNCHANGED <<limiter, sent, got>>

\* The read loop waits for the next frame, for any time.
Done ==
  /\ sent # None
  /\ sent' = None /\ got' = None
  /\ UNCHANGED <<limiter, status>>

Wait ==
  /\ sent = None
  /\ Tick
  /\ UNCHANGED <<status, sent, got>>

Next ==
  \/ \E t \in DOMAIN Body : \E p \in Parcel(t) :
       DoRecv(p) \/ HandleChunk(p) \/ HandlePending(p) \/ HandleAccepted(p)
  \/ Accept \/ Done \/ Wait

Spec == Init /\ [][Next]_vars

----------------------------------------------------------------------------------
(* Properties *)

\* The values of the state.
TypeOK ==
  /\ LimiterTypeOK
  /\ status \in {"handshake", "pending", "accepted"}
  /\ sent # None => sent \in Parcel(sent.type)

\* A frame that is handled is read as what the peer sent, field by field, up to the
\* longest names that fit and with any number of attachments; no decoder returns an
\* error or panics on what an encoder wrote, and no chunk is taken for a signal.
ReadsWhatWasWritten == got \in {None, sent, Dropped}

\* The length checks of the decoders: a frame, or a content, that ends early is refused
\* with an error wherever it is cut, and never read as something else nor sliced
\* beyond its end.
PrefixesRefused ==
  sent # None /\ sent.type # "chunk" =>
    LET frame == Frame(sent)
        content == EncodeBody(sent.type, sent.body)
    IN /\ \A n \in 0 .. Len(frame) - 1 : Understand(SubSeq(frame, 1, n)) = Error
       /\ sent.type \in HasFormat =>
            \A n \in 0 .. Len(content) - 1 : DecodeBody(sent.type, SubSeq(content, 1, n)) = Error
==================================================================================
