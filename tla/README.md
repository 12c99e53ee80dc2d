# A TLA+ model of end-to-end-chat

The program is a chat client in Go. Each client listens for websocket connections, dials
others, agrees on session keys with them, exchanges encrypted signals, and keeps messages,
files, peers and undelivered signals in SQLite. There is no server in between: two clients
and the network are the whole system. Paths below are relative to `src/`.

## Parts of the system

| part | source | module | state of the model |
|---|---|---|---|
| handshake | `client/session.go` | `Handshake` | modelled, proved |
| encryption, send, receive, close | `client/session.go`, `client/handlers.go` | `SecureChannel`, abstract `PrefixChannel` | modelled, proved |
| peer rows, sessions map, admin requests | `client/handlers.go`, `client/peer.go`, `client/api.go`, `store/peers.go` | `PeerSessions` | status and map entry modelled, proved |
| messages: rows, cache, index, attachment | `message/message.go`, `store/chats.go`, `store/files.go` | `MessageStore` | modelled, proved |
| outbox, delivery, broadcast of edits and deletes, typed lines | `client/client.go`, `client/api.go`, `client/peer.go`, `store/outbox.go` | `Delivery` | modelled, proved |
| ping loop, read deadlines, connect loop | `client/handlers.go`, `client/peer.go` | `Reconnect` | modelled, proved |
| profile and info signals | `client/client.go`, `client/api.go`, `store/profile.go` | `ProfileSync` | modelled, proved |
| file transfer | `client/client.go`, `client/api.go` | `FileTransfer` | modelled, proved |
| wire formats | `signal/signal.go`, `message/message.go`, codecs in `client/` | `Wire` | modelled, model-checked |
| dispatch of frames, rate limiter | `client/client.go`, `client/session.go`, `client/ratelimit.go` | `Inbound`, which extends `Wire` and `RateLimiter` | modelled; limiter and the path of file chunks proved, the rest of the dispatch model-checked |
| keys, configuration, start-up, web UI | `keys/`, `config/`, `cmd/`, `ui/` | | not modelled |

A connection starts in `Handshake`; `Agreement` is the state from which `SecureChannel`
starts. `Delivery`, `ProfileSync` and `FileTransfer` use a session as `SecureChannel` shows
it to be with one writer at a time: an ordered channel that loses what is in flight when it
ends. `Inbound` is the road from a decrypted frame to its handler, `Wire` the bytes on it;
the modules above it speak of signals that arrive whole, which `ReadsWhatWasWritten` is
about. `PeerSessions` is about which of several connections of one peer is the session that
the others see, `Reconnect` about when a connection ends and is made again. `Inbound` is
composed with EXTENDS. The other links are assumptions that one module makes and another
checks; a product of two of these state spaces is beyond TLC.

Throughout, both clients follow the protocol. The 64-bit nonce counter is a natural number:
its overflow is out of reach of a session.

## How the modules correspond to the code

**Grain.** One action is one critical section, one database statement, one access to the
sessions map or one read or write on a connection. What the code does between two of them
is interleaved with everything else. `PROJECT.json` gives the lines of each definition.

- `SecureChannel`: `encrypt` is two actions (take a nonce; seal), the write is a third.
  `decrypt` is also two (check the nonce; open and count). `closeConn` erases the key bytes
  and then closes; a frame sealed or opened meanwhile may use the session key, zeros or a
  mixture, which is a nondeterministic choice. The history variables are what took a nonce,
  what was sealed, delivered and refused.
- `Handshake`: an end of a connection generates a key, then sends and receives in the order
  of its role, verifies and derives. A key exchange is a record; the shared secret is the
  unordered pair of ephemeral keys; a derived key is a label and a secret.
- `PeerSessions`: one goroutine per connection or admin request, with the labels of
  `handleWS`, `startSession`, `dialAndHandshake`, `storeSession` and `readLoop`. A dial opens
  a connection, makes the handshake on it, which may fail, and only then looks the peer up.
  A change of a `known_peers` row is a Get and a later Add of the whole row. `verdict` records whether
  the last reject found every goroutine at rest ("clean") or not ("raced").
- `MessageStore`: one message, statement by statement, with expiry of the cache and
  restarts. An own message is sent once (`apiSendMessage`: Put, the send, and the attachment
  only after a send that succeeds). A message of a peer may be received several times
  (`handleSignal`: Put), and its attachment arrives separately (`finalizeFile`), with or
  without the message. Either is read, edited and deleted. `Spec` interleaves operations,
  `SerialSpec` runs one at a time.
- `Delivery`: one sender, one peer, with the status each side has of the other, the
  connection, the outbox, send requests, lines typed at the console, flushes, acceptance,
  restarts of the sender, and the requests that edit or delete a message: their local
  effect, the broadcast to the sessions there are, and what the peer makes of it. A
  goroutine keeps the session it has looked up until it returns, as in the code. A request
  that accepts the other client is three steps (row, status of the session, notice), and
  there is one such request at a time. The status
  "rejected" is left to `PeerSessions`, the order of a flush is open, and the rate limiter
  is a choice to drop a signal.
- `Reconnect`: the dialer's loop with its pause, the server's ping loop and both read
  deadlines, with time in ticks. The network is TCP: an outage delays frames and loses none.
  Dialling and the handshake take no time. A dial that fails, or is refused with 409, ends
  the dialer's loop for good, as in `ConnectToPeer`. Its specification is `LoopSpec`, so that
  `ConnectionProofs` can extend it together with `PeerSessions`.
- `ProfileSync`: the owner's profile and picture, the announcement `info_changed` on
  sessions and through the outbox, the request and the answer, and the peer's replacement
  of picture and row. Every database call is a step and succeeds. `RewriteRow` is any other
  Get and Add of that row (`adminSetNickname`, `handlePeerAccepted`, `updatePeerStatus`, the
  last-seen time that `readLoop` writes). The row that `handleWS` adds before the handshake
  is not told apart from the one after it. The flush at the start of a session is one step,
  and finds the session accepted, or sends nothing; a flush for an admin goes entry by entry.
  `New` writes the name of `-client` (or its default) into the profile at every start
  (`RestartOwner`), unless `-client` is empty (`RestartUnnamed`).
- `FileTransfer`: one file, chunk by chunk, through the session or the outbox, and the
  receiver's buffer. `Chunks` is the number of reads `sendFile` makes and `Sent[i]` the bytes
  that it has after `i` of them, so that a chunk can have any length above zero and a file
  can be empty; the size that is announced is what is read. It assumes that outbox entries of the same second are returned in
  insertion order. SQL does not promise this. The same query returned it with SQLite 3.40.1
  on up to 200 000 rows; the driver that the program links was not tried.
- `Wire`: encoders and decoders as operators on sequences of digits in base `Base`. The
  decoders of the source all have one form: check that there is a header, then read field by
  field, each string with a check of its length and of what is read next. `Read` is that form,
  and each decoder is a list of its fields and checks; the encoders are written out on their
  own. A slice or an integer beyond the end is `Panic`.
- `Inbound`: `doRecv`, `handleDecrypted` and `handleSignal` up to the decoding of the
  content, by status, with the limiter's `Allow` (one action, it holds the mutex) asked
  where the code asks it. Messages, file announcements, edits and deletions are refused
  unless they carry the key of the session's peer, and in the handshake the key of a signal
  replaces that of its content. Time passes between frames. The limiter's history variables count
  what it let through so far, and before each moment.

## Runs

Bounds are the sets and numbers in the `.cfg` files. Deadlock is checked only in
`reconnect`, whose timers never stop; elsewhere every goroutine is started a bounded number
of times and ends, so all may legitimately stop.

| run | checks | bounds | distinct states |
|---|---|---|---|
| `channel` | unique nonces, refinement of `PrefixChannel`, a refused frame ends its direction | 2 + 1 sending goroutines, 2 + 1 sends, 2 plaintexts | 556 352 |
| `channel_one_writer` | nothing refused, all arrives, the end reaches both | 1 + 1 goroutines, 3 + 1 sends | 110 959 |
| `handshake` | agreement, fresh keys, no lone initiator; termination | 2 connections in opposite directions | 71 060 |
| `sessions` | no leaked entry or socket, a clean reject holds; the entry of a closed connection goes away | 1 inbound, 1 outbound, 1 admin request of any kind | 245 150 |
| `messages` | cache and index agree with the row, a message sent keeps its file, a message that goes takes its file along; deletes hold | 1 send, 2 receipts, 1 file that arrives, 2 reads, edits and deletions, serial, restarts | 682 627 |
| `inbound` | a frame is read as it was written, one that ends early is refused; bounded bursts, no undue refusal | base 4, limit 2, window 7 (not a multiple), 8 ticks | 29 250 |
| `delivery` | nothing lost silently, entries leave when written, a deletion at the peer is final, copies agree at rest; a flush drains | 2 messages (one may be typed), 1 edit, 1 delete, 1 admin flush, 2 sessions | 1 463 116 |
| `profile` | name and picture arrive, no picture missing or left over; an announced change arrives | 2 requests (one may be a rewrite of the row), 2 sessions, 4 pictures | 747 946 |
| `reconnect` | a live connection is kept, 409 only after an outage; a half-open end notices, a dialer reconnects | read deadline 5, ping 2, grace 8, pause 2, latency 1, 2 outages | 402 533 |
| `files` | stored files are whole unless resent; transfers complete | chunks of 2, 2, 1 bytes; 3 sessions, 1 admin flush | 584 420 |

The type invariant of `FileTransfer` is checked by its run; those of all modules with proofs
are theorems. Why these bounds reach the interesting cases:

- Two goroutines are the fewest whose writes can cross. What follows a gap takes a third
  send, which the theorem `GapsArePermanent` covers.
- In `sessions` a request meets both connections at every step of each; two requests at
  once are covered by the theorems, and by an instance with a reject beside one other
  request, which TLC also finished without error for all four properties (1 589 572 states).
  It takes four minutes, and is not kept as a run.
- In `delivery` and `profile` one process acts as one of several kinds (the same model
  value is in several sets). In `delivery` a message, an edit and the flushes at the start of
  the sessions are always there; the fourth process is a second message, a typed line, a
  delete or an admin flush. That a delete and an admin flush do not meet in the run
  does not matter to the safety properties, which are proved. Two sessions let work outlive a
  connection, and the third of `files` lets a chunk fail twice. With four pictures the peer
  replaces a picture three times.
- In `inbound` a length of two digits is at most 15, so the longest name that fits is among
  the inputs; names are empty or longest, sizes are 0 or the largest, attachments none or
  two. Frames of chunks carry no length and have no early end.
- The ticks of `reconnect` keep the order of the program's times (ping 5 s < read deadline
  15 s < grace 60 s) and leave room for a ping and its answer before a deadline.

For the properties under "Theorems" the bounds do not matter.

### What the properties leave out, and why

Some properties name the overlaps in which the code does not keep the promise. Each such
exception is there because TLC gave a counterexample without it. A hazard of `PROJECT.json`
names a property only for what the property does not leave out; its note says the rest.

- `NameArrives`, `PictureArrives`, `ChangeArrives` leave out a change that found no session
  to be announced on (a change of name while a session is being set up is missed; a new
  picture is not fetched by a peer that was offline until it asks), a signal that was lost or
  dropped by the limiter, and a row that was written back from an older copy. A deleted
  picture is never removed at the peers, hence "as long as the owner has one". A restart of
  the owner sets the name of the command line and no picture.
- `OnePicture` leaves out a row that was written back late and a peer that restarts between
  replacing the picture and storing the row; `OwnPicture` leaves out requests that overlap,
  and a start without a name between the deletion of the old picture and the save.
- `RejectHolds` and `RejectSticks` speak of the time until the peer is accepted again, by an
  admin or by its own `peer_accepted`: `handlePeerAccepted` sets the row whatever it says,
  so that this signal of a rejected peer, on a session that this client dialled, or that
  still ran, ends the reject.
- `InStep` leaves out changes that were made without a connection (a broadcast is not
  queued), lost with it, ignored by the peer (no copy yet, a pending session, or dropped by
  the limiter), or overtaken by another change of the same message, and messages that two
  flushes wrote twice. `DeletedStaysGone` leaves out only the last. The run has no delete
  beside an admin flush, and there the exception is not needed; with one message, one delete,
  one admin flush and two sessions TLC finds the message that comes back.
- `RefusedOnlyAfterOutage` and `LiveIsKept` leave out connections with an outage. After one,
  the dialer's new attempt can meet its own old entry at the server and is told 409, after
  which it gives up for good: the dialer hangs up, an outage holds up the end of the
  connection, the network is back as the pause ends, and the server still has the entry. A
  failed ping only cancels a context that nobody reads; the entry stays until the read
  deadline.

### What the code does otherwise than documented

Two runs end in a counterexample; `PROJECT.json` quotes the text they disagree with.

| run | what happens |
|---|---|
| `channel_reordered` | two goroutines write in another order than they took nonces; from then on the receiver refuses everything on a session that stays up |
| `sessions_reject_lost` | a reject between Get and Add of the row is overwritten |

The list of runs in `PROJECT.json` is kept to one for each main question. The configurations
below are not in it. They are kept because each was run and shows something; nothing in
`PROJECT.json` rests on them. All but the last end in a counterexample.

| configuration | property | what TLC shows |
|---|---|---|
| `PeerSessionsListed` | `ActiveSessionListed` | two connections pass the check together; the end of one deletes the entry of the other |
| `PeerSessionsCloses` | `RejectCloses` | a peer rejected during its handshake gets its session all the same |
| `MessageStoreReadDelete` | `DeletedIsGone` | a read that overlaps a delete puts the deleted text back in the cache |
| `MessageStoreUpdateDelete` | `NotResurrected` | an update that overlaps a delete puts the row back |
| `MessageStoreRestart` | `Searchable` | a restart between row and index leaves a message the search never finds |
| `DeliveryOnline` | `QueuedOnlyOffline` | what was queued while a session was pending stays queued after acceptance |
| `DeliveryMutual` | `AcceptedIsMutual` | a message sent before the new session is demoted to pending is dropped by the peer and answered with success |
| `FileTransferResent` | `StoredIsWhole` | two flushes send one chunk twice; the file is stored with it in place of the last chunk |
| `MessageStoreExpiry` | `StaleCopyExpires` | holds: a stale copy does not stay in the cache for ever |

`FileTransfer` also has the action `SkipFiles`: without an accepted session the attachments
of a message are neither sent nor queued, although the message is. Nothing says what becomes
of them, so no property is about it.

### Fairness

Only weak fairness, and only for steps of a goroutine that has been started: database calls
return, reads and writes have deadlines, a read on a closed connection fails, timers run,
and a cache entry expires. `SecureChannel`, `ProfileSync`, `Reconnect` and
`FileTransfer` also assume that a frame on a connection that stays up is read. In
`Handshake` fairness is given only to the clients in `Live`; the others may stall for ever.
No send, connection, acceptance, admin flush or restart is assumed to happen, and the network
owes nothing.

## Theorems

Proved for all values of the constants, from the named assumption of each module:
bounds are natural numbers, `None` is no value, goroutines of different kinds (sessions and
requests, flushes, the operations of the store) are different, the two ends of a
connection have different owners and roles. `FileTransfer` assumes that every chunk has a
byte (`sendFile` sends none that is empty), `Inbound` that an id has the length of an id and
that chunks are bytes. `Reconnect` assumes
`TimingAssumption`: a ping period and a round trip fit in the read deadline, the grace after
a ping is no shorter than the deadline, and a frame takes less than the dialer's pause. The
program's defaults (5 s, 15 s, 60 s, 2 s) satisfy it for a latency below 2 s.

| module | theorems | argument |
|---|---|---|
| `SecureChannelProofs` | `NoncesAreUnique`, `SessionDeliversPrefix`, `GapsArePermanent`, `OneWriterNothingRefused` | `OrderInv`: everything on its way carries the plaintext that took its nonce, the counters count, and a frame being opened is the one expected. `GapInv` adds that a nonce is in one place only and never behind the receiver. `WriterInv`, with one goroutine at each end: while both ends are open, the frames on the wire are numbered from the nonce that the receiver expects, and the sender is at the number after them or holds the one frame with it |
| `HandshakeProofs` | `KeysAgree`, `KeysAreOwn`, `InitiatorHasAPeer` | `OriginInv`: what is in flight or read was sent by the other end, and ephemeral keys are distinct. `OrderInv`: a responder that has answered can no longer fail |
| `MessageStoreProofs` | `CacheIsCoherent`, `IndexIsCoherent`, `DeleteIsFinal`, `AttachmentsGoFirst` | for `SerialSpec`; `SerialInv` gives what holds at each label, also after a restart: an operation about to delete the row has deleted the file. `GoneInv`: after a delete only reads that find nothing run, and files that arrive |
| `DeliveryProofs` | `NothingIsLostSilently`, `OutboxKeepsUnwritten`, `DeletionReachesForGood`, `CopiesInStep` | `OutboxInv`: an entry about to be deleted was written. `CopyInv`: a message that was not written is neither at the peer nor in flight, and one that was written once is in flight once, and only while the peer has no copy. `ChatInv`: the last signal in flight about a message says what the sender's copy does, unless a change is still to be broadcast; a message that was not written has its first text or was changed behind the peer's back; messages and changes are stored before they travel |
| `ConnectionProofs`, on `Reconnect` | `LiveConnectionIsKept`, `RedialIsAdmitted` | `CalmInv`: without an outage some ping or pong is under way, or will be sent, that arrives before each deadline, and while the dialer pauses the end of the old connection reaches the server first. `FinInv`: an end that was announced has ended |
| `ConnectionProofs`, on `PeerSessions` | `EntriesAreServed`, `ConnectionsAreClosed`, `RejectIsKept` | the first is inductive; `ConnInv` adds that a goroutine before its upgrade has no socket; `RejectInv` says where goroutines can be after a clean reject and which status they carry |
| `FileTransferProofs` | `TransferKeepsTypes`, `StoredFilesAreWhole`, `ChunksLeaveInOrder` | see below |
| `ProfileSyncProofs` | `TypeCorrect`, `OwnPictureIsThere`, `OnePictureIsKept`, `NamesArrive`, `PicturesArrive` | `TypeInv`, which `TypeCorrect` states: what requests and read loops hold where they are, and that nothing refers to a picture not stored yet. `OwnerInv`: nobody has the picture of a request that has not saved, and the profile's is missing only between its deletion and the save. `CopyInv`: what the peer has stored at each step of a replacement. `NameInv` and `PictureInv`: unless something under way makes the peer ask again, the last answer under way (in the owner's hands, in flight, with the peer's read loop, or in the row) has the name and the picture of the profile |
| `InboundProofs` | `LimiterKeepsBounds`, `BurstsAreBounded`, `RefusesOnlyWhenSpent`, `ChunksAreReadBack` | the first is the type invariant. `RateInv` and `SpentInv` add what was let through from a moment on to what is left in the bucket: the sum is at most a full bucket and one for each interval refilled since, and at least a full bucket or one for each such interval. The last rests on `ChunkFrame`: what `sendFile` puts together begins with a zero and not with the marker of a signal, and the slices that `handleFileChunk` makes meet where the parts did |

Each of these modules also proves its type invariant. The properties themselves are not
inductive (but for `NoLeakedEntry`): they say nothing of values that a goroutine has read
and not yet used, or of frames under way. `SessionDeliversPrefix` is a refinement proof: each
direction of a session implements `PrefixChannel`.

`StoredFilesAreWhole` takes the longest argument of those about one file. That the receiver
counts bytes, and not chunks, makes it true: chunks may be lost with a connection, and the
receiver goes on with what comes after them.

1. `SenderInv`: a session that `sendFile` cannot write to never becomes one that it can, so
   that once a chunk has been queued, all later ones are queued behind it.
2. `QueueInv`, `WrittenInv`, `BatchInv`: hence the outbox is a run of consecutive chunks up to
   the last that was read; every flush has a run that begins where the outbox does, or before;
   what has been written to some connection is the beginning of the file. This is
   `ChunksLeaveInOrder`, however many flushes there are.
3. `ChanInv`: unless a chunk was written twice, what is in flight is in increasing order, and
   so is what has been received.
4. `PendingInv`: what has been collected is the beginning of the file, or chunks are missing
   in it and it has fewer bytes than the file has up to the last chunk collected. The second
   kind never has as many bytes as the file; the first has when it is the file.

No sum over a sequence is needed, because the model has the bytes up to each chunk, `Sent`,
and a counter `received`, as the code does.

Only model-checked:

- every liveness property: liveness under fairness is beyond the proof system;
- what `Wire`'s encoders and decoders compute (`ReadsWhatWasWritten`, but for chunks of
  files, and `PrefixesRefused`): they fold over sequences of any length, which takes an
  induction over data that the provers cannot do.

`OneWriterNothingRefused` has a hypothesis of its own, that each end has at most one sending
goroutine; without it `NothingRefused` is false.

## Not modelled

- Cryptography (`keys/`, the ciphers, key derivation) is taken at its word: a sealed frame
  opens only under its key, a signature verifies only for its signer.
- Flags and start-up (`config/`, `cmd/`), the web page (`ui/`), the HTTP routing and the
  parsing of requests, and handlers that only read (lists, search, downloads): no state.
- SQL, the schema and encryption at rest; a statement is atomic and does not fail.
- Of a peer's row, the address, the nickname and the last-seen time: columns that the same
  Get and Add carry along.
- Several peers at once: sessions of different peers share only the maps and tables, keyed by
  peer.
