-------------------------------- MODULE Reconnect --------------------------------
(* Keeping a connection alive and making it again: ConnectToPeer and readLoop at the  *)
(* dialer, startSession, pingLoop and readLoop at the server, with their deadlines.   *)
(* Time passes in ticks; every timer holds the ticks it has left.  The network is     *)
(* TCP: an outage delays what was sent and loses nothing, an end that has closed its  *)
(* connection throws away what still arrives.  Dialling and the handshake take no     *)
(* time; what they exchange is the subject of Handshake.                              *)
EXTENDS Naturals, Sequences

CONSTANTS Timeout,     \* -t: read deadline of both ends
          PingPeriod,  \* -ping-window
          PingGrace,   \* the dialer's deadline after a ping (60 s)
          RetryAfter,  \* the dialer's pause (2 s)
          Latency,     \* bound: ticks that a frame takes while the network is up
          MaxFrames,   \* bound: a message is sent only if fewer frames are under way
          MaxOutages   \* bound: outages of the network

ASSUME TimingAssumption ==
  /\ {Timeout, PingPeriod, PingGrace, RetryAfter, MaxFrames} \subseteq Nat \ {0}
  /\ Latency \in Nat /\ MaxOutages \in Nat
  /\ PingPeriod + 2 * Latency < Timeout   \* 5 s and 15 s by default
  /\ Timeout <= PingGrace
  /\ Latency < RetryAfter

VARIABLES
  net,        \* whether the network is up
  outages,    \* number of outages so far
  serving,    \* whether the server's process runs
  entry,      \* the server has a session of the dialer, its read loop runs
  sDeadline,  \* ticks until its read fails
  pinging,    \* its ping loop runs
  ping,       \* ticks until the next ping
  dialer,     \* "dial", "chat", "wait" or "over"
  dTimer,     \* ticks until the dialer's read fails, or until it dials again
  toServer,   \* frames under way
  toDialer,
  disturbed,  \* history: an outage or a failed ping since the connection was made
  why         \* history: why the dialer's loop has ended, or "no"

network == <<net, outages>>
server  == <<serving, entry, sDeadline, pinging, ping>>
client  == <<dialer, dTimer>>
wire    == <<toServer, toDialer>>
loops   == <<network, server, client, wire, disturbed, why>>

Frame(kind) == [kind |-> kind, left |-> Latency]
Send(chan, kind) == Append(chan, Frame(kind))

LoopInit ==
  /\ net = TRUE /\ outages = 0 /\ serving = TRUE /\ entry = FALSE /\ sDeadline = 0
  /\ pinging = FALSE /\ ping = 0
  /\ dialer = "dial" /\ dTimer = 0
  /\ toServer = <<>> /\ toDialer = <<>>
  /\ disturbed = FALSE /\ why = "no"

----------------------------------------------------------------------------------
(* The dialer: ConnectToPeer, connectAndChat, dialAndHandshake, readLoop. *)

\* handleWS has no session of the dialer: both ends begin to read, with a deadline.
Connect ==
  /\ dialer = "dial" /\ net /\ serving /\ ~entry
  /\ dialer' = "chat" /\ dTimer' = Timeout
  /\ entry' = TRUE /\ sDeadline' = Timeout /\ pinging' = TRUE /\ ping' = PingPeriod
  /\ toServer' = <<>> /\ toDialer' = <<>>
  /\ disturbed' = FALSE
  /\ UNCHANGED <<network, serving, why>>

\* 409: "session already active"; not retried.
Refused ==
  /\ dialer = "dial" /\ net /\ serving /\ entry
  /\ dialer' = "over"
  /\ why' = "refused"
  /\ UNCHANGED <<network, server, dTimer, wire, disturbed>>

\* Nor is a dial that fails.
RedialFails ==
  /\ dialer = "dial" /\ ~(net /\ serving)
  /\ dialer' = "over" /\ why' = "failed"
  /\ UNCHANGED <<network, server, dTimer, wire, disturbed>>

\* Mutants of Disconnected: it dials at once; or it gives up.
Disconnected_AtOnce == dialer' = "dial" /\ dTimer' = 0
Disconnected_ForGood == dialer' = "over" /\ dTimer' = 0

\* A disconnectedError: the loop pauses before it dials again.
Disconnected == dialer' = "wait" /\ dTimer' = RetryAfter

\* The read fails, by its deadline or since the connection was closed at this end
\* (adminDeleteSession); readLoop closes the connection.
HangUp ==
  /\ dialer = "chat"
  /\ Disconnected
  /\ toServer' = Send(toServer, "fin")
  /\ UNCHANGED <<network, server, toDialer, disturbed, why>>

DialerExpires == dTimer = 0 /\ HangUp

DialAgain ==
  /\ dialer = "wait" /\ dTimer = 0
  /\ dialer' = "dial"
  /\ UNCHANGED <<network, server, dTimer, wire, disturbed, why>>

\* The context is cancelled and the process ends.
Quit ==
  /\ dialer \in {"chat", "wait"}
  /\ dialer' = "over" /\ why' = "told"
  /\ toServer' = IF dialer = "chat" THEN Send(toServer, "fin") ELSE toServer
  /\ UNCHANGED <<network, server, dTimer, toDialer, disturbed>>

\* Mutant of AnswerPing: only the deadline is moved.
AnswerPing_Silent == dTimer' = PingGrace /\ UNCHANGED <<dialer, toServer>>

\* The ping handler.
AnswerPing ==
  /\ dTimer' = PingGrace
  /\ toServer' = Send(toServer, "pong")
  /\ UNCHANGED dialer

\* What arrives at the dialer: a ping, a message, after which readLoop sets its own
\* deadline again, or the end of the connection.
DialerReads ==
  /\ net /\ toDialer # <<>>
  /\ toDialer' = Tail(toDialer)
  /\ \/ dialer = "chat" /\ Head(toDialer).kind = "ping" /\ AnswerPing
     \/ dialer = "chat" /\ Head(toDialer).kind = "data"
        /\ dTimer' = Timeout /\ UNCHANGED <<dialer, toServer>>
     \/ dialer = "chat" /\ Head(toDialer).kind = "fin"
        /\ Disconnected /\ UNCHANGED toServer
     \/ dialer # "chat" /\ UNCHANGED <<client, toServer>>
  /\ UNCHANGED <<network, server, disturbed, why>>

DialerSends ==
  /\ dialer = "chat" /\ Len(toServer) < MaxFrames
  /\ toServer' = Send(toServer, "data")
  /\ UNCHANGED <<network, server, client, toDialer, disturbed, why>>

----------------------------------------------------------------------------------
(* The server: startSession, pingLoop, readLoop. *)

\* readLoop returns: the entry goes and the connection is closed, with its ping loop.
EndSession ==
  /\ entry' = FALSE /\ pinging' = FALSE /\ sDeadline' = 0 /\ ping' = 0

\* adminDeleteSession.
ServerCloses ==
  /\ entry
  /\ EndSession
  /\ toDialer' = Send(toDialer, "fin")
  /\ UNCHANGED <<network, serving, client, toServer, disturbed, why>>

\* Mutant of ServerExpires: a failed read ends the pings and the loop goes on.
ServerExpires_Logs ==
  /\ entry /\ sDeadline = 0
  /\ sDeadline' = Timeout /\ pinging' = FALSE
  /\ UNCHANGED <<network, serving, entry, ping, client, wire, disturbed, why>>

ServerExpires == sDeadline = 0 /\ ServerCloses

SendPing ==
  /\ pinging /\ ping = 0
  /\ ping' = PingPeriod
  /\ toDialer' = Send(toDialer, "ping")
  /\ UNCHANGED <<network, serving, entry, sDeadline, pinging, client, toServer, disturbed, why>>

\* The write fails: the ping loop ends and cancels the context, which nobody reads.
PingFails ==
  /\ pinging /\ ping = 0 /\ ~net
  /\ pinging' = FALSE
  /\ disturbed' = TRUE
  /\ UNCHANGED <<network, serving, entry, sDeadline, ping, client, wire, why>>

\* A pong and a message both move the deadline; "fin" ends the read loop.
ServerReads ==
  /\ net /\ toServer # <<>>
  /\ toServer' = Tail(toServer)
  /\ \/ entry /\ Head(toServer).kind \in {"pong", "data"}
        /\ sDeadline' = Timeout /\ UNCHANGED <<entry, pinging, ping>>
     \/ entry /\ Head(toServer).kind = "fin" /\ EndSession
     \/ ~entry /\ UNCHANGED <<entry, sDeadline, pinging, ping>>
  /\ UNCHANGED <<network, serving, client, toDialer, disturbed, why>>

ServerSends ==
  /\ entry /\ Len(toDialer) < MaxFrames
  /\ toDialer' = Send(toDialer, "data")
  /\ UNCHANGED <<network, server, client, toServer, disturbed, why>>

\* The process ends, by Shutdown or a crash; the system closes its connections.
ServerStops ==
  /\ serving
  /\ serving' = FALSE
  /\ EndSession
  /\ toDialer' = IF entry THEN Send(toDialer, "fin") ELSE toDialer
  /\ UNCHANGED <<network, client, toServer, disturbed, why>>

ServerStarts ==
  /\ ~serving
  /\ serving' = TRUE
  /\ UNCHANGED <<network, entry, sDeadline, pinging, ping, client, wire, disturbed, why>>

----------------------------------------------------------------------------------
(* The network and time. *)

NetDown ==
  /\ net /\ outages < MaxOutages
  /\ net' = FALSE /\ outages' = outages + 1
  /\ disturbed' = TRUE
  /\ UNCHANGED <<server, client, wire, why>>

\* What was held up is on its way again.
Again(chan) == [i \in DOMAIN chan |-> Frame(chan[i].kind)]

NetUp ==
  /\ ~net
  /\ net' = TRUE /\ UNCHANGED outages
  /\ toServer' = Again(toServer) /\ toDialer' = Again(toDialer)
  /\ UNCHANGED <<server, client, disturbed, why>>

Due(chan) == \E i \in DOMAIN chan : chan[i].left = 0
Older(chan) == [i \in DOMAIN chan |-> [chan[i] EXCEPT !.left = IF net THEN @ - 1 ELSE @]]
Less(timer, runs) == IF runs THEN timer - 1 ELSE timer

\* What is due happens before time goes on.
Tick ==
  /\ net => ~Due(toServer) /\ ~Due(toDialer)
  /\ entry => sDeadline > 0
  /\ pinging => ping > 0
  /\ dialer # "dial"
  /\ dialer \in {"chat", "wait"} => dTimer > 0
  /\ sDeadline' = Less(sDeadline, entry) /\ ping' = Less(ping, pinging)
  /\ dTimer' = Less(dTimer, dialer \in {"chat", "wait"})
  /\ toServer' = Older(toServer) /\ toDialer' = Older(toDialer)
  /\ UNCHANGED <<network, serving, entry, pinging, dialer, disturbed, why>>

LoopNext ==
  \/ Connect \/ Refused \/ RedialFails \/ HangUp \/ DialAgain \/ Quit
  \/ DialerReads \/ DialerSends
  \/ ServerCloses \/ ServerExpires \/ SendPing \/ PingFails \/ ServerReads \/ ServerSends
  \/ ServerStops \/ ServerStarts
  \/ NetDown \/ NetUp \/ Tick

LoopSpec == LoopInit /\ [][LoopNext]_loops

(* Timers run, loops go on, and what is under way arrives while the network is up;    *)
(* nothing is assumed of the network, of users or of the processes.                   *)
LoopFairSpec ==
  /\ LoopSpec
  /\ WF_loops(Tick)
  /\ WF_loops(Connect \/ Refused \/ RedialFails) /\ WF_loops(DialAgain)
  /\ WF_loops(DialerReads) /\ WF_loops(DialerExpires)
  /\ WF_loops(ServerReads) /\ WF_loops(ServerExpires) /\ WF_loops(SendPing \/ PingFails)

----------------------------------------------------------------------------------
(* Properties *)

Frames == [kind : {"ping", "pong", "data", "fin"}, left : 0 .. Latency]

\* The values of the state; the ping loop does not outlive its session, nor a session
\* its process.
LoopTypeOK ==
  /\ net \in BOOLEAN /\ outages \in 0 .. MaxOutages /\ serving \in BOOLEAN /\ entry \in BOOLEAN /\ pinging \in BOOLEAN
  /\ sDeadline \in 0 .. Timeout /\ ping \in 0 .. PingPeriod
  /\ dialer \in {"dial", "chat", "wait", "over"} /\ dTimer \in Nat
  /\ why \in {"no", "refused", "failed", "told"} /\ (why # "no" <=> dialer = "over")
  /\ toServer \in Seq(Frames) /\ toDialer \in Seq(Frames) /\ disturbed \in BOOLEAN
  /\ pinging => entry
  /\ entry => serving

\* A connection whose network has not failed is kept however long it is silent: pings
\* and pongs move both read deadlines in time.
LiveIsKept == entry /\ dialer = "chat" /\ ~disturbed => sDeadline > 0 /\ dTimer > 0

\* Without an outage the server has let go of the old connection by the time that the
\* dialer tries again: a 409, which the dialer takes for good, only follows an outage.
RefusedOnlyAfterOutage == why = "refused" => disturbed

\* An end whose counterpart is gone notices it, whatever the network does.
HalfOpenIsNoticed == (entry # (dialer = "chat")) ~> (entry = (dialer = "chat"))

\* A dialer whose connection the server has ended is connected again, unless there is
\* an outage, the server stops or the dialer is told to.
Reconnects ==
  (dialer = "chat" /\ ~entry /\ ~disturbed)
    ~> ((dialer = "chat" /\ entry) \/ disturbed \/ ~serving \/ why = "told")
================================================================================
