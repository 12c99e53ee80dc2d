----------------------------- MODULE ConnectionProofs ----------------------------
(* Proofs about the connections of a client: about Reconnect, for every timing that    *)
(* TimingAssumption allows, and about PeerSessions, for every set of goroutines.       *)
EXTENDS Reconnect, PeerSessions, TLAPS

USE ZenonT(1), SMTT(30)

\* In time: some frame of this kind is under way and arrives before the timer, less
\* the ticks that are needed afterwards, runs out.
Arrives(chan, kind, timer, after) ==
  \E i \in DOMAIN chan : chan[i].kind = kind /\ chan[i].left + after < timer

Has(chan, kind) == \E i \in DOMAIN chan : chan[i].kind = kind

\* The dialer's deadline is after the next ping: the one under way or the one to come.
PingInTime == Arrives(toDialer, "ping", dTimer, 0) \/ ping + Latency < dTimer

\* The server's deadline is after the next pong: one under way, or the answer to a ping.
PongInTime ==
  \/ Arrives(toServer, "pong", sDeadline, 0)
  \/ Arrives(toDialer, "ping", sDeadline, Latency)
  \/ ping + 2 * Latency < sDeadline

\* What the end of a connection means.
FinInv ==
  /\ Has(toServer, "fin") => dialer # "chat"
  /\ Has(toDialer, "fin") => ~entry
  /\ why # "no" => dialer = "over"

\* Without an outage: the network is up, an open connection is pinged in time, and the
\* end of an old one is known at the server before the dialer tries again.
CalmInv ==
  ~disturbed =>
    /\ net
    /\ entry => pinging
    /\ entry /\ dialer = "chat" => PingInTime /\ PongInTime
    /\ entry /\ dialer = "wait" => Arrives(toServer, "fin", dTimer, 0)
    /\ dialer = "dial" => ~entry
    /\ why # "refused"

IInv == LoopTypeOK /\ FinInv /\ CalmInv

----------------------------------------------------------------------------------
(* What the operators on channels keep. *)

\* A frame that is sent is a frame of its kind with all of its time.
LEMMA FrameType ==
  ASSUME NEW k \in {"ping", "pong", "data", "fin"}
  PROVE  Frame(k) \in Frames /\ Frame(k).kind = k /\ Frame(k).left = Latency
BY TimingAssumption DEF Frame, Frames

\* Sending appends one frame and keeps the others (Session.send, WriteControl).
LEMMA Sending ==
  ASSUME NEW chan \in Seq(Frames), NEW k \in {"ping", "pong", "data", "fin"}
  PROVE  /\ Send(chan, k) \in Seq(Frames)
         /\ \A kind, t, a : Arrives(chan, kind, t, a) => Arrives(Send(chan, k), kind, t, a)
         /\ \A t, a : Latency + a < t => Arrives(Send(chan, k), k, t, a)
         /\ \A kind : Has(Send(chan, k), kind) => Has(chan, kind) \/ kind = k
<1> DEFINE new == Send(chan, k)
<1>1. new \in Seq(Frames) /\ DOMAIN new = 1 .. Len(chan) + 1 /\ DOMAIN chan = 1 .. Len(chan)
      /\ Len(chan) \in Nat
  BY FrameType DEF Send
<1>2. \A i \in DOMAIN chan : new[i] = chan[i]
  BY FrameType DEF Send
<1>3. new[Len(chan) + 1] = Frame(k) /\ Len(chan) + 1 \in DOMAIN new
  BY <1>1, FrameType DEF Send
<1>4. DOMAIN chan \subseteq DOMAIN new
  BY <1>1
<1>5. \A kind, t, a : Arrives(chan, kind, t, a) => Arrives(new, kind, t, a)
  BY <1>2, <1>4, Zenon DEF Arrives
<1>6. \A t, a : Latency + a < t => Arrives(new, k, t, a)
  BY <1>3, FrameType, Zenon DEF Arrives
<1>7. \A i \in DOMAIN new : i \in DOMAIN chan \/ i = Len(chan) + 1
  BY <1>1
<1>8. \A kind : Has(new, kind) => Has(chan, kind) \/ kind = k
  BY <1>2, <1>3, <1>7, FrameType, Zenon DEF Has
<1> QED BY <1>1, <1>5, <1>6, <1>8

\* Reading takes the first frame and keeps the others (readLoop).
LEMMA Reading ==
  ASSUME NEW chan \in Seq(Frames), chan # <<>>
  PROVE  /\ Tail(chan) \in Seq(Frames) /\ Head(chan) \in Frames
         /\ \A kind, t, a : Arrives(chan, kind, t, a)
              => \/ Head(chan).kind = kind /\ Head(chan).left + a < t
                 \/ Arrives(Tail(chan), kind, t, a)
         /\ \A kind : Has(Tail(chan), kind) => Has(chan, kind)
         /\ Has(chan, Head(chan).kind)
<1> DEFINE rest == Tail(chan)
<1>1. rest \in Seq(Frames) /\ Head(chan) \in Frames /\ Head(chan) = chan[1] /\ 1 \in DOMAIN chan
  OBVIOUS
<1>2. \A i \in DOMAIN chan : i = 1 \/ (i - 1 \in DOMAIN rest /\ rest[i - 1] = chan[i])
  OBVIOUS
<1>3. \A i \in DOMAIN rest : i + 1 \in DOMAIN chan /\ rest[i] = chan[i + 1]
  OBVIOUS
<1>4. \A kind, t, a : Arrives(chan, kind, t, a)
        => (Head(chan).kind = kind /\ Head(chan).left + a < t) \/ Arrives(rest, kind, t, a)
  BY <1>1, <1>2, Zenon DEF Arrives
<1>5. \A kind : Has(rest, kind) => Has(chan, kind)
  BY <1>3, Zenon DEF Has
<1>6. Has(chan, Head(chan).kind)
  BY <1>1, Zenon DEF Has
<1> QED BY <1>1, <1>4, <1>5, <1>6

\* Time brings a frame nearer by as much as a timer, while the network is up.
LEMMA Ageing ==
  ASSUME NEW chan \in Seq(Frames), net \in BOOLEAN, net => ~Due(chan)
  PROVE  /\ Older(chan) \in Seq(Frames)
         /\ \A kind : \A t \in Nat, a \in Nat :
              net /\ Arrives(chan, kind, t, a) => Arrives(Older(chan), kind, t - 1, a)
         /\ \A kind : Has(Older(chan), kind) => Has(chan, kind)
<1> DEFINE new == Older(chan)
<1>1. DOMAIN new = DOMAIN chan /\ DOMAIN chan = 1 .. Len(chan) /\ Len(chan) \in Nat
  BY DEF Older
<1>2. \A i \in DOMAIN chan : chan[i] \in Frames /\ chan[i].left \in 0 .. Latency
  <2>1. \A i \in DOMAIN chan : chan[i] \in Frames
    OBVIOUS
  <2> QED BY <2>1 DEF Frames
<1>7. \A i \in DOMAIN chan : net => chan[i].left # 0
  BY Zenon DEF Due
<1>3. \A i \in DOMAIN chan : /\ new[i].kind = chan[i].kind
                             /\ net => new[i].left = chan[i].left - 1
                             /\ new[i] \in Frames
  <2> SUFFICES ASSUME NEW i \in DOMAIN chan
               PROVE  /\ new[i].kind = chan[i].kind
                      /\ net => new[i].left = chan[i].left - 1
                      /\ new[i] \in Frames
    OBVIOUS
  <2>1. new[i] = [chan[i] EXCEPT !.left = IF net THEN @ - 1 ELSE @]
    BY DEF Older
  <2>2. CASE net
    <3>1. new[i] = [chan[i] EXCEPT !.left = chan[i].left - 1]
      BY <2>1, <2>2
    <3>2. chan[i].left - 1 \in 0 .. Latency
      BY <1>2, <1>7, <2>2, TimingAssumption
    <3> QED BY <3>1, <3>2, <1>2 DEF Frames
  <2>3. CASE ~net
    <3>1. new[i] = chan[i]
      BY <2>1, <2>3, <1>2 DEF Frames
    <3> QED BY <3>1, <1>2, <2>3
  <2> QED BY <2>2, <2>3
<1>4. new \in Seq(Frames)
  <2>1. new \in [1 .. Len(chan) -> Frames]
    BY <1>1, <1>3, ZenonT(30) DEF Older
  <2> QED BY <2>1, <1>1
<1>5. ASSUME NEW kind, NEW t \in Nat, NEW a \in Nat, net, Arrives(chan, kind, t, a)
      PROVE  Arrives(new, kind, t - 1, a)
  <2>1. PICK i \in DOMAIN chan : chan[i].kind = kind /\ chan[i].left + a < t
    BY <1>5 DEF Arrives
  <2>2. new[i].kind = kind /\ new[i].left + a < t - 1
    <3>1. new[i].kind = chan[i].kind /\ new[i].left = chan[i].left - 1
      BY <1>3, <1>5
    <3>2. chan[i].left \in Nat
      BY <1>2, TimingAssumption
    <3> QED BY <2>1, <3>1, <3>2
  <2> QED BY <2>2, <1>1 DEF Arrives
<1>6. \A kind : Has(new, kind) => Has(chan, kind)
  BY <1>1, <1>3, Zenon DEF Has
<1> QED BY <1>4, <1>5, <1>6

\* The end of an outage changes no frame but for its time.
LEMMA GoingOn ==
  ASSUME NEW chan \in Seq(Frames)
  PROVE  Again(chan) \in Seq(Frames) /\ \A kind : Has(Again(chan), kind) => Has(chan, kind)
<1>1. DOMAIN Again(chan) = DOMAIN chan /\ DOMAIN chan = 1 .. Len(chan) /\ Len(chan) \in Nat
  BY DEF Again
<1>2. \A i \in DOMAIN chan : chan[i].kind \in {"ping", "pong", "data", "fin"}
  <2>1. \A i \in DOMAIN chan : chan[i] \in Frames
    OBVIOUS
  <2> QED BY <2>1 DEF Frames
<1>3. \A i \in DOMAIN chan : Again(chan)[i] \in Frames /\ Again(chan)[i].kind = chan[i].kind
  BY <1>2, FrameType DEF Again
<1>4. Again(chan) \in Seq(Frames)
  <2>1. Again(chan) \in [1 .. Len(chan) -> Frames]
    BY <1>1, <1>3 DEF Again
  <2> QED BY <2>1, <1>1
<1> QED BY <1>1, <1>3, <1>4, Zenon DEF Has

----------------------------------------------------------------------------------
(* Type correctness. *)

\* The channels hold frames after every step.
LEMMA NextChannels ==
  ASSUME LoopTypeOK, [LoopNext]_loops
  PROVE  toServer' \in Seq(Frames) /\ toDialer' \in Seq(Frames)
<1> DEFINE Kinds == {"ping", "pong", "data", "fin"}
<1>0. /\ toServer \in Seq(Frames) /\ toDialer \in Seq(Frames) /\ net \in BOOLEAN
  BY DEF LoopTypeOK
<1>1. \A k \in Kinds : Send(toServer, k) \in Seq(Frames) /\ Send(toDialer, k) \in Seq(Frames)
  BY <1>0, Sending
<1>2. CASE UNCHANGED <<toServer, toDialer>>
  BY <1>0, <1>2
<1>3. CASE Connect
  BY <1>3 DEF Connect
<1>4. CASE HangUp \/ Quit \/ DialerSends \/ ServerCloses \/ SendPing \/ ServerSends \/ ServerStops
  BY <1>0, <1>1, <1>4 DEF HangUp, Quit, DialerSends, ServerCloses, SendPing, ServerSends,
    ServerStops
<1>5. CASE DialerReads
  <2>1. toDialer' \in Seq(Frames)
    BY <1>0, <1>5, Reading DEF DialerReads
  <2>2. toServer' = toServer \/ toServer' = Send(toServer, "pong")
    BY <1>5 DEF DialerReads, AnswerPing
  <2> QED BY <1>0, <1>1, <2>1, <2>2
<1>6. CASE ServerReads
  BY <1>0, <1>6, Reading DEF ServerReads
<1>7. CASE NetUp
  BY <1>0, <1>7, GoingOn DEF NetUp
<1>8. CASE Tick
  BY <1>0, <1>8, Ageing DEF Tick
<1>9. Refused \/ RedialFails \/ DialAgain \/ PingFails \/ ServerStarts \/ NetDown \/ UNCHANGED loops
        => UNCHANGED <<toServer, toDialer>>
  BY DEF Refused, RedialFails, DialAgain, PingFails, ServerStarts, NetDown, loops, wire
<1>10. ServerExpires => ServerCloses
  BY DEF ServerExpires
<1> QED BY <1>2, <1>3, <1>4, <1>5, <1>6, <1>7, <1>8, <1>9, <1>10 DEF LoopNext

\* Timers are numbers after every step.
LEMMA NextTimers ==
  ASSUME LoopTypeOK, [LoopNext]_loops
  PROVE  /\ sDeadline' \in 0 .. Timeout /\ ping' \in 0 .. PingPeriod /\ dTimer' \in Nat
         /\ outages' \in 0 .. MaxOutages
<1> USE TimingAssumption
<1>1. /\ sDeadline \in 0 .. Timeout /\ ping \in 0 .. PingPeriod /\ dTimer \in Nat
      /\ outages \in 0 .. MaxOutages
  BY DEF LoopTypeOK
<1>2. CASE Tick
  <2>1. sDeadline' \in 0 .. Timeout
    BY <1>1, <1>2 DEF Tick, Less
  <2>2. ping' \in 0 .. PingPeriod
    BY <1>1, <1>2 DEF Tick, Less
  <2>3. dTimer' \in Nat
    BY <1>1, <1>2 DEF Tick, Less
  <2> QED BY <1>1, <1>2, <2>1, <2>2, <2>3 DEF Tick, network
<1>3. CASE Connect
  BY <1>1, <1>3 DEF Connect, network
<1>9. CASE Refused \/ RedialFails \/ HangUp \/ DialAgain \/ Quit \/ DialerSends
  BY <1>1, <1>9 DEF Refused, RedialFails, HangUp, DialAgain, Quit, DialerSends, Disconnected,
    network, server, client
<1>10. CASE DialerReads
  <2>1. UNCHANGED <<network, server>>
    BY <1>10 DEF DialerReads
  <2>2. dTimer' \in {dTimer, Timeout, PingGrace, RetryAfter}
    BY <1>10 DEF DialerReads, AnswerPing, Disconnected, client
  <2> QED BY <1>1, <2>1, <2>2 DEF network, server
<1>4. CASE ServerCloses \/ ServerExpires \/ SendPing \/ PingFails \/ ServerSends
           \/ ServerStops \/ ServerStarts
  BY <1>1, <1>4 DEF ServerCloses, ServerExpires, SendPing, PingFails, ServerSends,
    ServerStops, ServerStarts, EndSession, network, server, client
<1>8. CASE ServerReads
  <2>1. UNCHANGED <<network, client>>
    BY <1>8, Zenon DEF ServerReads
  <2>2. \/ sDeadline' = Timeout /\ ping' = ping
        \/ sDeadline' = 0 /\ ping' = 0
        \/ sDeadline' = sDeadline /\ ping' = ping
    BY <1>8, Zenon DEF ServerReads, EndSession
  <2> QED BY <1>1, <2>1, <2>2 DEF network, client
<1>5. CASE NetDown
  <2>1. outages' = outages + 1 /\ outages < MaxOutages /\ UNCHANGED <<server, client>>
    BY <1>5 DEF NetDown
  <2> QED BY <1>1, <2>1 DEF server, client
<1>6. CASE NetUp
  <2>1. UNCHANGED <<outages, server, client>>
    BY <1>6 DEF NetUp
  <2> QED BY <1>1, <2>1 DEF server, client
<1>7. CASE UNCHANGED loops
  BY <1>1, <1>7 DEF loops, network, server, client
<1> QED BY <1>2, <1>3, <1>4, <1>5, <1>6, <1>7, <1>8, <1>9, <1>10 DEF LoopNext

\* The rest of LoopTypeOK.
LEMMA NextFlags ==
  ASSUME LoopTypeOK, [LoopNext]_loops
  PROVE  /\ net' \in BOOLEAN /\ serving' \in BOOLEAN
         /\ entry' \in BOOLEAN /\ pinging' \in BOOLEAN /\ disturbed' \in BOOLEAN
         /\ dialer' \in {"dial", "chat", "wait", "over"}
         /\ why' \in {"no", "refused", "failed", "told"} /\ (why' # "no" <=> dialer' = "over")
         /\ (pinging' => entry') /\ (entry' => serving')
<1>0. /\ net \in BOOLEAN /\ serving \in BOOLEAN
      /\ entry \in BOOLEAN /\ pinging \in BOOLEAN /\ disturbed \in BOOLEAN
      /\ dialer \in {"dial", "chat", "wait", "over"}
      /\ why \in {"no", "refused", "failed", "told"} /\ (why # "no" <=> dialer = "over")
      /\ (pinging => entry) /\ (entry => serving)
  BY DEF LoopTypeOK
<1>1. CASE Connect
  BY <1>0, <1>1, Zenon DEF Connect, network, server, client
<1>2. CASE Refused \/ RedialFails \/ HangUp \/ DialAgain \/ Quit \/ DialerSends
  BY <1>0, <1>2 DEF Refused, RedialFails, HangUp, DialAgain, Quit, DialerSends, Disconnected,
    network, server, client
<1>3. CASE DialerReads
  BY <1>0, <1>3 DEF DialerReads, AnswerPing, Disconnected, network, server, client
<1>4. CASE ServerCloses \/ ServerExpires \/ SendPing \/ PingFails \/ ServerSends
  BY <1>0, <1>4, ZenonT(30) DEF ServerCloses, ServerExpires, SendPing, PingFails, ServerSends,
     EndSession, network, server, client
<1>5. CASE ServerReads
  <2>1. UNCHANGED <<network, serving, client, disturbed, why>>
    BY <1>5, Zenon DEF ServerReads
  <2>2. UNCHANGED <<entry, pinging>> \/ (entry' = FALSE /\ pinging' = FALSE)
    BY <1>5, Zenon DEF ServerReads, EndSession
  <2>3. net' = net /\ serving' = serving /\ dialer' = dialer /\ disturbed' = disturbed /\ why' = why
    BY <2>1 DEF network, client
  <2>4. CASE UNCHANGED <<entry, pinging>>
    BY <1>0, <2>3, <2>4, Zenon
  <2>5. CASE entry' = FALSE /\ pinging' = FALSE
    BY <1>0, <2>3, <2>5, Zenon
  <2> QED BY <2>2, <2>4, <2>5, ZenonT(30)
<1>6. CASE ServerStops
  BY <1>0, <1>6, Zenon DEF ServerStops, EndSession, network, server, client
<1>7. CASE ServerStarts
  BY <1>0, <1>7, Zenon DEF ServerStarts, network, server, client
<1>8. CASE NetDown
  BY <1>0, <1>8, Zenon DEF NetDown, network, server, client
<1>9. CASE NetUp
  BY <1>0, <1>9, Zenon DEF NetUp, network, server, client
<1>10. CASE Tick \/ UNCHANGED loops
  <2>1. UNCHANGED <<net, serving, entry, pinging, dialer, disturbed, why>>
    BY <1>10 DEF Tick, loops, network, server, client
  <2> QED BY <1>0, <2>1, Zenon
<1> QED BY <1>1, <1>2, <1>3, <1>4, <1>5, <1>6, <1>7, <1>8, <1>9, <1>10 DEF LoopNext

\* The state at the start is of its type.
LEMMA LoopInitTypeOK == LoopInit => LoopTypeOK
<1>1. LoopInit => /\ toServer \in Seq(Frames) /\ toDialer \in Seq(Frames)
              /\ sDeadline \in 0 .. Timeout /\ ping \in 0 .. PingPeriod /\ dTimer \in Nat
              /\ outages \in 0 .. MaxOutages
  BY TimingAssumption DEF LoopInit
<1> QED BY <1>1, Zenon DEF LoopInit, LoopTypeOK

\* Timers, channels and flags keep their types (the state of ConnectToPeer and of the
\* loops of startSession).
THEOREM LoopTypeCorrect == LoopSpec => []LoopTypeOK
<1>1. LoopInit => LoopTypeOK
  BY LoopInitTypeOK
<1>2. LoopTypeOK /\ [LoopNext]_loops => LoopTypeOK'
  BY NextChannels, NextTimers, NextFlags DEF LoopTypeOK
<1> QED BY <1>1, <1>2, PTL DEF LoopSpec

----------------------------------------------------------------------------------
(* Ends of connections. *)

\* An end that has closed its connection does not use it again.
LEMMA NextFin ==
  ASSUME LoopTypeOK, FinInv, [LoopNext]_loops
  PROVE  FinInv'
<1> DEFINE S == Has(toServer, "fin")
           D == Has(toDialer, "fin")
<1>0. toServer \in Seq(Frames) /\ toDialer \in Seq(Frames) /\ net \in BOOLEAN
  BY DEF LoopTypeOK
<1>1. (S => dialer # "chat") /\ (D => ~entry) /\ (why # "no" => dialer = "over")
  BY DEF FinInv
<1> SUFFICES (S' => dialer' # "chat") /\ (D' => ~entry') /\ (why' # "no" => dialer' = "over")
  BY DEF FinInv
<1>2. CASE Connect
  <2>1. ~S' /\ ~D'
    BY <1>2 DEF Connect, Has
  <2> QED BY <1>1, <1>2, <2>1 DEF Connect
<1>3. CASE HangUp \/ Quit
  <2>1. dialer' # "chat" /\ (why' # "no" => dialer' = "over")
    BY <1>1, <1>3 DEF HangUp, Quit, Disconnected
  <2> QED BY <1>1, <1>3, <2>1 DEF HangUp, Quit, server
<1>4. CASE DialerReads
  <2>1. D' => D
    BY <1>0, <1>4, Reading DEF DialerReads
  <2>2. \/ dialer' # "chat" /\ (why' # "no" => dialer' = "over")
        \/ dialer' = dialer /\ why' = why /\ toServer' = toServer
        \/ dialer' = dialer /\ why' = why /\ toServer' = Send(toServer, "pong")
    BY <1>1, <1>4 DEF DialerReads, AnswerPing, Disconnected, client
  <2>3. Has(Send(toServer, "pong"), "fin") => S
    BY <1>0, Sending
  <2> QED BY <1>1, <1>4, <2>1, <2>2, <2>3 DEF DialerReads, server
<1>5. CASE DialerSends
  <2>1. S' => S
    BY <1>0, <1>5, Sending DEF DialerSends
  <2> QED BY <1>1, <1>5, <2>1 DEF DialerSends, server, client
<1>6. CASE ServerCloses \/ ServerStops
  BY <1>1, <1>6 DEF ServerCloses, ServerStops, EndSession, client
<1>7. CASE SendPing \/ ServerSends
  <2>1. D' => D
    BY <1>0, <1>7, Sending, ZenonT(30), SMTT(30) DEF SendPing, ServerSends
  <2> QED BY <1>1, <1>7, <2>1 DEF SendPing, ServerSends, server, client
<1>8. CASE ServerReads
  <2>1. S' => S
    BY <1>0, <1>8, Reading DEF ServerReads
  <2>2. D' => D /\ ~entry
    BY <1>1, <1>8 DEF ServerReads
  <2>3. ~entry => ~entry'
    BY <1>8, Zenon DEF ServerReads, EndSession
  <2> QED BY <1>1, <1>8, <2>1, <2>2, <2>3 DEF ServerReads, client
<1>9. CASE NetUp
  <2>1. (S' => S) /\ (D' => D)
    BY <1>0, <1>9, GoingOn DEF NetUp
  <2> QED BY <1>1, <1>9, <2>1 DEF NetUp, server, client
<1>10. CASE Tick
  <2>1. (S' => S) /\ (D' => D)
    BY <1>0, <1>10, Ageing DEF Tick
  <2> QED BY <1>1, <1>10, <2>1 DEF Tick
<1>11. CASE Refused \/ RedialFails \/ DialAgain
  BY <1>1, <1>11 DEF Refused, RedialFails, DialAgain, wire, server
<1>12. CASE PingFails \/ ServerStarts \/ NetDown \/ UNCHANGED loops
  BY <1>1, <1>12 DEF PingFails, ServerStarts, NetDown, loops, wire, server, client
<1>13. ServerExpires => ServerCloses
  BY DEF ServerExpires
<1> QED BY <1>2, <1>3, <1>4, <1>5, <1>6, <1>7, <1>8, <1>9, <1>10, <1>11, <1>12, <1>13 DEF LoopNext

----------------------------------------------------------------------------------
(* Deadlines. *)

\* Only Connect opens a connection, or forgets an outage.
LEMMA OnlyConnect ==
  ASSUME [LoopNext]_loops, ~Connect
  PROVE  (entry' => entry) /\ (disturbed => disturbed') /\ (dialer' = "chat" => dialer = "chat")
<1>1. CASE Refused \/ RedialFails \/ HangUp \/ DialAgain \/ Quit
  <2>1. UNCHANGED <<entry, disturbed>> /\ dialer' # "chat"
    BY <1>1 DEF Refused, RedialFails, HangUp, DialAgain, Quit, Disconnected, server
  <2> QED BY <2>1, Zenon
<1>2. CASE DialerReads
  <2>1. UNCHANGED <<entry, disturbed>> /\ (dialer' = dialer \/ dialer' = "wait")
    BY <1>2 DEF DialerReads, AnswerPing, Disconnected, server, client
  <2> QED BY <2>1, Zenon
<1>3. CASE ServerCloses \/ ServerExpires \/ ServerStops
  <2>1. entry' = FALSE /\ UNCHANGED <<disturbed, dialer>>
    BY <1>3 DEF ServerCloses, ServerExpires, ServerStops, EndSession, client
  <2> QED BY <2>1, Zenon
<1>4. CASE ServerReads
  <2>1. disturbed' = disturbed /\ dialer' = dialer
    BY <1>4 DEF ServerReads, client
  <2>2. entry' = entry \/ entry' = FALSE
    BY <1>4, Zenon DEF ServerReads, EndSession
  <2>3. entry' => entry
    BY <2>2, Zenon
  <2> QED BY <2>1, <2>3, Zenon
<1>5. CASE PingFails \/ NetDown
  <2>1. disturbed' = TRUE /\ UNCHANGED <<entry, dialer>>
    BY <1>5 DEF PingFails, NetDown, server, client
  <2> QED BY <2>1, Zenon
<1>6. CASE DialerSends \/ SendPing \/ ServerSends \/ ServerStarts \/ NetUp \/ Tick \/ UNCHANGED loops
  <2>1. UNCHANGED <<entry, disturbed, dialer>>
    BY <1>6 DEF DialerSends, SendPing, ServerSends, ServerStarts, NetUp, Tick, loops, server, client
  <2> QED BY <2>1, Zenon
<1> QED BY <1>1, <1>2, <1>3, <1>4, <1>5, <1>6 DEF LoopNext

\* The two deadlines of an open connection are kept by every step of its ends.
LEMMA NextInTime ==
  ASSUME LoopTypeOK, FinInv, CalmInv, [LoopNext]_loops, ~disturbed', entry', dialer' = "chat"
  PROVE  PingInTime' /\ PongInTime'
<1>0. /\ toServer \in Seq(Frames) /\ toDialer \in Seq(Frames) /\ net \in BOOLEAN
      /\ sDeadline \in Nat /\ ping \in 0 .. PingPeriod /\ dTimer \in Nat
      /\ Latency \in Nat /\ Timeout \in Nat /\ PingPeriod \in Nat /\ PingGrace \in Nat
      /\ PingPeriod + 2 * Latency < Timeout /\ Timeout <= PingGrace
  BY TimingAssumption DEF LoopTypeOK
<1>1. CASE Connect
  <2>1. dTimer' = Timeout /\ sDeadline' = Timeout /\ ping' = PingPeriod
    BY <1>1 DEF Connect
  <2>2. ping' + Latency < dTimer' /\ ping' + 2 * Latency < sDeadline'
    BY <1>0, <2>1
  <2> QED BY <2>2 DEF PingInTime, PongInTime
<1> SUFFICES ASSUME ~Connect PROVE PingInTime' /\ PongInTime'
  BY <1>1
<1>2. entry /\ dialer = "chat" /\ ~disturbed
  BY OnlyConnect
<1>3. net /\ pinging /\ PingInTime /\ PongInTime
  BY <1>2 DEF CalmInv
<1>4. CASE DialerReads
  <2> DEFINE h == Head(toDialer)
  <2>1. /\ toDialer # <<>> /\ toDialer' = Tail(toDialer) /\ sDeadline' = sDeadline /\ ping' = ping
    BY <1>4 DEF DialerReads, server
  <2>2. /\ h \in Frames /\ h.left \in Nat
        /\ \A kind, t, a : Arrives(toDialer, kind, t, a)
             => (h.kind = kind /\ h.left + a < t) \/ Arrives(toDialer', kind, t, a)
    <3>1. h \in Frames
      BY <1>0, <2>1, Reading
    <3>2. h.left \in Nat
      BY <1>0, <3>1 DEF Frames
    <3> QED BY <1>0, <2>1, <3>1, <3>2, Reading
  <2>3. \A t, a : /\ Arrives(toServer, "pong", t, a) => Arrives(Send(toServer, "pong"), "pong", t, a)
                  /\ Latency + a < t => Arrives(Send(toServer, "pong"), "pong", t, a)
    BY <1>0, Sending
  <2>4. CASE h.kind = "ping"
    <3>1. dTimer' = PingGrace /\ toServer' = Send(toServer, "pong")
      BY <1>2, <1>4, <2>4 DEF DialerReads, AnswerPing
    <3>2. ping' + Latency < dTimer'
      BY <1>0, <2>1, <3>1
    <3>3. CASE Arrives(toServer, "pong", sDeadline, 0)
      BY <2>1, <2>3, <3>1, <3>2, <3>3 DEF PingInTime, PongInTime
    <3>4. CASE h.left + Latency < sDeadline
      <4>1. Latency + 0 < sDeadline
        BY <1>0, <2>2, <3>4
      <4> QED BY <2>1, <2>3, <3>1, <3>2, <4>1 DEF PingInTime, PongInTime
    <3>5. CASE Arrives(toDialer', "ping", sDeadline, Latency)
      BY <2>1, <3>2, <3>5 DEF PingInTime, PongInTime
    <3>6. CASE ping + 2 * Latency < sDeadline
      BY <2>1, <3>2, <3>6 DEF PingInTime, PongInTime
    <3> QED BY <1>3, <2>2, <3>3, <3>4, <3>5, <3>6 DEF PongInTime
  <2>5. CASE h.kind # "ping"
    <3>1. dTimer' = Timeout /\ toServer' = toServer
      BY <1>2, <1>4, <2>5 DEF DialerReads, Disconnected
    <3>2. ping' + Latency < dTimer'
      BY <1>0, <2>1, <3>1
    <3>3. \A t, a : Arrives(toDialer, "ping", t, a) => Arrives(toDialer', "ping", t, a)
      BY <2>2, <2>5
    <3> QED BY <1>3, <2>1, <3>1, <3>2, <3>3 DEF PingInTime, PongInTime
  <2> QED BY <2>4, <2>5
<1>5. CASE ServerReads
  <2>1. /\ sDeadline' = Timeout /\ ping' = ping /\ dTimer' = dTimer /\ toDialer' = toDialer
    BY <1>2, <1>5 DEF ServerReads, EndSession, client
  <2>2. ping' + 2 * Latency < sDeadline'
    BY <1>0, <2>1
  <2> QED BY <1>3, <2>1, <2>2 DEF PingInTime, PongInTime
<1>6. CASE SendPing
  <2>1. /\ ping = 0 /\ toDialer' = Send(toDialer, "ping")
        /\ UNCHANGED <<sDeadline, dTimer, toServer>>
    BY <1>6 DEF SendPing, client
  <2>2. \A t, a : /\ Arrives(toDialer, "ping", t, a) => Arrives(toDialer', "ping", t, a)
                  /\ Latency + a < t => Arrives(toDialer', "ping", t, a)
    BY <1>0, <2>1, Sending
  <2>3. /\ ping + Latency < dTimer => Latency + 0 < dTimer
        /\ ping + 2 * Latency < sDeadline => Latency + Latency < sDeadline
    BY <1>0, <2>1
  <2> QED BY <1>3, <2>1, <2>2, <2>3 DEF PingInTime, PongInTime
<1>7. CASE DialerSends \/ ServerSends
  <2>1. UNCHANGED <<sDeadline, dTimer, ping>>
    BY <1>7, ZenonT(30) DEF DialerSends, ServerSends, server, client
  <2>2. \A kind, t, a : /\ Arrives(toDialer, kind, t, a) => Arrives(toDialer', kind, t, a)
                        /\ Arrives(toServer, kind, t, a) => Arrives(toServer', kind, t, a)
    BY <1>0, <1>7, Sending DEF DialerSends, ServerSends
  <2> QED BY <1>3, <2>1, <2>2 DEF PingInTime, PongInTime
<1>8. CASE Tick
  <2>1. /\ sDeadline' = sDeadline - 1 /\ dTimer' = dTimer - 1 /\ ping' = ping - 1
        /\ toServer' = Older(toServer) /\ toDialer' = Older(toDialer)
        /\ ~Due(toServer) /\ ~Due(toDialer)
    BY <1>2, <1>3, <1>8 DEF Tick, Less
  <2>2. \A kind : \A t \in Nat, a \in Nat :
          /\ Arrives(toServer, kind, t, a) => Arrives(toServer', kind, t - 1, a)
          /\ Arrives(toDialer, kind, t, a) => Arrives(toDialer', kind, t - 1, a)
    BY <1>0, <1>3, <2>1, Ageing
  <2>3. /\ ping + Latency < dTimer => ping' + Latency < dTimer'
        /\ ping + 2 * Latency < sDeadline => ping' + 2 * Latency < sDeadline'
    BY <1>0, <2>1
  <2>4. /\ Arrives(toDialer, "ping", dTimer, 0) => Arrives(toDialer', "ping", dTimer', 0)
        /\ Arrives(toServer, "pong", sDeadline, 0) => Arrives(toServer', "pong", sDeadline', 0)
        /\ Arrives(toDialer, "ping", sDeadline, Latency)
             => Arrives(toDialer', "ping", sDeadline', Latency)
    BY <1>0, <2>1, <2>2
  <2> QED BY <1>3, <2>3, <2>4 DEF PingInTime, PongInTime
<1>9. CASE ServerStarts \/ UNCHANGED loops
  BY <1>3, <1>9, ZenonT(30) DEF ServerStarts, loops, server, client, wire, PingInTime, PongInTime
<1>10. ~(Refused \/ RedialFails \/ HangUp \/ DialAgain \/ Quit)
  BY <1>2 DEF Refused, RedialFails, HangUp, DialAgain, Quit, Disconnected
<1>11. ~(ServerCloses \/ ServerExpires \/ ServerStops \/ PingFails \/ NetDown \/ NetUp)
  BY <1>3 DEF ServerCloses, ServerExpires, ServerStops, EndSession, PingFails, NetDown, NetUp
<1> QED BY <1>4, <1>5, <1>6, <1>7, <1>8, <1>9, <1>10, <1>11 DEF LoopNext

\* While the dialer waits, the end of the old connection reaches the server in time.
LEMMA NextLetsGo ==
  ASSUME LoopTypeOK, FinInv, CalmInv, [LoopNext]_loops, ~disturbed', entry'
  PROVE  (dialer' = "wait" => Arrives(toServer', "fin", dTimer', 0)) /\ dialer' # "dial"
<1>0. /\ toServer \in Seq(Frames) /\ toDialer \in Seq(Frames) /\ net \in BOOLEAN
      /\ dTimer \in Nat /\ Latency \in Nat /\ RetryAfter \in Nat /\ Latency < RetryAfter
  BY TimingAssumption DEF LoopTypeOK
<1>1. CASE Connect
  BY <1>1 DEF Connect
<1> SUFFICES ASSUME ~Connect
             PROVE  (dialer' = "wait" => Arrives(toServer', "fin", dTimer', 0)) /\ dialer' # "dial"
  BY <1>1
<1>2. entry /\ ~disturbed
  BY OnlyConnect
<1>3. /\ net /\ pinging /\ dialer # "dial" /\ ~Has(toDialer, "fin")
      /\ dialer = "wait" => Arrives(toServer, "fin", dTimer, 0)
  BY <1>2 DEF CalmInv, FinInv
<1>4. CASE HangUp
  <2>1. Arrives(Send(toServer, "fin"), "fin", RetryAfter, 0)
    <3>1. Latency + 0 < RetryAfter
      BY <1>0
    <3> QED BY <1>0, <3>1, Sending
  <2> QED BY <1>4, <2>1 DEF HangUp, Disconnected
<1>5. CASE DialAgain
  <2>1. Arrives(toServer, "fin", 0, 0)
    BY <1>3, <1>5 DEF DialAgain
  <2>2. \A i \in DOMAIN toServer : toServer[i].left \in Nat
    <3>1. \A i \in DOMAIN toServer : toServer[i] \in Frames
      BY <1>0
    <3> QED BY <1>0, <3>1 DEF Frames
  <2> QED BY <2>1, <2>2 DEF Arrives
<1>6. CASE Quit
  BY <1>6 DEF Quit
<1>7. CASE DialerReads
  <2>1. Has(toDialer, Head(toDialer).kind)
    BY <1>0, <1>7, Reading DEF DialerReads
  <2>2. Head(toDialer).kind # "fin"
    BY <1>3, <2>1
  <2>3. dialer' = dialer /\ (dialer = "wait" => UNCHANGED <<dTimer, toServer>>)
    BY <1>7, <2>2 DEF DialerReads, AnswerPing, client
  <2> QED BY <1>3, <2>3
<1>8. CASE DialerSends
  BY <1>8 DEF DialerSends, client
<1>9. CASE ServerReads
  <2>1. UNCHANGED <<dialer, dTimer>> /\ Head(toServer).kind # "fin"
    BY <1>2, <1>9 DEF ServerReads, EndSession, client
  <2>2. \A t, a : Arrives(toServer, "fin", t, a) => Arrives(toServer', "fin", t, a)
    BY <1>0, <1>9, <2>1, Reading DEF ServerReads
  <2> QED BY <1>3, <2>1, <2>2
<1>10. CASE Tick
  <2>1. /\ dialer' = dialer /\ (dialer = "wait" => dTimer' = dTimer - 1)
        /\ toServer' = Older(toServer) /\ ~Due(toServer)
    BY <1>3, <1>10 DEF Tick, Less
  <2>2. \A t \in Nat, a \in Nat :
          Arrives(toServer, "fin", t, a) => Arrives(toServer', "fin", t - 1, a)
    BY <1>0, <1>3, <2>1, Ageing
  <2> QED BY <1>0, <1>3, <2>1, <2>2
<1>11. CASE SendPing \/ ServerSends \/ ServerStarts \/ UNCHANGED loops
  BY <1>3, <1>11, ZenonT(30) DEF SendPing, ServerSends, ServerStarts, loops, client, wire
<1>12. ~(Refused \/ RedialFails \/ ServerCloses \/ ServerExpires \/ ServerStops \/ PingFails
         \/ NetDown \/ NetUp)
  BY <1>3 DEF Refused, RedialFails, ServerCloses, ServerExpires, ServerStops, EndSession,
    PingFails, NetDown, NetUp
<1> QED BY <1>4, <1>5, <1>6, <1>7, <1>8, <1>9, <1>10, <1>11, <1>12 DEF LoopNext

\* The network is up and the ping loop runs until something disturbs them.
LEMMA NextCalm ==
  ASSUME LoopTypeOK, FinInv, CalmInv, [LoopNext]_loops
  PROVE  CalmInv'
<1> SUFFICES ASSUME ~disturbed' PROVE /\ net' /\ (entry' => pinging') /\ why' # "refused"
                                      /\ entry' /\ dialer' = "chat" => PingInTime' /\ PongInTime'
                                      /\ entry' /\ dialer' = "wait"
                                           => Arrives(toServer', "fin", dTimer', 0)
                                      /\ dialer' = "dial" => ~entry'
  BY DEF CalmInv
<1>1. entry' /\ dialer' = "chat" => PingInTime' /\ PongInTime'
  BY NextInTime
<1>2. entry' => (dialer' = "wait" => Arrives(toServer', "fin", dTimer', 0)) /\ dialer' # "dial"
  BY NextLetsGo
<1>3. net' /\ (entry' => pinging') /\ why' # "refused"
  <2>1. CASE Connect
    <3>1. net' = net /\ net /\ pinging' = TRUE /\ why' = why /\ (why # "no" => dialer = "over")
          /\ dialer = "dial"
      BY <2>1, Zenon DEF Connect, network, FinInv
    <3> QED BY <3>1, Zenon
  <2> SUFFICES ASSUME ~Connect PROVE net' /\ (entry' => pinging') /\ why' # "refused"
    BY <2>1
  <2>2. net /\ (entry => pinging) /\ why # "refused" /\ (dialer = "dial" => ~entry) /\ ~disturbed
    BY OnlyConnect DEF CalmInv
  <2>3. CASE RedialFails \/ HangUp \/ DialAgain \/ Quit \/ DialerReads \/ DialerSends \/ ServerSends
             \/ SendPing \/ ServerStarts \/ Tick \/ UNCHANGED loops
    <3>1. UNCHANGED <<net, entry, pinging>> /\ (why' = why \/ why' \in {"failed", "told"})
      BY <2>3 DEF RedialFails, HangUp, DialAgain, Quit, DialerReads, DialerSends, ServerSends,
        SendPing, ServerStarts, Tick, loops, network, server
    <3> QED BY <2>2, <3>1
  <2>4. CASE ServerCloses \/ ServerExpires \/ ServerStops
    <3>1. entry' = FALSE /\ UNCHANGED <<net, why>>
      BY <2>4 DEF ServerCloses, ServerExpires, ServerStops, EndSession, network
    <3> QED BY <2>2, <3>1
  <2>5. CASE ServerReads
    <3>1. UNCHANGED <<net, why>> /\ (UNCHANGED <<entry, pinging>> \/ entry' = FALSE)
      BY <2>5, Zenon DEF ServerReads, EndSession, network
    <3> QED BY <2>2, <3>1
  <2>6. ~(Refused \/ PingFails \/ NetDown \/ NetUp)
    BY <2>2 DEF Refused, PingFails, NetDown, NetUp
  <2> QED BY <2>3, <2>4, <2>5, <2>6 DEF LoopNext
<1> QED BY <1>1, <1>2, <1>3

\* The invariant that both theorems rest on is inductive.
THEOREM InvCorrect == LoopSpec => []IInv
<1>1. LoopInit => IInv
  <2>1. LoopInit => LoopTypeOK
    BY LoopInitTypeOK
  <2>2. LoopInit => FinInv
    BY DEF LoopInit, FinInv, Has
  <2>3. LoopInit => CalmInv
    BY DEF LoopInit, CalmInv
  <2> QED BY <2>1, <2>2, <2>3 DEF IInv
<1>2. IInv /\ [LoopNext]_loops => IInv'
  <2>1. LoopTypeOK /\ [LoopNext]_loops => LoopTypeOK'
    BY NextChannels, NextTimers, NextFlags DEF LoopTypeOK
  <2> QED BY <2>1, NextFin, NextCalm DEF IInv
<1> QED BY <1>1, <1>2, PTL DEF LoopSpec

\* For every ping period and timeout that leave room for a round trip, a connection is
\* kept however long nobody writes (pingLoop and the ping and pong handlers).
THEOREM LiveConnectionIsKept == LoopSpec => []LiveIsKept
<1>1. IInv => LiveIsKept
  <2> SUFFICES ASSUME IInv, entry, dialer = "chat", ~disturbed
               PROVE  sDeadline > 0 /\ dTimer > 0
    BY DEF LiveIsKept
  <2>1. PingInTime /\ PongInTime
    BY DEF IInv, CalmInv
  <2>2. /\ toServer \in Seq(Frames) /\ toDialer \in Seq(Frames) /\ ping \in Nat
        /\ sDeadline \in Nat /\ dTimer \in Nat /\ Latency \in Nat
    BY TimingAssumption DEF IInv, LoopTypeOK
  <2>3. ASSUME NEW chan \in Seq(Frames), NEW k, NEW t \in Nat, NEW a \in Nat,
               Arrives(chan, k, t, a)
        PROVE  t > 0
    <3>1. PICK i \in DOMAIN chan : chan[i].left + a < t
      BY <2>3 DEF Arrives
    <3>2. chan[i] \in Frames
      BY <3>1
    <3>3. chan[i].left \in Nat
      BY <2>2, <3>2 DEF Frames
    <3> QED BY <3>1, <3>3
  <2>4. dTimer > 0
    BY <2>1, <2>2, <2>3 DEF PingInTime
  <2>5. sDeadline > 0
    BY <2>1, <2>2, <2>3 DEF PongInTime
  <2> QED BY <2>4, <2>5
<1> QED BY <1>1, InvCorrect, PTL

\* For every pause that is longer than the latency, the dialer of a connection without
\* an outage does not meet its own old session (ConnectToPeer against handleWS's 409).
THEOREM RedialIsAdmitted == LoopSpec => []RefusedOnlyAfterOutage
<1>1. IInv => RefusedOnlyAfterOutage
  BY DEF IInv, CalmInv, RefusedOnlyAfterOutage
<1> QED BY <1>1, InvCorrect, PTL

----------------------------------------------------------------------------------
(* The goroutines that share a peer's row, entry and sessions: PeerSessions, for any      *)
(* numbers of connections and admin requests.                                            *)

LEMMA InitTypeOK == Init => TypeOK
BY ProcAssumption, ZenonT(30), SMTT(30) DEF Init, TypeOK, Status, Label

LEMMA NextTypeOK == TypeOK /\ [Next]_vars => TypeOK'
<1> SUFFICES ASSUME TypeOK, [Next]_vars PROVE TypeOK'
  OBVIOUS
<1> USE DEF TypeOK, Label, Status, Step, At, Goto, others, Sess, Admin,
        Proc
<1>1. ASSUME NEW h \in Inbound, HandleWS(h) PROVE TypeOK'
  BY <1>1 DEF HandleWS, WSUnknown, WSKnown, WSRejected, WSAddPending,
     WSConflict, WSUpgrade, WSUpgradeFails, WSReplace, Get, Add, CloseOld,
     HandshakeFails, Handshake, Store, SetRow
<1>2. ASSUME NEW o \in Outbound, Dial(o) PROVE TypeOK'
  BY <1>2 DEF Dial, DialFails, DialOpens, HandshakeFails, LookUp, AddAccepted, SessionExists,
     NoSession, TakeStatus, Add, Store, Demote, SetRow
<1>3. ASSUME NEW s \in Sess,
             Receive(s) \/ ReadTimeout(s) \/ ReadLoop(s) \/ ConnDrops(s)
      PROVE TypeOK'
  BY <1>3 DEF Receive, ReadTimeout, ReadLoop, ConnDrops, Get, Add,
     PeerAcceptedRow, AcceptSession, ReadFails, Unregister, CloseSelf, SetRow
<1>4. ASSUME NEW a \in Accepts, AcceptPeer(a) PROVE TypeOK'
  BY <1>4, ZenonT(30), SMTT(30) DEF AcceptPeer, NoPeer, AcceptRow, AcceptSession, SetRow
<1>5. ASSUME NEW r \in Rejects, RejectPeer(r) PROVE TypeOK'
  BY <1>5 DEF RejectPeer, NoPeer, RejectRow, Take, CloseOld, SetRow
<1>6. ASSUME NEW d \in Disconnects, DeleteSession(d) PROVE TypeOK'
  BY <1>6 DEF DeleteSession, Take, CloseOld
<1>7. ASSUME NEW n \in Nicknames, SetNickname(n) PROVE TypeOK'
  BY <1>7 DEF SetNickname, NoPeer, Get, Add
<1>8. CASE UNCHANGED vars
  BY <1>8 DEF vars
<1> QED
  BY <1>1, <1>2, <1>3, <1>4, <1>5, <1>6, <1>7, <1>8 DEF Next

\* Every row status, session status, connection state and program counter that the
\* goroutines reach is one the code has a case for.
THEOREM TypeCorrect == Spec => []TypeOK
BY InitTypeOK, NextTypeOK, PTL DEF Spec

--------------------------------------------------------------------------------
(* Entries of the map.  Only the goroutine of a session stores it, on its way to   *)
(* its read loop, and the one way out of the read loop deletes whatever the map    *)
(* holds for the peer, so the invariant is inductive as it stands.                *)

LEMMA NextNoLeakedEntry ==
  TypeOK /\ NoLeakedEntry /\ [Next]_vars => NoLeakedEntry'
<1> SUFFICES ASSUME TypeOK, NoLeakedEntry, [Next]_vars PROVE NoLeakedEntry'
  OBVIOUS
<1> USE ProcAssumption DEF TypeOK, NoLeakedEntry, Serving, Step, At, Goto,
        others, Sess, Admin, Proc
<1>1. ASSUME NEW h \in Inbound, HandleWS(h) PROVE NoLeakedEntry'
  BY <1>1 DEF HandleWS, WSUnknown, WSKnown, WSRejected, WSAddPending,
     WSConflict, WSUpgrade, WSUpgradeFails, WSReplace, Get, Add, CloseOld,
     HandshakeFails, Handshake, Store, SetRow
<1>2. ASSUME NEW o \in Outbound, Dial(o) PROVE NoLeakedEntry'
  BY <1>2 DEF Dial, DialFails, DialOpens, HandshakeFails, LookUp, AddAccepted, SessionExists,
     NoSession, TakeStatus, Add, Store, Demote, SetRow
<1>3. ASSUME NEW s \in Sess,
             Receive(s) \/ ReadTimeout(s) \/ ReadLoop(s) \/ ConnDrops(s)
      PROVE NoLeakedEntry'
  BY <1>3, ZenonT(30), SMTT(30) DEF Receive, ReadTimeout, ReadLoop, ConnDrops, Get, Add,
     PeerAcceptedRow, AcceptSession, ReadFails, Unregister, CloseSelf, SetRow
<1>4. ASSUME NEW a \in Accepts, AcceptPeer(a) PROVE NoLeakedEntry'
  BY <1>4 DEF AcceptPeer, NoPeer, AcceptRow, AcceptSession, SetRow
<1>5. ASSUME NEW r \in Rejects, RejectPeer(r) PROVE NoLeakedEntry'
  BY <1>5 DEF RejectPeer, NoPeer, RejectRow, Take, CloseOld, SetRow
<1>6. ASSUME NEW d \in Disconnects, DeleteSession(d) PROVE NoLeakedEntry'
  BY <1>6, ZenonT(30), SMTT(30) DEF DeleteSession, Take, CloseOld
<1>7. ASSUME NEW n \in Nicknames, SetNickname(n) PROVE NoLeakedEntry'
  BY <1>7, ZenonT(30), SMTT(30) DEF SetNickname, NoPeer, Get, Add
<1>8. CASE UNCHANGED vars
  BY <1>8 DEF vars
<1> QED
  BY <1>1, <1>2, <1>3, <1>4, <1>5, <1>6, <1>7, <1>8 DEF Next

\* No session stays in the sessions map after its goroutine has passed the deferred
\* Delete of readLoop: for every interleaving of any number of connections.
THEOREM EntriesAreServed == Spec => []NoLeakedEntry
<1>1. Init => NoLeakedEntry
  BY ProcAssumption DEF Init, NoLeakedEntry, Sess, Proc
<1> QED
  BY <1>1, TypeCorrect, NextNoLeakedEntry, PTL DEF Spec

--------------------------------------------------------------------------------
(* Connections.  The invariant needs that a handler answering before the upgrade,  *)
(* or a dial that fails, has no open connection.                                      *)

Unconnected == {"idle", "addPending", "check"}

ConnInv ==
  /\ NoLeakedConn
  /\ \A s \in Sess : pc[s] \in Unconnected => conn[s] # "open"

LEMMA NextConnInv == TypeOK /\ ConnInv /\ [Next]_vars => ConnInv'
<1> SUFFICES ASSUME TypeOK, ConnInv, [Next]_vars PROVE ConnInv'
  OBVIOUS
<1> USE ProcAssumption DEF TypeOK, ConnInv, NoLeakedConn, Unconnected, Step, At,
        Goto, others, Sess, Admin, Proc
<1>1. ASSUME NEW h \in Inbound, HandleWS(h) PROVE ConnInv'
  BY <1>1 DEF HandleWS, WSUnknown, WSKnown, WSRejected, WSAddPending,
     WSConflict, WSUpgrade, WSUpgradeFails, WSReplace, Get, Add, CloseOld,
     HandshakeFails, Handshake, Store, SetRow
<1>2. ASSUME NEW o \in Outbound, Dial(o) PROVE ConnInv'
  BY <1>2 DEF Dial, DialFails, DialOpens, HandshakeFails, LookUp, AddAccepted, SessionExists,
     NoSession, TakeStatus, Add, Store, Demote, SetRow
<1>3. ASSUME NEW s \in Sess,
             Receive(s) \/ ReadTimeout(s) \/ ReadLoop(s) \/ ConnDrops(s)
      PROVE ConnInv'
  BY <1>3 DEF Receive, ReadTimeout, ReadLoop, ConnDrops, Get, Add,
     PeerAcceptedRow, AcceptSession, ReadFails, Unregister, CloseSelf, SetRow
<1>4. ASSUME NEW a \in Accepts, AcceptPeer(a) PROVE ConnInv'
  BY <1>4, ZenonT(30), SMTT(30) DEF AcceptPeer, NoPeer, AcceptRow, AcceptSession, SetRow
<1>5. ASSUME NEW r \in Rejects, RejectPeer(r) PROVE ConnInv'
  BY <1>5, ZenonT(30), SMTT(30) DEF RejectPeer, NoPeer, RejectRow, Take, CloseOld, SetRow
<1>6. ASSUME NEW d \in Disconnects, DeleteSession(d) PROVE ConnInv'
  BY <1>6, ZenonT(30), SMTT(30) DEF DeleteSession, Take, CloseOld
<1>7. ASSUME NEW n \in Nicknames, SetNickname(n) PROVE ConnInv'
  BY <1>7, ZenonT(30), SMTT(30) DEF SetNickname, NoPeer, Get, Add
<1>8. CASE UNCHANGED vars
  BY <1>8 DEF vars
<1> QED
  BY <1>1, <1>2, <1>3, <1>4, <1>5, <1>6, <1>7, <1>8 DEF Next

\* A handler, a dial or a read loop that has ended has left no websocket open.
THEOREM ConnectionsAreClosed == Spec => []NoLeakedConn
<1>1. Init => ConnInv
  BY DEF Init, ConnInv, NoLeakedConn, Unconnected, Sess, Proc
<1>2. ConnInv => NoLeakedConn
  BY DEF ConnInv
<1> QED
  BY <1>1, <1>2, TypeCorrect, NextConnInv, PTL DEF Spec

--------------------------------------------------------------------------------
(* Rejects.  After a clean reject every row in flight is a rejected one, no handler *)
(* of an inbound connection is between its lookup and its read loop, no acceptance  *)
(* is half done, and what a dial is about to store has taken the rejected status.  *)

Rewriting == {"touchAdd", "nameAdd", "rename", "renameNew", "infoAdd", "seenAdd", "nickAdd"}

Settled == {"idle", "loop", "infoGet", "infoAdd", "grantRow", "unregister", "seenGet",
            "seenAdd", "closing", "done"}

Redialled == Settled \cup {"dialed", "exists", "takeStatus", "rename", "storeOut"}

RejectInv ==
  /\ \A h \in Inbound : pc[h] # "dialed"
  /\ verdict = "clean" =>
       /\ row = "rejected"
       /\ \A p \in Proc : pc[p] \in Rewriting => copy[p] = "rejected"
       /\ \A h \in Inbound : pc[h] \in Settled
       /\ \A o \in Outbound : pc[o] \in Redialled
       /\ \A o \in Outbound : pc[o] \in {"rename", "storeOut"} => stat[o] = "rejected"
       /\ \A a \in Accepts : pc[a] # "acceptStat"
       /\ \/ \E r \in Rejects : pc[r] = "take"
          \/ reg \notin Inbound /\ (reg \in Outbound => stat[reg] = "rejected")

LEMMA NextRejectInv ==
  TypeOK /\ RejectInv /\ [Next]_vars => RejectInv'
<1> SUFFICES ASSUME TypeOK, RejectInv, [Next]_vars PROVE RejectInv'
  OBVIOUS
<1> USE ProcAssumption DEF TypeOK, RejectInv, Rewriting, Settled, Redialled, Step, At,
        Goto, others, Sess, Admin, Proc
<1>1. ASSUME NEW h \in Inbound, HandleWS(h) PROVE RejectInv'
  BY <1>1 DEF HandleWS, WSUnknown, WSKnown, WSRejected, WSAddPending,
     WSConflict, WSUpgrade, WSUpgradeFails, WSReplace, Get, Add, CloseOld,
     HandshakeFails, Handshake, Store, SetRow
<1>2. ASSUME NEW o \in Outbound, Dial(o) PROVE RejectInv'
  BY <1>2 DEF Dial, DialFails, DialOpens, HandshakeFails, LookUp, AddAccepted, SessionExists,
     NoSession, TakeStatus, Add, Store, Demote, SetRow
<1>3. ASSUME NEW s \in Sess,
             Receive(s) \/ ReadTimeout(s) \/ ReadLoop(s) \/ ConnDrops(s)
      PROVE RejectInv'
  BY <1>3 DEF Receive, ReadTimeout, ReadLoop, ConnDrops, Get, Add,
     PeerAcceptedRow, AcceptSession, ReadFails, Unregister, CloseSelf, SetRow
<1>4. ASSUME NEW a \in Accepts, AcceptPeer(a) PROVE RejectInv'
  BY <1>4 DEF AcceptPeer, NoPeer, AcceptRow, AcceptSession, SetRow
<1>5. ASSUME NEW r \in Rejects, RejectPeer(r) PROVE RejectInv'
  BY <1>5 DEF RejectPeer, NoPeer, RejectRow, Take, CloseOld, SetRow, Busy
<1>6. ASSUME NEW d \in Disconnects, DeleteSession(d) PROVE RejectInv'
  BY <1>6 DEF DeleteSession, Take, CloseOld
<1>7. ASSUME NEW n \in Nicknames, SetNickname(n) PROVE RejectInv'
  BY <1>7 DEF SetNickname, NoPeer, Get, Add
<1>8. CASE UNCHANGED vars
  BY <1>8 DEF vars
<1> QED
  BY <1>1, <1>2, <1>3, <1>4, <1>5, <1>6, <1>7, <1>8 DEF Next

\* A reject that meets no goroutine in mid-course holds until the next acceptance,
\* whatever connects, disconnects or rewrites the row in between.
THEOREM RejectIsKept == Spec => []RejectHolds
<1>1. Init => RejectInv
  BY DEF Init, RejectInv, Sess, Proc
<1>2. RejectInv => RejectHolds
  BY DEF RejectInv, RejectHolds
<1> QED
  BY <1>1, <1>2, TypeCorrect, NextRejectInv, PTL DEF Spec
==================================================================================
