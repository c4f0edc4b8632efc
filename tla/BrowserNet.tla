----------------------------- MODULE BrowserNet -----------------------------
(***************************************************************************)
(* The browser client's way out: its router with the bounded streams, the  *)
(* socket that carries the bytes of one connection of the router, the      *)
(* bridge at the other end of that socket, and the routers it starts from. *)
(***************************************************************************)
EXTENDS Integers, FiniteSets, Sequences, FiniteSetsExt

(***************************************************************************)
(* The browser client's network: one in-process I2P router per worker,     *)
(* started and restarted by the profile, its bounded streams, the mailbox  *)
(* that accepts some of them and the pool that reuses others               *)
(* (src/browser-router/src/{network,tasks}.rs,                             *)
(* src/ui/src/browser-core/{backend,relay}.ts).                            *)
(*                                                                         *)
(* The worker is single-threaded: a step is what runs between two awaits.  *)
(* A closed network's calls all fail on its own counters, which nothing    *)
(* reads again, so closing it forgets them.                                *)
(***************************************************************************)

CONSTANTS Streams,       \* streams and calls that may become one
          MaxStreams,    \* MAX_CONCURRENT_STREAMS
          MaxServing,    \* streams the mailbox serves at once (8)
          MaxIdleStreams, \* streams kept for the next request (8)
          MaxRequests    \* requests at once: SEND_STREAMS and two probes

ASSUME StreamBounds ==
  /\ {MaxStreams, MaxServing, MaxIdleStreams, MaxRequests} \subseteq Nat
  /\ MaxStreams > 0

VARIABLES
  unlocked,   \* a profile is open
  status,     \* hosted: "off", "starting", "ready", "failed"
  retrying,   \* retryTimer is set
  scope,      \* a router run holds the worker's task scope
  dead,       \* the router stopped: fatal_error set and the token cancelled
  stream,     \* stream -> its stage
  active,     \* active_streams
  accepts     \* active_accepts

browserNetVars == <<unlocked, status, retrying, scope, dead, stream, active, accepts>>

Stages == {"free", "connecting", "using", "idle", "accepting", "serving", "broken"}
In(stage) == {s \in Streams : stream[s] = stage}
NetUp == status = "ready"

NetInit ==
  /\ unlocked = FALSE
  /\ status = "off"
  /\ retrying = FALSE
  /\ scope = FALSE
  /\ dead = FALSE
  /\ stream = [s \in Streams |-> "free"]
  /\ active = 0 /\ accepts = 0

\* BrowserRelay.close, NetworkInner.close: the token is cancelled, every call
\* and stream of this network ends, the scope is released with its tasks.
NetworkClosed ==
  /\ stream' = [s \in Streams |-> "free"]
  /\ active' = 0 /\ accepts' = 0
  /\ dead' = FALSE

\* networkFailed: closed, and tried again in 30 s.
NetworkFailed ==
  /\ NetworkClosed
  /\ scope' = FALSE
  /\ status' = "failed"
  /\ retrying' = TRUE
  /\ UNCHANGED unlocked

-----------------------------------------------------------------------------
\* Starting and stopping.

\* startNetwork up to its await: TaskScope::enter admits one run per worker.
StartNetwork ==
  IF scope
    THEN status' = "failed" /\ retrying' = TRUE /\ UNCHANGED scope
    ELSE status' = "starting" /\ retrying' = FALSE /\ scope' = TRUE

OpenProfileNet ==
  /\ ~unlocked
  /\ unlocked' = TRUE
  /\ StartNetwork
  /\ UNCHANGED <<dead, stream, active, accepts>>

\* The retry timer, or retry_network before it.
RetryNetwork ==
  /\ unlocked
  /\ status = "failed"
  /\ StartNetwork
  /\ UNCHANGED <<unlocked, dead, stream, active, accepts>>

\* BrowserNetwork::start ends: with a session, on which acceptLoop begins at
\* once, or with an error or its deadline, which drop the scope.
StartSucceeds(s) ==
  /\ status = "starting"
  /\ status' = "ready"
  /\ stream' = [stream EXCEPT ![s] = "accepting"]
  /\ active' = 1 /\ accepts' = 1
  /\ UNCHANGED <<unlocked, retrying, scope, dead>>

StartFails ==
  /\ status = "starting"
  /\ NetworkFailed

\* closeNow: a start under way is aborted by the engine's close.
LockNet ==
  /\ unlocked
  /\ unlocked' = FALSE
  /\ status' = "off"
  /\ retrying' = FALSE
  /\ scope' = FALSE
  /\ NetworkClosed

\* The router's future ends by itself: fatal_error and the token are set; the
\* calls waiting on the token find out when they are polled.
RouterStops ==
  /\ NetUp /\ ~dead
  /\ dead' = TRUE
  /\ UNCHANGED <<unlocked, status, retrying, scope, stream, active, accepts>>

-----------------------------------------------------------------------------
\* The mailbox: one accept at a time.

Full == active >= MaxStreams

\* A stream arrives: its permit becomes the stream's guard, and acceptLoop
\* goes on to the next accept without waiting.  A stream more than the mailbox
\* serves is closed first; an accept beyond the limit ends the loop, which
\* reports the network failed.
AcceptStream(s, t) ==
  /\ stream[s] = "accepting"
  /\ stream[t] = "free"
  /\ ~dead
  /\ IF Cardinality(In("serving")) >= MaxServing
       THEN UNCHANGED browserNetVars
       ELSE IF Full THEN NetworkFailed
       ELSE /\ stream' = [stream EXCEPT ![s] = "serving", ![t] = "accepting"]
            /\ active' = active + 1
            /\ UNCHANGED <<unlocked, status, retrying, scope, dead, accepts>>

\* acceptLoop ends without a word.
AcceptFailsMutant(s) ==
  /\ stream[s] = "accepting"
  /\ dead
  /\ stream' = [stream EXCEPT ![s] = "free"]
  /\ active' = active - 1 /\ accepts' = accepts - 1
  /\ UNCHANGED <<unlocked, status, retrying, scope, dead>>

\* The session fails, or the token wakes the accept.
AcceptFails(s) ==
  /\ stream[s] = "accepting"
  /\ dead
  /\ NetworkFailed

-----------------------------------------------------------------------------
\* Requests to other mailboxes.

Alive == <<unlocked, status, retrying, scope, dead>>

\* authenticated: a kept stream, or a connect within the limit.
ReuseStream(s) ==
  /\ stream[s] = "idle"
  /\ Cardinality(In("connecting") \cup In("using")) < MaxRequests
  /\ stream' = [stream EXCEPT ![s] = "using"]
  /\ UNCHANGED <<Alive, active, accepts>>

ConnectStream(s) ==
  /\ NetUp /\ ~dead
  /\ Cardinality(In("connecting") \cup In("using")) < MaxRequests
  /\ stream[s] = "free"
  /\ ~Full
  /\ stream' = [stream EXCEPT ![s] = "connecting"]
  /\ active' = active + 1
  /\ UNCHANGED <<Alive, accepts>>

Connected(s) ==
  /\ stream[s] = "connecting"
  /\ stream' = [stream EXCEPT ![s] = "using"]
  /\ UNCHANGED <<Alive, active, accepts>>

\* An error, the deadline or the token: the permit is dropped.
ConnectFails(s) ==
  /\ stream[s] = "connecting"
  /\ stream' = [stream EXCEPT ![s] = "free"]
  /\ active' = active - 1
  /\ UNCHANGED <<Alive, accepts>>

\* StreamInner::close: the guard is released once, by whoever is first.
Released(s) == IF stream[s] = "broken" THEN active ELSE active - 1

\* close from the inside: the guard is released, the wrapper still held.
StreamBroken(s) ==
  /\ stream' = [stream EXCEPT ![s] = "broken"]
  /\ active' = active - 1

\* read_frame and write_frame: an error, a frame of no valid length or the
\* deadline closes the stream; the network's token only ends the call.
FrameFails(s) ==
  /\ stream[s] \in {"using", "serving"}
  /\ ~dead
  /\ StreamBroken(s)
  /\ UNCHANGED <<Alive, accepts>>

\* reuse: an answered request keeps its stream, while there is room.
ExchangeEnds(s) ==
  /\ stream[s] = "using"
  /\ IF Cardinality(In("idle")) >= MaxIdleStreams
       THEN stream' = [stream EXCEPT ![s] = "free"] /\ active' = Released(s)
       ELSE stream' = [stream EXCEPT ![s] = "idle"] /\ UNCHANGED active
  /\ UNCHANGED <<Alive, accepts>>

\* release: a failed request, the end of serve, or the idle timer.
ReleaseStream(s) ==
  /\ stream[s] \in {"using", "serving", "idle", "broken"}
  /\ stream' = [stream EXCEPT ![s] = "free"]
  /\ active' = Released(s)
  /\ UNCHANGED <<Alive, accepts>>

NetNext ==
  \/ OpenProfileNet \/ RetryNetwork \/ StartFails \/ LockNet \/ RouterStops
  \/ \E s \in Streams :
       \/ StartSucceeds(s) \/ AcceptFails(s) \/ \E t \in Streams : AcceptStream(s, t)
       \/ ReuseStream(s) \/ ConnectStream(s) \/ Connected(s) \/ ConnectFails(s)
       \/ FrameFails(s) \/ ExchangeEnds(s) \/ ReleaseStream(s)

\* The worker runs its timers and its woken futures; a start has a deadline.
NetFairness ==
  /\ WF_browserNetVars(RetryNetwork)
  /\ WF_browserNetVars(StartFails \/ \E s \in Streams : StartSucceeds(s))
  /\ WF_browserNetVars(\E s \in Streams : AcceptFails(s))
  /\ \A s \in Streams : WF_browserNetVars(ReleaseStream(s)) /\ WF_browserNetVars(ConnectFails(s))

NetSpec == NetInit /\ [][NetNext]_browserNetVars /\ NetFairness

-----------------------------------------------------------------------------
NetTypeOK ==
  /\ unlocked \in BOOLEAN /\ retrying \in BOOLEAN /\ scope \in BOOLEAN /\ dead \in BOOLEAN
  /\ status \in {"off", "starting", "ready", "failed"}
  /\ stream \in [Streams -> Stages]
  /\ active \in Int /\ accepts \in Int

\* The counters say what they count: every permit and stream not released
\* yet, however it ends, and the limit is never exceeded.
PermitsCounted ==
  /\ active = Cardinality({s \in Streams : stream[s] \notin {"free", "broken"}})
  /\ accepts = Cardinality(In("accepting"))
  /\ active <= MaxStreams

\* An open profile is never left without a network and without a start or a
\* retry on its way, and a start never meets another run's scope.
NetworkIsTended ==
  /\ unlocked <=> status # "off"
  /\ (status = "failed") <=> retrying
  /\ scope <=> status \in {"starting", "ready"}

\* A router that stopped by itself is noticed and another one started.
DeadIsReplaced == dead ~> (status = "starting" \/ ~unlocked)

\* A network that works is kept: only its own router ends it, or the lock.
BusyKeepsNetwork == [][(NetUp /\ ~dead) => status' \in {"ready", "off"}]_browserNetVars

-----------------------------------------------------------------------------

(***************************************************************************)
(* The byte stream of the browser's router over a WebSocket or a WebRTC    *)
(* channel (src/browser-router/src/socket.rs).                             *)
(*                                                                         *)
(* The router holds BrowserTcpStream, which owns channels only.  An actor, *)
(* run_socket, owns the socket: it takes commands from a bounded queue,    *)
(* waits while the socket's own buffer is too full, and hands bytes over;  *)
(* the socket's callbacks fill the bounded queue of incoming frames and    *)
(* set the terminal flags both sides look at.  A step is what runs between *)
(* two awaits of the worker's only thread.                                 *)
(***************************************************************************)

CONSTANTS QueueDepth,     \* frames or commands a channel holds
          MaxBuffered,    \* frames the socket's buffer may hold before a write
          MaxWrites,      \* bound: writes of the router
          MaxFrames       \* bound: frames of the peer

VARIABLES
  commands,   \* queued commands: a write's number, or 0 for a flush
  command,     \* the command the actor holds, -1 when none
  actor,      \* "opening", "running", "ended"
  written,    \* writes accepted from the router
  amount,  \* writes the socket holds
  drained,    \* writes the socket has sent
  flush,      \* the flush under way: "none", "waiting", "acked", "dropped"
  flushed,    \* writes covered by a flush that succeeded
  frames,     \* frames waiting to be read
  arrived,    \* frames the peer's data reached the callback with
  got,        \* frames read
  channel,    \* the incoming channel is open for the callback
  terminal,   \* [closed, failed, clean]
  signal,     \* the socket's last event: "none", "error", "close"
  ended       \* what the reader met: "none", "eof", "error"

sockVars == <<commands, command, actor, written, amount, drained, flush, flushed,
              frames, arrived, got, channel, terminal, signal, ended>>
writeVars == <<commands, command, written, amount, drained, flush, flushed>>
readVars == <<frames, arrived, got, channel, ended>>

SocketInit ==
  /\ commands = << >> /\ command = -1
  /\ actor = "opening"
  /\ written = 0 /\ amount = 0 /\ drained = 0
  /\ flush = "none" /\ flushed = 0
  /\ frames = << >> /\ arrived = 0 /\ got = << >>
  /\ channel = TRUE
  /\ terminal = [closed |-> FALSE, failed |-> FALSE, clean |-> FALSE]
  /\ signal = "none" /\ ended = "none"

\* pending_writes: accepted, not handed to the socket yet.
PendingWrites == written - amount - drained

\* Terminal::finish.
Finished(failing) == [terminal EXCEPT !.closed = TRUE, !.failed = @ \/ failing]
FlushedOnClose == terminal.clean /\ ~terminal.failed

\* The actor ends: its queue and every flush it had not answered are dropped,
\* the guard detaches the callbacks and closes the socket.
ActorEnds(failing) ==
  /\ actor' = "ended"
  /\ commands' = << >> /\ command' = -1
  /\ flush' = IF flush = "waiting" THEN "dropped" ELSE flush
  /\ terminal' = Finished(failing)

-----------------------------------------------------------------------------
\* The router's side.

\* poll_write
PollWrite ==
  /\ actor = "running" /\ flush = "none"
  /\ ~terminal.closed
  /\ written < MaxWrites
  /\ Len(commands) < QueueDepth
  /\ written' = written + 1
  /\ commands' = Append(commands, written + 1)
  /\ UNCHANGED <<command, actor, amount, drained, flush, flushed, readVars, terminal, signal>>

\* poll_flush: the command is queued unless the socket is closed already.
BeginFlush ==
  /\ actor # "opening" /\ flush = "none"
  /\ IF terminal.closed
       THEN /\ flushed' = IF FlushedOnClose THEN written ELSE flushed
            /\ UNCHANGED <<commands, flush>>
       ELSE /\ Len(commands) < QueueDepth
            /\ commands' = Append(commands, 0)
            /\ flush' = "waiting"
            /\ UNCHANGED flushed
  /\ UNCHANGED <<command, actor, written, amount, drained, readVars, terminal, signal>>

\* poll_flush again: the terminal flags decide before the answer does.  The
\* answer or its loss wakes the flush; the terminal flags alone do not.
EndFlush ==
  /\ flush \in {"acked", "dropped"} \/ (flush = "waiting" /\ terminal.closed)
  /\ flush' = "none"
  /\ flushed' = IF FlushedOnClose \/ (flush = "acked" /\ ~terminal.closed)
                  THEN written ELSE flushed
  /\ UNCHANGED <<commands, command, actor, written, amount, drained, readVars, terminal, signal>>

\* poll_read: what is queued comes before the end.
PollRead ==
  /\ actor # "opening" /\ ended = "none"
  /\ IF frames # << >>
       THEN /\ got' = Append(got, Head(frames))
            /\ frames' = Tail(frames)
            /\ UNCHANGED ended
       ELSE /\ terminal.closed
            /\ ended' = IF terminal.failed THEN "error" ELSE "eof"
            /\ UNCHANGED <<got, frames>>
  /\ UNCHANGED <<writeVars, actor, arrived, channel, terminal, signal>>

-----------------------------------------------------------------------------
\* The actor.

\* The socket opens, the stream is handed over; or it does not in time.
SocketOpens ==
  /\ actor = "opening"
  /\ \/ actor' = "running" /\ ~terminal.closed /\ UNCHANGED <<commands, command, flush, terminal>>
     \/ ActorEnds(FALSE)
  /\ UNCHANGED <<written, amount, drained, flushed, readVars, signal>>

TakeCommand ==
  /\ actor = "running" /\ command = -1
  /\ commands # << >>
  /\ command' = Head(commands)
  /\ commands' = Tail(commands)
  /\ UNCHANGED <<actor, written, amount, drained, flush, flushed, readVars, terminal, signal>>

Threshold == IF command = 0 THEN 0 ELSE MaxBuffered - 1

\* The command is carried out once the socket's buffer has room for it; a
\* flush waits until it is empty.
RunCommand ==
  /\ actor = "running" /\ command # -1
  /\ amount <= Threshold
  /\ IF terminal.closed
       THEN ActorEnds(FALSE) /\ UNCHANGED amount
       ELSE /\ command' = -1
            /\ amount' = IF command = 0 THEN amount ELSE amount + 1
            /\ flush' = IF command = 0 THEN "acked" ELSE flush
            /\ UNCHANGED <<actor, commands, terminal>>
  /\ UNCHANGED <<written, drained, flushed, readVars, signal>>

\* The socket refuses the bytes.
SocketSendFails ==
  /\ actor = "running" /\ command > 0
  /\ amount <= Threshold /\ ~terminal.closed
  /\ ActorEnds(TRUE)
  /\ UNCHANGED <<written, amount, drained, flushed, readVars, signal>>

\* Mutant: the wait for room has no deadline.
CommandTimesOutMutant ==
  /\ actor = "running" /\ command # -1
  /\ amount > Threshold /\ terminal.closed
  /\ ActorEnds(TRUE)
  /\ UNCHANGED <<written, amount, drained, flushed, readVars, signal>>

\* The buffer stays full: the deadline, or a socket that closed meanwhile.
CommandTimesOut ==
  /\ actor = "running" /\ command # -1
  /\ amount > Threshold
  /\ ActorEnds(TRUE)
  /\ UNCHANGED <<written, amount, drained, flushed, readVars, signal>>

\* The socket's event ends the actor when no command is waiting.
ActorStops ==
  /\ actor = "running" /\ command = -1
  /\ commands = << >> /\ signal # "none"
  /\ ActorEnds(FALSE)
  /\ UNCHANGED <<written, amount, drained, flushed, readVars, signal>>

-----------------------------------------------------------------------------
\* The socket's events.

Drain ==
  /\ amount > 0 /\ signal # "close"
  /\ amount' = amount - 1
  /\ drained' = drained + 1
  /\ UNCHANGED <<commands, command, actor, written, flush, flushed, readVars, terminal, signal>>

\* onmessage: a full queue closes the stream instead of losing a frame.
OnMessage ==
  /\ actor # "ended" /\ ~terminal.closed
  /\ arrived < MaxFrames
  /\ arrived' = arrived + 1
  /\ IF channel /\ Len(frames) < QueueDepth
       THEN /\ frames' = Append(frames, arrived + 1)
            /\ UNCHANGED <<channel, terminal>>
       ELSE /\ terminal' = Finished(TRUE)
            /\ channel' = FALSE
            /\ UNCHANGED frames
  /\ UNCHANGED <<writeVars, actor, got, ended, signal>>

\* onclose: clean only when the socket says so and nothing of ours is left.
OnClose(wasClean) ==
  /\ actor # "ended" /\ signal # "close"
  /\ terminal' = [Finished(~wasClean) EXCEPT
                    !.clean = wasClean /\ amount = 0 /\ PendingWrites = 0]
  /\ signal' = "close"
  /\ UNCHANGED <<writeVars, actor, readVars>>

OnError ==
  /\ actor # "ended" /\ signal = "none"
  /\ terminal' = Finished(TRUE)
  /\ signal' = "error"
  /\ UNCHANGED <<writeVars, actor, readVars>>

SocketNext ==
  \/ PollWrite \/ BeginFlush \/ EndFlush \/ PollRead
  \/ SocketOpens \/ TakeCommand \/ RunCommand \/ SocketSendFails \/ CommandTimesOut \/ ActorStops
  \/ Drain \/ OnMessage \/ OnError \/ \E c \in BOOLEAN : OnClose(c)

\* The actor is polled when woken and its waits have deadlines; the router
\* reads, and polls a flush once woken.  Its one task writes and flushes in
\* turn.  The socket itself promises nothing.
SocketFairness ==
  /\ WF_sockVars(TakeCommand)
  /\ WF_sockVars(RunCommand \/ SocketSendFails \/ CommandTimesOut)
  /\ WF_sockVars(ActorStops)
  /\ WF_sockVars(EndFlush /\ flush # "waiting")
  /\ WF_sockVars(PollRead)

SocketSpec == SocketInit /\ [][SocketNext]_sockVars /\ SocketFairness

-----------------------------------------------------------------------------
\* A flush that succeeds has sent every write before it, also when the peer
\* closes while the flush is waiting.
FlushedIsSent == flushed <= drained

\* The reader gets the peer's frames in order without a gap, and a clean end
\* only after all of them.
NoFrameLost ==
  /\ got = [i \in 1 .. Len(got) |-> i]
  /\ ended = "eof" => Len(got) = arrived

\* A flush is always answered.
FlushEnds == (flush = "waiting") ~> (flush = "none")

-----------------------------------------------------------------------------
(***************************************************************************)
(* The bridge (browser-router/forwarder/src/{lib,main}.rs): it carries the *)
(* bytes of a browser's connection to one listed NTCP2 target, over a      *)
(* WebSocket or over a data channel that a WebSocket signals for.  A       *)
(* request is checked, admitted against three limits, and served until a   *)
(* side closes or a deadline passes.                                       *)
(*                                                                         *)
(* Time counts TARGET_REFILL; a frame is one unit of bytes.                *)
(***************************************************************************)

CONSTANTS Visitors,      \* requests being served
          Targets,       \* addresses of the target file
          PermitLimit,   \* Policy::new's connections
          RateBurst,     \* requests admitted at once
          TargetBurst,   \* TARGET_BURST
          LeaseLife,     \* how long a loaded target may be dialled
          BytesLimit,    \* max_bytes
          PublicIp,      \* rtc_public_ip is set
          BindIsPublic,  \* rtc_bind is a public address
          MaxBridgeTime, MaxReloads

ASSUME BridgeAssumption ==
    /\ {PublicIp, BindIsPublic} \subseteq BOOLEAN
    /\ {PermitLimit, RateBurst, TargetBurst, LeaseLife, BytesLimit, MaxBridgeTime, MaxReloads} \subseteq Nat

VARIABLES visitor,    \* where each request stands
          carried,    \* bytes its session carried, both ways
          bound,      \* the target it was authorized for
          permits,    \* Policy::permits
          rate,       \* Policy::rate
          dials,      \* Policy::dials: tokens of each target
          leases,     \* Policy::targets: until when a target may be dialled
          bridgeTime, reloads,
          dialled     \* how often each target was dialled

bridgeVars == <<visitor, carried, bound, permits, rate, dials, leases, bridgeTime, reloads, dialled>>

VisitorPlaces == {"none", "connect", "upgrade", "stream", "offer", "signal", "channel", "pipe", "close"}

BridgeTypeOK ==
    /\ visitor \in [Visitors -> VisitorPlaces] /\ carried \in [Visitors -> 0 .. BytesLimit]
    /\ bound \in [Visitors -> Targets] /\ permits \in 0 .. PermitLimit
    /\ rate \in 0 .. RateBurst /\ dials \in [Targets -> 0 .. TargetBurst]
    /\ leases \in [Targets -> 0 .. MaxBridgeTime + LeaseLife]

\* load_targets: rows that verify, are public and on an allowed port; a lease
\* ends with its row's RouterInfo, and LeaseLife from now.
LoadedTargets == [Targets -> {0} \union (bridgeTime + 1 .. bridgeTime + LeaseLife)]

BridgeInit ==
    /\ bridgeTime = 0 /\ reloads = 0
    /\ leases \in LoadedTargets /\ \E h \in Targets : leases[h] > 0
    /\ visitor = [c \in Visitors |-> "none"] /\ carried = [c \in Visitors |-> 0]
    /\ bound = [c \in Visitors |-> CHOOSE h \in Targets : TRUE]
    /\ permits = PermitLimit /\ rate = RateBurst
    /\ dials = [h \in Targets |-> TargetBurst] /\ dialled = [h \in Targets |-> 0]

\* authorize: host, origin, capability and key are right, and the target's
\* lease runs.
AuthorizeTarget(h) == leases[h] > bridgeTime

\* Policy::admit and admit_target.  A bucket that was forgotten is a full one.
AdmitTarget(h) == dials[h] >= 1

\* WebRTC is served only where an answer has a public address to name.
RtcEnabled == PublicIp \/ BindIsPublic

\* The permit goes with the task that holds it.
Returned == permits' = permits + 1

\* upgrade, up to its first await: a stream dials at once, a data channel
\* when it is open.  A request refused for want of a permit or of a token of
\* its target has used up one of the general rate.
Upgrade(c, h, rtc) ==
    /\ visitor[c] = "none" /\ AuthorizeTarget(h) /\ (rtc => RtcEnabled) /\ rate >= 1
    /\ rate' = rate - 1
    /\ IF permits > 0 /\ AdmitTarget(h)
       THEN /\ permits' = permits - 1
            /\ dials' = [dials EXCEPT ![h] = IF @ > 0 THEN @ - 1 ELSE @]
            /\ visitor' = [visitor EXCEPT ![c] = IF rtc THEN "upgrade" ELSE "connect"]
            /\ bound' = [bound EXCEPT ![c] = h] /\ carried' = [carried EXCEPT ![c] = 0]
            /\ dialled' = IF rtc THEN dialled ELSE [dialled EXCEPT ![h] = @ + 1]
       ELSE UNCHANGED <<permits, dials, visitor, bound, carried, dialled>>
    /\ UNCHANGED <<leases, bridgeTime, reloads>>

\* The stream's target answers within CONNECT and the socket is upgraded, or
\* the request ends there.
ConnectTarget(c) ==
    /\ visitor[c] = "connect"
    /\ \/ visitor' = [visitor EXCEPT ![c] = "stream"] /\ UNCHANGED permits
       \/ visitor' = [visitor EXCEPT ![c] = "none"] /\ Returned
    /\ UNCHANGED <<carried, bound, rate, dials, leases, bridgeTime, reloads, dialled>>

\* The socket of a data channel is upgraded, or the browser is gone.
UpgradeRtc(c) ==
    /\ visitor[c] = "upgrade"
    /\ \/ visitor' = [visitor EXCEPT ![c] = "offer"] /\ UNCHANGED permits
       \/ visitor' = [visitor EXCEPT ![c] = "none"] /\ Returned
    /\ UNCHANGED <<carried, bound, rate, dials, leases, bridgeTime, reloads, dialled>>

\* An offer: its sections, and what its candidates name.
Offers == [media : 0 .. 2, candidates : SUBSET {"public", "internal"}]

\* validate_offer: one data channel, and candidates of which all are public.
ValidOffer(offer) == offer.media = 1 /\ offer.candidates = {"public"}

\* filter_answer: of the candidates found here, those that are named.  The
\* configured address stands for every interface of this host.
Found == {"public", "internal", "reflexive"}
FilterAnswer(found) ==
    IF PublicIp /\ found \ {"reflexive"} # {} THEN {"public"} ELSE found \intersect {"public"}

\* rtc_session, the offer: it is valid and the peer is built, or the session
\* returns.
TakeOffer(c) ==
    /\ visitor[c] = "offer"
    /\ \/ /\ \E offer \in Offers : ValidOffer(offer)
          /\ visitor' = [visitor EXCEPT ![c] = "signal"] /\ UNCHANGED permits
       \/ visitor' = [visitor EXCEPT ![c] = "none"] /\ Returned
    /\ UNCHANGED <<carried, bound, rate, dials, leases, bridgeTime, reloads, dialled>>

\* The answer is sent, if it names a candidate, and the channel opens; then the
\* target is dialled; all within OPEN, or the peer is closed.
OpenChannel(c) ==
    /\ visitor[c] = "signal"
    /\ \/ /\ \E found \in SUBSET Found : FilterAnswer(found) # {}
          /\ visitor' = [visitor EXCEPT ![c] = "channel"]
          /\ dialled' = [dialled EXCEPT ![bound[c]] = @ + 1]
       \/ visitor' = [visitor EXCEPT ![c] = "close"] /\ UNCHANGED dialled
    /\ UNCHANGED <<carried, bound, permits, rate, dials, leases, bridgeTime, reloads>>

ConnectChannel(c) ==
    /\ visitor[c] = "channel"
    /\ \E next \in {"pipe", "close"} : visitor' = [visitor EXCEPT ![c] = next]
    /\ UNCHANGED <<carried, bound, permits, rate, dials, leases, bridgeTime, reloads, dialled>>

\* One frame either way, within the budget; one past it ends the session.
Carry(c) ==
    /\ IF carried[c] < BytesLimit
       THEN carried' = [carried EXCEPT ![c] = @ + 1] /\ UNCHANGED visitor
       ELSE visitor' = [visitor EXCEPT ![c] = "close"] /\ UNCHANGED carried
    /\ UNCHANGED <<bound, permits, rate, dials, leases, bridgeTime, reloads, dialled>>

\* ws_pump: it ends when a side closes or is idle, and with policy.session.
CarryFrame(c) == visitor[c] = "stream" /\ Carry(c)
EndStream(c) ==
    /\ visitor[c] = "stream" /\ visitor' = [visitor EXCEPT ![c] = "close"]
    /\ UNCHANGED <<carried, bound, permits, rate, dials, leases, bridgeTime, reloads, dialled>>

\* Mutant: a data channel is not held to policy.session.
EndPipeMutant(c) ==
    /\ visitor[c] = "pipe" /\ carried[c] = 0 /\ visitor' = [visitor EXCEPT ![c] = "close"]
    /\ UNCHANGED <<carried, bound, permits, rate, dials, leases, bridgeTime, reloads, dialled>>

\* rtc_pipe: as ws_pump, and when the peer or the signalling fails (Events,
\* signaling).
CarryMessage(c) == visitor[c] = "pipe" /\ Carry(c)
EndPipe(c) ==
    /\ visitor[c] = "pipe" /\ visitor' = [visitor EXCEPT ![c] = "close"]
    /\ UNCHANGED <<carried, bound, permits, rate, dials, leases, bridgeTime, reloads, dialled>>

\* ws_session and rtc_session close what they opened, within deadlines.
CloseSession(c) ==
    /\ visitor[c] = "close" /\ visitor' = [visitor EXCEPT ![c] = "none"] /\ Returned
    /\ UNCHANGED <<carried, bound, rate, dials, leases, bridgeTime, reloads, dialled>>

\* main's reload; one that fails leaves the old leases to their deadlines.
ReloadTargets ==
    /\ reloads < MaxReloads /\ reloads' = reloads + 1
    /\ leases' \in LoadedTargets
    /\ UNCHANGED <<visitor, carried, bound, permits, rate, dials, bridgeTime, dialled>>

\* The refill of the buckets; the general one fills faster.
BridgeTick ==
    /\ bridgeTime < MaxBridgeTime /\ bridgeTime' = bridgeTime + 1
    /\ dials' = [h \in Targets |-> Min({dials[h] + 1, TargetBurst})]
    /\ UNCHANGED <<visitor, carried, bound, permits, rate, leases, reloads, dialled>>

RateRefill ==
    /\ rate < RateBurst /\ rate' = rate + 1
    /\ UNCHANGED <<visitor, carried, bound, permits, dials, leases, bridgeTime, reloads, dialled>>

BridgeNext ==
    \/ ReloadTargets \/ BridgeTick \/ RateRefill
    \/ \E c \in Visitors :
          \/ ConnectTarget(c) \/ UpgradeRtc(c) \/ TakeOffer(c) \/ OpenChannel(c) \/ ConnectChannel(c)
          \/ CarryFrame(c) \/ EndStream(c) \/ CarryMessage(c) \/ EndPipe(c) \/ CloseSession(c)
          \/ \E h \in Targets, rtc \in BOOLEAN : Upgrade(c, h, rtc)

\* A permit is out exactly while a request is being served.
PermitsAreHeld == permits + Cardinality({c \in Visitors : visitor[c] # "none"}) = PermitLimit

\* "Even a valid capability cannot make the bridge hammer one IP:port": over
\* any time a target is dialled at most TARGET_BURST times and once per
\* TARGET_REFILL, whoever asks and however the target file is reloaded.
DialsAreBounded == \A h \in Targets : dialled[h] <= TargetBurst + bridgeTime

\* What was admitted ends: every wait of a session has a deadline.
SessionsEnd == \A c \in Visitors : visitor[c] # "none" ~> visitor[c] = "none"

-----------------------------------------------------------------------------
(***************************************************************************)
(* The routers a browser starts from (browser-router/src/bootstrap.rs,     *)
(* bootstrap-cache.js): a published snapshot, pinned by its digest, and    *)
(* what earlier sessions learned, saved after each backup of the router's. *)
(* A set of routers is a function to their publication dates, 0 for one    *)
(* that is not in it.  The browser's storage may fail to write, and reads  *)
(* what it holds; an archive of MAX_RECORDS is within the limits of size.  *)
(***************************************************************************)

CONSTANTS Routers,
          MinRouters, MaxRecords,   \* MIN_ROUTERS, MAX_RECORDS
          RouterLife,               \* how long a RouterInfo is fresh
          MaxNetTime

ASSUME NetDbAssumption ==
    /\ {MinRouters, MaxRecords, RouterLife, MaxNetTime} \subseteq Nat \ {0}
    /\ MinRouters <= MaxRecords

VARIABLES known,       \* LiveNetDb::routers
          routerUp,    \* a router runs
          liveCache,   \* the archive of the live cache
          snapCached,  \* the snapshot is in its cache
          lastStart,   \* how the last start went
          netTime

netDbVars == <<known, routerUp, liveCache, snapCached, lastStart, netTime>>

NoRouters == [r \in Routers |-> 0]
Dates == 0 .. MaxNetTime
Listed(set) == {r \in Routers : set[r] # 0}

NetDbInit ==
    /\ known = NoRouters /\ routerUp = FALSE /\ liveCache = NoRouters
    /\ snapCached = FALSE /\ lastStart = "none" /\ netTime = 1

\* The release's snapshot, made when time began.
Published == [r \in Routers |-> IF r \in CHOOSE R \in SUBSET Routers : Cardinality(R) = MinRouters
                                THEN 1 ELSE 0]

\* usable: signed, public and fresh.
Usable(date) == date # 0 /\ netTime < date + RouterLife
UsableIn(set) == {r \in Routers : Usable(set[r])}

\* verify_archive: the records that are usable, or nothing if they are too few
\* or more than the limit.
VerifyArchive(set) ==
    IF Cardinality(UsableIn(set)) \in MinRouters .. MaxRecords
    THEN [r \in Routers |-> IF Usable(set[r]) THEN set[r] ELSE 0]
    ELSE NoRouters

\* fetch_snapshot, from its cache or else fetched again; the fetch may fail.
SnapshotOf(fetched) == IF snapCached \/ fetched THEN VerifyArchive(Published) ELSE NoRouters

\* merge_routers: the snapshot, filled up with the live ones in their order; or
\* the live ones alone.
MergeRouters(snapshot, live) ==
    IF snapshot = NoRouters THEN {live}
    ELSE LET extra == Listed(live) \ Listed(snapshot)
             room == MaxRecords - Cardinality(Listed(snapshot))
         IN  {[r \in Routers |-> IF r \in more THEN live[r] ELSE snapshot[r]] : more \in
                {m \in SUBSET extra :
                    /\ Cardinality(m) = Min({room, Cardinality(extra)})
                    /\ \A a \in m, b \in extra \ m : live[a] >= live[b]}}

\* bootstrap_routers and LiveNetDb::new.
StartRouter ==
    /\ ~routerUp
    /\ \E fetched \in BOOLEAN :
        LET snapshot == SnapshotOf(fetched)
        IN  /\ snapCached' \in IF snapshot = NoRouters THEN {FALSE} ELSE {TRUE, snapCached}
            /\ \E merged \in MergeRouters(snapshot, VerifyArchive(liveCache)) :
                  IF Cardinality(Listed(merged)) >= MinRouters
                  THEN known' = merged /\ routerUp' = TRUE /\ lastStart' = "up"
                  ELSE lastStart' = "failed" /\ UNCHANGED <<known, routerUp>>
    /\ UNCHANGED <<liveCache, netTime>>

\* Mutant: the records are not sorted.
ArchivesMutant(set) ==
    {[r \in Routers |-> IF r \in kept THEN set[r] ELSE 0] : kept \in
        {k \in SUBSET Listed(set) : Cardinality(k) = Min({MaxRecords, Cardinality(Listed(set))})}}

\* LiveNetDb::archive: newest first, within the limit that is checked when it
\* is read.
Archives(set) ==
    {[r \in Routers |-> IF r \in kept THEN set[r] ELSE 0] : kept \in
        {k \in SUBSET Listed(set) :
            /\ Cardinality(k) = Min({MaxRecords, Cardinality(Listed(set))})
            /\ \A a \in k, b \in Listed(set) \ k : set[a] >= set[b]}}

\* save_to_disk: a newer copy replaces an older one, and the whole set is
\* written out in the background, which may not come to pass.
SaveToDisk(r, date) ==
    /\ routerUp /\ date <= netTime
    /\ known' = [known EXCEPT ![r] = IF Usable(date) /\ @ <= date THEN date ELSE @]
    /\ liveCache' \in Archives(known') \union {liveCache}
    /\ UNCHANGED <<routerUp, snapCached, lastStart, netTime>>

RemoveFromDisk(r) ==
    /\ routerUp /\ known' = [known EXCEPT ![r] = 0]
    /\ UNCHANGED <<routerUp, liveCache, snapCached, lastStart, netTime>>

CloseRouter ==
    /\ routerUp /\ routerUp' = FALSE /\ known' = NoRouters
    /\ UNCHANGED <<liveCache, snapCached, lastStart, netTime>>

NetDbTick ==
    /\ netTime < MaxNetTime /\ netTime' = netTime + 1
    /\ UNCHANGED <<known, routerUp, liveCache, snapCached, lastStart>>

NetDbNext ==
    \/ StartRouter \/ CloseRouter \/ NetDbTick
    \/ \E r \in Routers : RemoveFromDisk(r) \/ \E date \in Dates \ {0} : SaveToDisk(r, date)

\* "A restart is warm even when the snapshot cannot be fetched or has outlived
\* its 36 hours": no start fails while the saved routers that are still fresh
\* are enough.
SavedIsEnough == lastStart = "failed" => Cardinality(UsableIn(liveCache)) < MinRouters

\* What a save leaves out for want of room is older than what it keeps, so no
\* fresh router makes way for a stale one.
SaveKeepsFresh ==
    [][liveCache' # liveCache =>
         Cardinality(UsableIn(liveCache')) >= Min({MaxRecords, Cardinality(UsableIn(known'))})]_netDbVars
=============================================================================
