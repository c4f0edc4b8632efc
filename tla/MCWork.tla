------------------------------- MODULE MCWork -------------------------------
(* Work that is taken up and finished: the orders of an agent and the      *)
(* commands of its host, updates of the program, the sockets and the network *)
(* of the browser client; and the storage of the network, whose memory     *)
(* variant implements what the trait promises.                             *)
EXTENDS Agent, Updates, BrowserNet, DhtStores

\* An item of the network: its content and its length.
MCValues == {<<"a", 1>>, <<"b", 1>>, <<"c", 2>>}
MCLetters == {<<"a", 1>>, <<"c", 2>>}

\* What is said to a bot: a text, a press of a button, two pictures.
MCPayloads == {[press |-> 0, words |-> TRUE, files |-> 0],
               [press |-> 1, words |-> FALSE, files |-> 0],
               [press |-> 0, words |-> FALSE, files |-> 2]}

VARIABLE part    \* the component that runs

workVars == <<part, agentVars, agentHostVars, updateVars, sockVars, browserNetVars, storesVars,
              bridgeVars, netDbVars, botVars, capture>>

Runs(p) == part = p

WorkInit ==
    /\ part \in {"agent", "host", "updates", "socket", "net", "stores", "bridge", "netdb", "bot", "capture"}
    /\ AgentModeInit /\ AgentHostInit /\ UpdatesInit /\ SocketInit /\ NetInit /\ StoresInit
    /\ BridgeInit /\ NetDbInit /\ BotInit /\ capture = NoOutput
    /\ part # "updates" => platform = (CHOOSE p \in Platforms : TRUE)

WorkNext ==
    /\ UNCHANGED part
    /\ \/ part = "agent" /\ AgentModeNext /\ UNCHANGED <<agentHostVars, updateVars, sockVars, browserNetVars, storesVars, bridgeVars, netDbVars, botVars, capture>>
       \/ part = "host" /\ AgentHostNext /\ UNCHANGED <<agentVars, updateVars, sockVars, browserNetVars, storesVars, bridgeVars, netDbVars, botVars, capture>>
       \/ part = "updates" /\ UpdatesNext /\ UNCHANGED <<agentVars, agentHostVars, sockVars, browserNetVars, storesVars, bridgeVars, netDbVars, botVars, capture>>
       \/ part = "socket" /\ SocketNext /\ UNCHANGED <<agentVars, agentHostVars, updateVars, browserNetVars, storesVars, bridgeVars, netDbVars, botVars, capture>>
       \/ part = "net" /\ NetNext /\ UNCHANGED <<agentVars, agentHostVars, updateVars, sockVars, storesVars, bridgeVars, netDbVars, botVars, capture>>
       \/ part = "stores" /\ StoresNext /\ UNCHANGED <<agentVars, agentHostVars, updateVars, sockVars, browserNetVars, bridgeVars, netDbVars, botVars, capture>>
       \/ part = "bridge" /\ BridgeNext
          /\ UNCHANGED <<agentVars, agentHostVars, updateVars, sockVars, browserNetVars, storesVars, netDbVars, botVars, capture>>
       \/ part = "netdb" /\ NetDbNext
          /\ UNCHANGED <<agentVars, agentHostVars, updateVars, sockVars, browserNetVars, storesVars, bridgeVars, botVars, capture>>
       \/ part = "bot" /\ BotNext
          /\ UNCHANGED <<agentVars, agentHostVars, updateVars, sockVars, browserNetVars, storesVars, bridgeVars, netDbVars, capture>>
       \/ part = "capture" /\ ShellWrites
          /\ UNCHANGED <<agentVars, agentHostVars, updateVars, sockVars, browserNetVars, storesVars, bridgeVars, netDbVars, botVars>>

\* The fairness of each component, while it is the one that runs.
WorkFairness ==
    /\ WF_agentVars(Runs("agent") /\ SwitchSet)
    /\ WF_agentVars(Runs("agent") /\ SwitchQueue)
    /\ WF_agentVars(Runs("agent") /\ BarEnds)
    /\ WF_agentVars(Runs("agent") /\ TakeOrder)
    /\ WF_agentVars(Runs("agent") /\ WaitEnds(TRUE))
    /\ WF_agentVars(Runs("agent") /\ RunEnds)
    /\ WF_agentVars(Runs("agent") /\ AppStarts)
    /\ \A b \in Bosses : WF_agentVars(Runs("agent") /\ HandOver(b))
    /\ WF_agentHostVars(Runs("host") /\ HandlePayload)
    /\ WF_agentHostVars(Runs("host") /\ HandleFile)
    /\ WF_agentHostVars(Runs("host") /\ HandleErased)
    /\ WF_agentHostVars(Runs("host") /\ HandleOff)
    /\ WF_agentHostVars(Runs("host") /\ HandleDelivered)
    /\ WF_agentHostVars(Runs("host") /\ StopDeadline)
    /\ WF_agentHostVars(Runs("host") /\ TakeJob) /\ WF_agentHostVars(Runs("host") /\ ShellEnds)
    /\ WF_agentHostVars(Runs("host") /\ ReadersEnd) /\ WF_agentHostVars(Runs("host") /\ ReplyJob)
    /\ \A m \in JobIds : WF_agentHostVars(Runs("host") /\ FileEnds(m))
    /\ WF_updateVars(Runs("updates") /\ CheckRelease("loop"))
    /\ \A a \in Updaters :
          /\ WF_updateVars(Runs("updates") /\ OfferUpdate(a))
          /\ SF_updateVars(Runs("updates") /\ BeginInstall(a))
          /\ WF_updateVars(Runs("updates") /\ DownloadAsset(a))
          /\ WF_updateVars(Runs("updates") /\ InstallInPlace(a))
          /\ WF_updateVars(Runs("updates") /\ InstallDeb(a))
          /\ WF_updateVars(Runs("updates") /\ StageInstaller(a))
          /\ WF_updateVars(Runs("updates") /\ StageApk(a))
          /\ WF_updateVars(Runs("updates") /\ HandoffEnds(a))
    /\ WF_updateVars(Runs("updates") /\ CallbackStarts)
    /\ WF_updateVars(Runs("updates") /\ CallbackEnds)
    /\ WF_sockVars(Runs("socket") /\ TakeCommand)
    /\ WF_sockVars(Runs("socket") /\ (RunCommand \/ SocketSendFails \/ CommandTimesOut))
    /\ WF_sockVars(Runs("socket") /\ ActorStops)
    /\ WF_sockVars(Runs("socket") /\ EndFlush /\ flush # "waiting")
    /\ WF_sockVars(Runs("socket") /\ PollRead)
    /\ WF_browserNetVars(Runs("net") /\ RetryNetwork)
    /\ WF_browserNetVars(Runs("net") /\ (StartFails \/ \E s \in Streams : StartSucceeds(s)))
    /\ WF_browserNetVars(Runs("net") /\ (\E s \in Streams : AcceptFails(s)))
    /\ \A s \in Streams : WF_browserNetVars(Runs("net") /\ ReleaseStream(s)) /\ WF_browserNetVars(Runs("net") /\ ConnectFails(s))
    /\ \A c \in Visitors : WF_bridgeVars(Runs("bridge") /\ (ConnectTarget(c) \/ UpgradeRtc(c) \/ TakeOffer(c)
                              \/ OpenChannel(c) \/ ConnectChannel(c) \/ EndStream(c) \/ EndPipe(c) \/ CloseSession(c)))
    /\ WF_botVars(Runs("bot") /\ (TakePayload \/ TakeFile \/ TakeDeleted \/ SendItem))
    /\ WF_botVars(Runs("bot") /\ \E f \in filesIn, whole \in BOOLEAN : ItemFileEnds(f, whole))
    /\ \A c \in BotChats :
          WF_botVars(Runs("bot") /\ (StartItem(c) \/ HandlerReturns(c) \/ HandlerFails(c)))

WorkSpec == WorkInit /\ [][WorkNext]_workVars /\ WorkFairness

\* The properties of each component.  What must happen in the end is asked of
\* the behaviours in which the component runs.

\* An order of the master runs once, only while it is permitted, and a
\* waiting one is taken up (agent.rs, core.rs); the host answers every command,
\* in order, with both ends of its output (agent/src/main.rs).
OrdersObeyed ==
    /\ []AgentModeTypeOK /\ []AgentHostTypeOK
    /\ []OrderRunsOnce
    /\ RunIsPermitted
    /\ []RepliesInOrder
    /\ []CaptureKeepsEnds
    /\ (Runs("agent") => PendingIsTaken)
    /\ (Runs("host") => CommandAnswered)
    /\ []BotTypeOK
    /\ []AnsweredOnce
    /\ (Runs("bot") => ItemSettled)

\* An update that is out is prepared, and only a verified installer is run
\* (update.rs).
UpdatesSettle ==
    /\ []UpdatesTypeOK
    /\ []OnlyVerifiedRuns
    /\ []HandedOffIsKept
    /\ (Runs("updates") => UpdateIsPrepared)

\* A dead network is replaced, and every permit comes back (network.rs); a
\* flush ends, what it confirmed was sent, and no frame that came is lost
\* (socket.rs).
NetworkRecovers ==
    /\ []NetTypeOK
    /\ []PermitsCounted
    /\ []NetworkIsTended
    /\ []FlushedIsSent /\ []NoFrameLost
    /\ (Runs("net") => DeadIsReplaced)
    /\ (Runs("socket") => FlushEnds)

\* The bridge keeps its limits and lets go of what it admitted (forwarder).
BridgeHolds ==
    /\ []BridgeTypeOK
    /\ []PermitsAreHeld
    /\ []DialsAreBounded
    /\ (Runs("bridge") => SessionsEnd)

\* The browser starts from what it saved (bootstrap.rs).
StartsWarm == []SavedIsEnough /\ SaveKeepsFresh
=============================================================================
