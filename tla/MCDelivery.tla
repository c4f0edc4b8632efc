----------------------------- MODULE MCDelivery -----------------------------
(* What is sent arrives or comes to an end: messages between two clients,  *)
(* mail collected from a relay, the notes and the files of the browser     *)
(* client; and the tunnels of a hosted relay.                              *)
EXTENDS Session, RelayLogin, BrowserOutbox

VARIABLE part    \* the component that runs

deliveryVars == <<part, vars, loginVars, outboxVars, filesVars, tunnelVars>>

Runs(p) == part = p

DeliveryInit ==
    /\ part \in {"session", "login", "outbox", "files", "tunnels"}
    /\ Init /\ LoginInit /\ OutboxInit /\ FilesInit /\ TunnelsInit
    /\ part # "login" => ourRelay \in OldRelays /\ ~partsCome
    /\ part # "outbox" => accepted
    /\ part # "files" => vetted

DeliveryNext ==
    /\ UNCHANGED part
    /\ \/ part = "session" /\ Next /\ UNCHANGED <<loginVars, outboxVars, filesVars, tunnelVars>>
       \/ part = "login" /\ LoginNext /\ UNCHANGED <<vars, outboxVars, filesVars, tunnelVars>>
       \/ part = "outbox" /\ OutboxNext /\ UNCHANGED <<vars, loginVars, filesVars, tunnelVars>>
       \/ part = "files" /\ FilesNext /\ UNCHANGED <<vars, loginVars, outboxVars, tunnelVars>>
       \/ part = "tunnels" /\ TunnelsNext /\ UNCHANGED <<vars, loginVars, outboxVars, filesVars>>

\* The fairness of each component, while it is the one that runs.
DeliveryFairness ==
    /\ \A p \in Peers :
           /\ WF_vars(Runs("session") /\ Open(p))
           /\ WF_vars(Runs("session") /\ SendMessage(p))
           /\ WF_vars(Runs("session") /\ Receive(p))
           /\ WF_vars(Runs("session") /\ Process(p))
    /\ WF_loginVars(Runs("login") /\ DialMain)
    /\ WF_loginVars(Runs("login") /\ LoginMain)
    /\ WF_loginVars(Runs("login") /\ PublishRefused)
    /\ WF_loginVars(Runs("login") /\ MainMoved) /\ WF_loginVars(Runs("login") /\ PushMail)
    /\ WF_loginVars(Runs("login") /\ CollectLaneWanted) /\ WF_loginVars(Runs("login") /\ LoginLane)
    /\ \A l \in LaneIds : WF_loginVars(Runs("login") /\ LaneQuiet(l))
    /\ \A l \in Mailings :
         /\ WF_outboxVars(Runs("outbox") /\ SealEntry(l))
         /\ SF_outboxVars(Runs("outbox") /\ DepositEntry(l))
         /\ WF_outboxVars(Runs("outbox") /\ RefuseEntry(l))
         /\ WF_outboxVars(Runs("outbox") /\ SettleEntry(l))
    /\ \A r \in Notes \X {"got", "erased"} : WF_outboxVars(Runs("outbox") /\ r \in replies /\ TakeReply(r))
    /\ WF_filesVars(Runs("files") /\ OfferAnswered)
    /\ WF_filesVars(Runs("files") /\ DepositOffer)
    /\ WF_filesVars(Runs("files") /\ FinishVerification)
    /\ WF_filesVars(Runs("files") /\ TakeCancel)
    /\ \A p \in FileParts : WF_filesVars(Runs("files") /\ SealPart(p)) /\ WF_filesVars(Runs("files") /\ DepositPart(p)) /\ WF_filesVars(Runs("files") /\ PartOverdue(p))
    /\ WF_filesVars(Runs("files") /\ (\E a \in answers : TakeReceipt(a) \/ TakeRefusal(a)))
    /\ \A p \in Presses : WF_tunnelVars(Runs("tunnels") /\ PressStep(p))
    /\ WF_tunnelVars(Runs("tunnels") /\ StartHostedRebuild)
    /\ WF_tunnelVars(Runs("tunnels") /\ (EndHostedRebuild \/ HostedRebuildFails))

DeliverySpec == DeliveryInit /\ [][DeliveryNext]_deliveryVars /\ DeliveryFairness

\* The properties of each component.  What must happen in the end is asked of
\* the behaviours in which the component runs.

\* Two clients that open sessions at once end up with the same one, and every
\* message of either arrives (session.rs, core.rs).
SessionDelivers == []SameAnswer /\ (Runs("session") => AllDelivered)

\* Mail left at our relay is collected whatever login the relay understands
\* (session.rs run_recv_loop, relay.rs).
LoginCollects == Runs("login") => MailCollected

\* The browser client settles every note, every deletion (model.ts dueLetters,
\* backend.ts receive) and every file, which is shown complete only when it is
\* stored (files.ts).
BrowserSettles ==
    /\ []CompleteIsStored
    /\ (Runs("outbox") => OutboxSettles)
    /\ (Runs("files") => TransferEnds)

\* The tunnels of the hosted relay come to the length last asked for
\* (i2p.rs, relay_server.rs).
TunnelsSettle == Runs("tunnels") => HostedSettles
=============================================================================
