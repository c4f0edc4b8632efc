------------------------------- MODULE Agent --------------------------------
(***************************************************************************)
(* What acts without a person: agent mode of the app, gipny-agent (the host *)
(* of a master's commands, and what it keeps of their output) and a bot on *)
(* the SDK.  They share no state; each has its own part below.             *)
(***************************************************************************)
EXTENDS Naturals, Sequences, FiniteSets, SequencesExt

(***************************************************************************)
(* Agent mode of the app: whose console commands it runs, the markers that *)
(* keep a command pending across mode switches and restarts, and the one   *)
(* worker that runs them (core/src/core.rs, db/message_commit.rs).         *)
(*                                                                         *)
(* One step is one database transaction or one hand-over between tasks.    *)
(***************************************************************************)

CONSTANTS Bosses, NoBoss, MaxOrders, MaxAgentEvents

ASSUME AgentModeAssumption ==
    /\ NoBoss \notin Bosses /\ MaxOrders \in Nat \ {0} /\ MaxAgentEvents \in Nat

VARIABLES
    boss,        \* SETTING_AGENT_MASTER, when that contact exists
    barred,      \* blocked contacts
    orderFrom,   \* sender of each stored command, in the order stored
    orderRows,   \* commands whose message row is there
    markers,     \* console_pending_<id>
    messageParts,       \* commands with files still coming in parts
    storing,     \* per contact, a command committed and not yet handed over
    orders,      \* the agent worker's queue
    order,       \* the command the worker has taken, with its master
    ran,         \* commands run, in order
    switching,   \* set_agent_mode under way: <<step, contact>>
    barring,     \* update_contact to Blocked under way
    appUp,
    agentEvents  \* a person's and the network's acts, bounded by MaxAgentEvents

agentVars == <<boss, barred, orderFrom, orderRows, markers, messageParts, storing, orders, order, ran,
               switching, barring, appUp, agentEvents>>
storeVars == <<orderFrom, orderRows, markers, messageParts>>

Orders == 1 .. MaxOrders
NoOrder == [id |-> 0, boss |-> NoBoss, step |-> "idle"]
NoSwitch == <<"none", NoBoss>>

AgentModeTypeOK ==
    /\ boss \in Bosses \union {NoBoss} /\ barred \subseteq Bosses
    /\ orderRows \subseteq 1 .. Len(orderFrom) /\ markers \subseteq orderRows
    /\ order.id \in 0 .. MaxOrders /\ order.step \in {"idle", "wait", "run"}
    /\ switching[1] \in {"none", "set", "queue"} /\ barring \in Bosses \union {NoBoss}

AgentModeInit ==
    /\ boss = NoBoss /\ barred = {} /\ orderFrom = <<>> /\ orderRows = {} /\ markers = {}
    /\ messageParts = {} /\ storing = [b \in Bosses |-> 0] /\ orders = <<>> /\ order = NoOrder
    /\ ran = <<>> /\ switching = NoSwitch /\ barring = NoBoss /\ appUp = TRUE /\ agentEvents = 0

AgentEvent == agentEvents < MaxAgentEvents /\ agentEvents' = agentEvents + 1

-----------------------------------------------------------------------------
(* Receiving.                                                              *)

\* publish_incoming: the message and its marker in one transaction.  Mail of
\* one contact is handled in turn; a blocked one's is not stored.
StoreOrder(b, file) ==
    LET m == Len(orderFrom) + 1
    IN  /\ appUp /\ m <= MaxOrders /\ storing[b] = 0 /\ b \notin barred
        /\ orderFrom' = Append(orderFrom, b)
        /\ orderRows' = orderRows \union {m} /\ markers' = markers \union {m}
        /\ messageParts' = IF file THEN messageParts \union {m} ELSE messageParts
        /\ storing' = [storing EXCEPT ![b] = m]
        /\ UNCHANGED <<boss, barred, orders, order, ran, switching, barring, appUp, agentEvents>>

\* The master's command is queued; another's stays pending.
HandOver(b) ==
    /\ appUp /\ storing[b] # 0
    /\ orders' = IF boss = b THEN Append(orders, storing[b]) ELSE orders
    /\ storing' = [storing EXCEPT ![b] = 0]
    /\ UNCHANGED <<boss, barred, storeVars, order, ran, switching, barring, appUp, agentEvents>>

FilesWhole(m) ==
    /\ appUp /\ m \in messageParts /\ messageParts' = messageParts \ {m}
    /\ UNCHANGED <<boss, barred, orderFrom, orderRows, markers, storing, orders, order, ran,
                   switching, barring, appUp, agentEvents>>

\* Deleting the message takes its marker and its parts with it.
EraseOrder(m) ==
    /\ appUp /\ AgentEvent /\ m \in orderRows
    /\ orderRows' = orderRows \ {m} /\ markers' = markers \ {m} /\ messageParts' = messageParts \ {m}
    /\ UNCHANGED <<boss, barred, orderFrom, storing, orders, order, ran, switching, barring, appUp>>

-----------------------------------------------------------------------------
(* Switching the mode.                                                     *)

\* set_agent_mode: refused for a blocked contact ...
SwitchRead(b) ==
    /\ appUp /\ AgentEvent /\ switching = NoSwitch /\ b \notin barred
    /\ switching' = <<"set", b>>
    /\ UNCHANGED <<boss, barred, storeVars, storing, orders, order, ran, barring, appUp>>

\* ... the setting is written ...
SwitchSet ==
    /\ appUp /\ switching[1] = "set"
    /\ boss' = switching[2] /\ switching' = <<"queue", switching[2]>>
    /\ UNCHANGED <<barred, storeVars, storing, orders, order, ran, barring, appUp, agentEvents>>

\* The pending commands of one contact, oldest first.
PendingOf(b) ==
    SelectSeq([m \in 1 .. Len(orderFrom) |-> m],
              LAMBDA m : m \in markers /\ m \in orderRows /\ orderFrom[m] = b)

\* ... and what is pending from them is queued.
SwitchQueue ==
    /\ appUp /\ switching[1] = "queue"
    /\ orders' = orders \o PendingOf(switching[2]) /\ switching' = NoSwitch
    /\ UNCHANGED <<boss, barred, storeVars, storing, order, ran, barring, appUp, agentEvents>>

\* disable_agent_mode, by the person here or by the master's OFF.
SwitchOff ==
    /\ appUp /\ AgentEvent /\ boss # NoBoss /\ boss' = NoBoss
    /\ UNCHANGED <<barred, storeVars, storing, orders, order, ran, switching, barring, appUp>>

\* update_contact: the trust first, then agent mode if it was the master.
Bar(b) ==
    /\ appUp /\ AgentEvent /\ barring = NoBoss /\ b \notin barred
    /\ barred' = barred \union {b} /\ barring' = b
    /\ UNCHANGED <<boss, storeVars, storing, orders, order, ran, switching, appUp>>

BarEnds ==
    /\ appUp /\ barring # NoBoss /\ barring' = NoBoss
    /\ boss' = IF boss = barring THEN NoBoss ELSE boss
    /\ UNCHANGED <<barred, storeVars, storing, orders, order, ran, switching, appUp, agentEvents>>

-----------------------------------------------------------------------------
(* The worker: run_console_command.                                        *)

\* Being the master is taken as enough.
AuthorizedMutant(b, m) == m \in markers /\ boss = b /\ m \in orderRows

\* command_still_authorized.
Authorized(b, m) ==
    /\ m \in markers /\ boss = b /\ b \notin barred
    /\ m \in orderRows /\ orderFrom[m] = b

TakeOrder ==
    /\ appUp /\ order = NoOrder /\ orders # <<>>
    /\ orders' = Tail(orders)
    /\ LET m == Head(orders)
       IN  IF m \notin markers \/ boss = NoBoss
           THEN UNCHANGED <<order, markers>>
           ELSE IF orderFrom[m] = boss
           THEN order' = [id |-> m, boss |-> boss, step |-> "wait"] /\ UNCHANGED markers
           ELSE markers' = markers \ {m} /\ UNCHANGED order
    /\ UNCHANGED <<boss, barred, orderFrom, orderRows, messageParts, storing, ran, switching, barring,
                   appUp, agentEvents>>

\* The wait ends: the files are here, the permission is gone, or an hour has
\* passed; then the permission in force now decides, and the marker goes first.
WaitEnds(hour) ==
    /\ appUp /\ order.step = "wait"
    /\ order.id \notin messageParts \/ ~Authorized(order.boss, order.id) \/ hour
    /\ markers' = markers \ {order.id}
    /\ IF Authorized(order.boss, order.id)
       THEN order' = [order EXCEPT !.step = "run"] /\ ran' = Append(ran, order.id)
       ELSE order' = NoOrder /\ UNCHANGED ran
    /\ UNCHANGED <<boss, barred, orderFrom, orderRows, messageParts, storing, orders, switching, barring,
                   appUp, agentEvents>>

RunEnds ==
    /\ appUp /\ order.step = "run" /\ order' = NoOrder
    /\ UNCHANGED <<boss, barred, storeVars, storing, orders, ran, switching, barring, appUp,
                   agentEvents>>

-----------------------------------------------------------------------------
(* The app ends, at any point, and starts again.                           *)

AppEnds ==
    /\ appUp /\ AgentEvent /\ appUp' = FALSE
    /\ storing' = [b \in Bosses |-> 0] /\ orders' = <<>> /\ order' = NoOrder
    /\ switching' = NoSwitch /\ barring' = NoBoss
    /\ UNCHANGED <<boss, barred, storeVars, ran>>

AppStarts ==
    /\ ~appUp /\ appUp' = TRUE
    /\ orders' = IF boss = NoBoss THEN <<>> ELSE PendingOf(boss)
    /\ UNCHANGED <<boss, barred, storeVars, storing, order, ran, switching, barring, agentEvents>>

AgentModeNext ==
    \/ \E b \in Bosses : HandOver(b) \/ SwitchRead(b) \/ Bar(b)
                         \/ \E file \in BOOLEAN : StoreOrder(b, file)
    \/ \E m \in Orders : FilesWhole(m) \/ EraseOrder(m)
    \/ SwitchSet \/ SwitchQueue \/ SwitchOff \/ BarEnds
    \/ TakeOrder \/ (\E hour \in BOOLEAN : WaitEnds(hour)) \/ RunEnds
    \/ AppEnds \/ AppStarts

\* Tasks of one runtime; the wait for files is bounded by an hour.
AgentModeFairness ==
    /\ WF_agentVars(SwitchSet) /\ WF_agentVars(SwitchQueue) /\ WF_agentVars(BarEnds)
    /\ WF_agentVars(TakeOrder) /\ WF_agentVars(WaitEnds(TRUE)) /\ WF_agentVars(RunEnds)
    /\ WF_agentVars(AppStarts) /\ \A b \in Bosses : WF_agentVars(HandOver(b))

AgentModeSpec == AgentModeInit /\ [][AgentModeNext]_agentVars /\ AgentModeFairness

-----------------------------------------------------------------------------
\* However often a command is queued (by its arrival, by each switch to its
\* master, at each start), it runs at most once: the marker is gone before it
\* runs, so that a crash half way through does not run it again.
OrderRunsOnce == \A i, k \in 1 .. Len(ran) : ran[i] = ran[k] => i = k

\* A command starts only for the contact that is master at that moment, not
\* blocked, and whose message is still there, whatever happened while it was
\* queued or waited for its files (command_still_authorized).
RunIsPermitted ==
    [][ran' # ran => LET b == orderFrom[order'.id]
                     IN  boss = b /\ b \notin barred /\ order'.id \in orderRows]_agentVars

\* A pending command of the master is not forgotten: whichever of the receive
\* task, the switch and the restart sees it first, it is run or dropped, or
\* the mode changes again.
PendingIsTaken ==
    \A m \in Orders :
        (m \in markers /\ boss = orderFrom[m])
            ~> (m \notin markers \/ boss # orderFrom[m])

-----------------------------------------------------------------------------

(***************************************************************************)
(* gipny-agent: the event loop that orders the master's commands, the one  *)
(* worker that runs them, what it keeps of their output, and the stop that *)
(* waits for its REVOKE to arrive (agent/src/main.rs, libcore/src/agent.rs). *)
(*                                                                         *)
(* A command is a number, in the order the session stored them.  The      *)
(* session delivers events in order.                                      *)
(***************************************************************************)

CONSTANTS MaxJobs, MaxErased

ASSUME AgentHostAssumption == MaxJobs \in Nat \ {0} /\ MaxErased \in Nat

VARIABLES
    sentJobs,   \* how many commands the session has stored
    byMaster,   \* which of them the master sent
    coming,     \* commands with a file still coming in parts
    erased,     \* commands the master deleted
    hostEvents, \* the session's events, not yet handled
    heldCommands,       \* Held: <<command, ready>> in arrival order
    jobs,       \* the worker's queue
    job,        \* the command being run, 0 when none
    shell,      \* where it stands: "run", "reading", "done"
    replies,    \* commands answered, in order
    halt,       \* "no", "stopping", "exited"
    revoke      \* the closing REVOKE: "none", "queued", "delivered"

runVars == <<job, shell, replies>>
agentHostVars == <<sentJobs, byMaster, coming, erased, hostEvents, heldCommands, jobs, runVars, halt, revoke>>

JobIds == 1 .. MaxJobs

AgentHostTypeOK ==
    /\ sentJobs \in 0 .. MaxJobs /\ byMaster \subseteq JobIds /\ coming \subseteq JobIds
    /\ erased \subseteq JobIds
    /\ \A i \in 1 .. Len(heldCommands) : heldCommands[i][1] \in JobIds /\ heldCommands[i][2] \in BOOLEAN
    /\ job \in 0 .. MaxJobs /\ shell \in {"run", "reading", "done"}
    /\ halt \in {"no", "stopping", "exited"} /\ revoke \in {"none", "queued", "delivered"}

AgentHostInit ==
    /\ sentJobs = 0 /\ byMaster = {} /\ coming = {} /\ erased = {} /\ hostEvents = <<>>
    /\ heldCommands = <<>> /\ jobs = <<>> /\ job = 0 /\ shell = "done"
    /\ replies = <<>> /\ halt = "no" /\ revoke = "none"

-----------------------------------------------------------------------------
(* The session: a command is stored and announced; its file is announced   *)
(* when it is whole or has failed.                                         *)

CommandStored(m, master, file) ==
    /\ m = sentJobs + 1 /\ m <= MaxJobs /\ halt # "exited"
    /\ sentJobs' = m
    /\ byMaster' = IF master THEN byMaster \union {m} ELSE byMaster
    /\ coming' = IF file THEN coming \union {m} ELSE coming
    /\ hostEvents' = Append(hostEvents, <<"payload", m>>)
    /\ UNCHANGED <<erased, heldCommands, jobs, runVars, halt, revoke>>

FileEnds(m) ==
    /\ m \in coming /\ halt # "exited"
    /\ coming' = coming \ {m}
    /\ hostEvents' = Append(hostEvents, <<"file", m>>)
    /\ UNCHANGED <<sentJobs, byMaster, erased, heldCommands, jobs, runVars, halt, revoke>>

\* The master deletes a command: its files go with it, and the session
\* announces the deletion and nothing about the files.
DeleteStored(m) ==
    /\ m \in (1 .. sentJobs) \ erased /\ halt # "exited"
    /\ Cardinality(erased) < MaxErased
    /\ erased' = erased \union {m} /\ coming' = coming \ {m}
    /\ hostEvents' = Append(hostEvents, <<"erased", m>>)
    /\ UNCHANGED <<sentJobs, byMaster, heldCommands, jobs, runVars, halt, revoke>>

\* The master's OFF, and the delivery of the REVOKE.
OffStored ==
    /\ halt = "no" /\ \A i \in 1 .. Len(hostEvents) : hostEvents[i][1] # "off"
    /\ hostEvents' = Append(hostEvents, <<"off", 0>>)
    /\ UNCHANGED <<sentJobs, byMaster, coming, erased, heldCommands, jobs, runVars, halt, revoke>>

RevokeDelivered ==
    /\ revoke = "queued" /\ halt = "stopping"
    /\ revoke' = "delivered"
    /\ hostEvents' = Append(hostEvents, <<"delivered", 0>>)
    /\ UNCHANGED <<sentJobs, byMaster, coming, erased, heldCommands, jobs, runVars, halt>>

-----------------------------------------------------------------------------
(* The event loop.                                                         *)

\* Only the command whose files came is released, not those behind it.
DrainedMutant(queue) ==
    IF queue # <<>> /\ Head(queue)[2]
    THEN heldCommands' = Tail(queue) /\ jobs' = Append(jobs, Head(queue)[1])
    ELSE heldCommands' = queue /\ UNCHANGED jobs

\* Held::drain: everything ready from the front.
Drained(queue) ==
    LET ready == {n \in 0 .. Len(queue) : \A i \in 1 .. n : queue[i][2]}
        n == CHOOSE k \in ready : \A other \in ready : other <= k
    IN  /\ heldCommands' = SubSeq(queue, n + 1, Len(queue))
        /\ jobs' = jobs \o [i \in 1 .. n |-> queue[i][1]]

Handled(kind) ==
    /\ halt # "exited" /\ hostEvents # <<>> /\ Head(hostEvents)[1] = kind
    /\ hostEvents' = Tail(hostEvents)

\* IncomingPayload with a command: only the master's, and none once stopping.
HandlePayload ==
    LET m == Head(hostEvents)[2]
    IN  /\ Handled("payload")
        /\ IF m \in byMaster /\ halt = "no"
           THEN Drained(Append(heldCommands, <<m, m \notin coming>>))
           ELSE UNCHANGED <<heldCommands, jobs>>
        /\ UNCHANGED <<sentJobs, byMaster, coming, erased, runVars, halt, revoke>>

\* FileReceived, FileFailed: Held::ready once no file of it is left.
HandleFile ==
    LET m == Head(hostEvents)[2]
    IN  /\ Handled("file")
        /\ IF m \in coming THEN UNCHANGED <<heldCommands, jobs>>
           ELSE Drained([i \in 1 .. Len(heldCommands) |->
                    IF heldCommands[i][1] = m THEN <<m, TRUE>> ELSE heldCommands[i]])
        /\ UNCHANGED <<sentJobs, byMaster, coming, erased, runVars, halt, revoke>>

\* MessageDeleted is none of the events the loop acts on.
HandleErased ==
    /\ Handled("erased")
    /\ UNCHANGED <<sentJobs, byMaster, coming, erased, heldCommands, jobs, runVars, halt, revoke>>

\* begin_stop: the REVOKE is queued; queueing may fail.
BeginStop ==
    /\ halt' = "stopping"
    /\ revoke' \in {"queued", "none"}

HandleOff ==
    /\ Handled("off")
    /\ IF halt = "no" THEN BeginStop ELSE UNCHANGED <<halt, revoke>>
    /\ UNCHANGED <<sentJobs, byMaster, coming, erased, heldCommands, jobs, runVars>>

\* The process ends, and what it had in memory with it.
ExitHost ==
    /\ halt' = "exited" /\ hostEvents' = <<>> /\ heldCommands' = <<>> /\ jobs' = <<>>
    /\ job' = 0 /\ shell' = "done"
    /\ UNCHANGED replies

HandleDelivered ==
    /\ halt # "exited" /\ hostEvents # <<>> /\ Head(hostEvents)[1] = "delivered"
    /\ ExitHost
    /\ UNCHANGED <<sentJobs, byMaster, coming, erased, revoke>>

\* Ctrl-C or SIGTERM; the second one ends at once.
Interrupt ==
    /\ halt # "exited"
    /\ \/ halt = "no" /\ BeginStop /\ UNCHANGED <<hostEvents, heldCommands, jobs, runVars>>
       \/ halt = "stopping" /\ ExitHost /\ UNCHANGED revoke
    /\ UNCHANGED <<sentJobs, byMaster, coming, erased>>

\* REVOKE_WAIT has passed.
StopDeadline ==
    /\ halt = "stopping" /\ ExitHost
    /\ UNCHANGED <<sentJobs, byMaster, coming, erased, revoke>>

-----------------------------------------------------------------------------
(* The worker: run_command and the reply.                                  *)

\* handle_console_request: a shell, or an answer at once (a control word, an
\* upload that failed, an empty body, a shell that cannot be started).
HandleRequest == shell' \in {"run", "done"}

TakeJob ==
    /\ halt # "exited" /\ job = 0 /\ jobs # <<>>
    /\ job' = Head(jobs) /\ jobs' = Tail(jobs)
    /\ HandleRequest
    /\ UNCHANGED <<sentJobs, byMaster, coming, erased, hostEvents, heldCommands, replies, halt, revoke>>

\* It exits, or the timeout kills its process group.
ShellEnds ==
    /\ halt # "exited" /\ job # 0 /\ shell = "run" /\ shell' = "reading"
    /\ UNCHANGED <<sentJobs, byMaster, coming, erased, hostEvents, heldCommands, jobs, job, replies, halt, revoke>>

\* The pipes close, or the grace period ends the readers.
ReadersEnd ==
    /\ halt # "exited" /\ job # 0 /\ shell = "reading" /\ shell' = "done"
    /\ UNCHANGED <<sentJobs, byMaster, coming, erased, hostEvents, heldCommands, jobs, job, replies, halt, revoke>>

ReplyJob ==
    /\ halt # "exited" /\ job # 0 /\ shell = "done"
    /\ replies' = Append(replies, job) /\ job' = 0
    /\ UNCHANGED <<sentJobs, byMaster, coming, erased, hostEvents, heldCommands, jobs, shell, halt, revoke>>

AgentHostNext ==
    \/ \E m \in JobIds : FileEnds(m) \/ DeleteStored(m) \/ \E master, file \in BOOLEAN : CommandStored(m, master, file)
    \/ OffStored \/ RevokeDelivered
    \/ HandlePayload \/ HandleFile \/ HandleErased \/ HandleOff \/ HandleDelivered \/ Interrupt \/ StopDeadline
    \/ TakeJob \/ ShellEnds \/ ReadersEnd \/ ReplyJob

\* The loop and the worker are tasks of one runtime; a command ends because
\* the timeout ends it; a file comes whole or is given up; the deadline fires.
AgentHostFairness ==
    /\ WF_agentHostVars(HandlePayload) /\ WF_agentHostVars(HandleFile) /\ WF_agentHostVars(HandleErased)
    /\ WF_agentHostVars(HandleOff) /\ WF_agentHostVars(HandleDelivered)
    /\ WF_agentHostVars(StopDeadline)
    /\ WF_agentHostVars(TakeJob) /\ WF_agentHostVars(ShellEnds)
    /\ WF_agentHostVars(ReadersEnd) /\ WF_agentHostVars(ReplyJob)
    /\ \A m \in JobIds : WF_agentHostVars(FileEnds(m))

AgentHostSpec == AgentHostInit /\ [][AgentHostNext]_agentHostVars /\ AgentHostFairness

-----------------------------------------------------------------------------
\* The master reads the replies as a terminal: they come in the order the
\* commands arrived, whichever of them had to wait for files, each once and
\* only to the master (Held, the single worker).
RepliesInOrder ==
    \A i, k \in 1 .. Len(replies) :
        /\ i < k => replies[i] < replies[k]
        /\ replies[i] \in byMaster

\* Every command of the master is answered unless the agent is stopped or the
\* master deletes one: no event order leaves one held for files that have
\* already come.
CommandAnswered == []<>(byMaster \subseteq Range(replies) \/ halt # "no" \/ erased # {})

\* "A command's files are in (or will not come): it may run": a held command
\* whose files are no longer coming is released.
HeldIsReleased ==
    \A m \in JobIds :
        (m \notin coming /\ <<m, FALSE>> \in Range(heldCommands))
            ~> (<<m, FALSE>> \notin Range(heldCommands) \/ halt # "no")

-----------------------------------------------------------------------------
(***************************************************************************)
(* What is kept of the output of one command (Capture, libcore/src/agent.rs): *)
(* a sequence of byte positions, filled by the readers of its pipes while   *)
(* it, or a process it left behind, writes.                                 *)
(***************************************************************************)

CONSTANTS HeadCap, TailCap, MaxWritten

ASSUME CaptureAssumption ==
    HeadCap \in Nat \ {0} /\ TailCap \in Nat \ {0} /\ MaxWritten \in Nat

VARIABLE capture  \* head, tail, how much was dropped and how much was written

NoOutput == [head |-> <<>>, tail |-> <<>>, dropped |-> 0, written |-> 0]

\* Capture::push of the next byte.
Pushed(c, b) ==
    IF Len(c.head) < HeadCap
    THEN [c EXCEPT !.head = Append(@, b), !.written = b]
    ELSE IF Len(c.tail) = TailCap
    THEN [c EXCEPT !.tail = Append(Tail(@), b), !.dropped = @ + 1, !.written = b]
    ELSE [c EXCEPT !.tail = Append(@, b), !.written = b]

ShellWrites ==
    capture.written < MaxWritten /\ capture' = Pushed(capture, capture.written + 1)

\* What is kept of a runaway output is its first bytes, its last bytes and an
\* exact count of what is missing between them (Capture).
CaptureKeepsEnds ==
    LET kept == capture.head \o capture.tail
    IN  /\ Len(kept) + capture.dropped = capture.written
        /\ \A i \in 1 .. Len(kept) :
              kept[i] = IF i <= Len(capture.head) THEN i ELSE i + capture.dropped
        /\ capture.dropped > 0 => Len(capture.tail) = TailCap

-----------------------------------------------------------------------------
(***************************************************************************)
(* A bot (bot-sdk/src/lib.rs): one loop takes the session's events, holds   *)
(* a message until its files are in, and hands each item to the worker of   *)
(* its chat; the worker runs the bot's handler, again after an error, and   *)
(* keeps what it gives up as a dead letter.                                 *)
(*                                                                         *)
(* An item is a payload the session stored.  Its press, 0 for a text, is    *)
(* the sender, time and data of a button's callback: a payload that comes   *)
(* twice has the same one.                                                  *)
(***************************************************************************)

CONSTANTS BotChats, Payloads, MaxItems, EventQueue, ChatQueue, MaxAttempts, MaxBotEvents

ASSUME BotAssumption ==
    /\ \A p \in Payloads : p.press \in Nat /\ p.words \in BOOLEAN /\ p.files \in Nat
    /\ MaxItems \in Nat
    /\ EventQueue \in Nat \ {0} /\ ChatQueue \in Nat \ {0}
    /\ MaxAttempts \in Nat \ {0} /\ MaxBotEvents \in Nat

VARIABLES
    items,       \* the payloads stored, in order
    filesIn,     \* files still coming in parts: <<item, file>>
    events,      \* the session's events on their way to the loop
    heldItems,   \* held: items waiting for their files
    sending,     \* the item the loop is handing over; 0: none
    contacts,    \* chats whose contact record is there
    workers,     \* chats with a worker
    chatQueue,   \* per chat: the worker's queue
    working,     \* per chat: the item being handled, and its failed attempts
    seenPresses, \* callback_seen
    answered,    \* items a handler finished, in order
    deadLetters, \* items given up
    gone,        \* items nothing more will come of
    purged,      \* presses whose record was purged
    botEvents    \* a person's and the machine's acts, bounded by MaxBotEvents

loopVars == <<events, heldItems, sending>>
workerVars == <<chatQueue, working, seenPresses, answered, deadLetters, purged>>
botVars == <<items, filesIn, contacts, loopVars, workers, workerVars, gone, botEvents>>

NoItem == [id |-> 0, attempt |-> 0]
ItemIds == 1 .. Len(items)
ChatOf(m) == items[m].chat
PressOf(m) == <<ChatOf(m), items[m].press>>
IsComing(m) == \E f \in filesIn : f[1] = m

BotTypeOK ==
    /\ \A f \in filesIn : f[1] \in ItemIds /\ f[2] \in 1 .. items[f[1]].files
    /\ heldItems \subseteq ItemIds
    /\ sending \in 0 .. Len(items) /\ Len(events) <= EventQueue
    /\ \A c \in BotChats : Len(chatQueue[c]) <= ChatQueue /\ working[c].attempt < MaxAttempts
    /\ \A p \in seenPresses : p[1] \in BotChats /\ p[2] # 0
    /\ Range(answered) \union deadLetters \union gone \subseteq ItemIds

BotInit ==
    /\ items = <<>> /\ filesIn = {} /\ events = <<>> /\ heldItems = {} /\ sending = 0
    /\ contacts = BotChats /\ workers = {} /\ chatQueue = [c \in BotChats |-> <<>>]
    /\ working = [c \in BotChats |-> NoItem] /\ seenPresses = {} /\ answered = <<>>
    /\ deadLetters = {} /\ gone = {} /\ purged = {} /\ botEvents = 0

BotEvent == botEvents < MaxBotEvents /\ botEvents' = botEvents + 1

-----------------------------------------------------------------------------
(* The session, as the loop sees it.  It waits for room to announce a       *)
(* payload; what it tells of files and deletions is dropped when there is   *)
(* none.                                                                    *)

\* A payload is stored: a text, with or without words and files, or a press.
ItemStored(c, p) ==
    /\ Len(items) < MaxItems /\ Len(events) < EventQueue /\ c \in contacts
    /\ items' = Append(items, [chat |-> c, press |-> p.press, words |-> p.words,
                               files |-> p.files, whole |-> FALSE])
    /\ filesIn' = filesIn \union ({Len(items')} \X (1 .. p.files))
    /\ events' = Append(events, <<"payload", Len(items')>>)
    /\ UNCHANGED <<heldItems, sending, contacts, workers, workerVars, gone, botEvents>>

TryAnnounce(kind, m) ==
    IF Len(events) < EventQueue
    THEN events' = Append(events, <<kind, m>>) /\ UNCHANGED gone
    ELSE gone' = gone \union {m} /\ UNCHANGED events

\* A file is whole, or will not come.
ItemFileEnds(f, whole) ==
    /\ f \in filesIn /\ filesIn' = filesIn \ {f}
    /\ items' = [items EXCEPT ![f[1]].whole = @ \/ whole]
    /\ TryAnnounce("file", f[1])
    /\ UNCHANGED <<heldItems, sending, contacts, workers, workerVars, botEvents>>

\* The sender deletes a message: its files in parts go with the row.
ItemDeleted(m) ==
    /\ IsComing(m) /\ BotEvent
    /\ filesIn' = {f \in filesIn : f[1] # m}
    /\ TryAnnounce("deleted", m)
    /\ UNCHANGED <<items, heldItems, sending, contacts, workers, workerVars>>

ContactGoes(c) ==
    /\ c \in contacts /\ BotEvent /\ contacts' = contacts \ {c}
    /\ UNCHANGED <<items, filesIn, loopVars, workers, workerVars, gone>>

-----------------------------------------------------------------------------
(* The loop.                                                               *)

TakeEvent(kind) ==
    /\ sending = 0 /\ events # <<>> /\ Head(events)[1] = kind /\ events' = Tail(events)
    /\ UNCHANGED <<items, filesIn, contacts, workerVars, botEvents>>

\* To the worker of its chat, a new one where there is none or the last one
\* ended; nothing is handed over for a sender without a record, or without
\* words and files.
HandItem(m) ==
    IF ChatOf(m) \in contacts /\ (items[m].press # 0 \/ items[m].words \/ items[m].whole)
    THEN sending' = m /\ workers' = workers \union {ChatOf(m)} /\ UNCHANGED gone
    ELSE gone' = gone \union {m} /\ UNCHANGED <<sending, workers>>

\* IncomingPayload: held while its files are coming.
TakePayload ==
    /\ TakeEvent("payload")
    /\ LET m == Head(events)[2]
       IN  IF IsComing(m)
           THEN heldItems' = heldItems \union {m} /\ UNCHANGED <<sending, workers, gone>>
           ELSE HandItem(m) /\ UNCHANGED heldItems

\* FileReceived, FileFailed: with the last of its files, what was held for
\* them is handed over.
TakeFile ==
    /\ TakeEvent("file")
    /\ LET m == Head(events)[2]
       IN  IF IsComing(m) \/ m \notin heldItems
           THEN UNCHANGED <<heldItems, sending, workers, gone>>
           ELSE heldItems' = heldItems \ {m} /\ HandItem(m)

\* MessageDeleted: no longer held.
TakeDeleted ==
    /\ TakeEvent("deleted")
    /\ heldItems' = heldItems \ {Head(events)[2]} /\ gone' = gone \union {Head(events)[2]}
    /\ UNCHANGED <<sending, workers>>

\* The loop waits for room in the worker's queue; a worker that ended
\* meanwhile takes nothing.
SendItem ==
    /\ sending # 0 /\ sending' = 0
    /\ LET c == ChatOf(sending)
       IN  \/ /\ c \in workers /\ Len(chatQueue[c]) < ChatQueue
              /\ chatQueue' = [chatQueue EXCEPT ![c] = Append(@, sending)] /\ UNCHANGED gone
           \/ c \notin workers /\ gone' = gone \union {sending} /\ UNCHANGED chatQueue
    /\ UNCHANGED <<items, filesIn, contacts, events, heldItems, workers, working, seenPresses,
                   answered, deadLetters, purged, botEvents>>

-----------------------------------------------------------------------------
(* The worker of a chat: run_with_retry.                                   *)

\* A press that was seen is skipped; a new one is recorded before its handler
\* runs.
StartItem(c) ==
    /\ c \in workers /\ working[c] = NoItem /\ chatQueue[c] # <<>>
    /\ chatQueue' = [chatQueue EXCEPT ![c] = Tail(@)]
    /\ LET m == Head(chatQueue[c])
       IN  IF items[m].press # 0 /\ PressOf(m) \in seenPresses
           THEN gone' = gone \union {m} /\ UNCHANGED <<working, seenPresses>>
           ELSE /\ working' = [working EXCEPT ![c].id = m]
                /\ seenPresses' = IF items[m].press = 0 THEN seenPresses
                                  ELSE seenPresses \union {PressOf(m)}
                /\ UNCHANGED gone
    /\ UNCHANGED <<items, filesIn, contacts, loopVars, workers, answered, deadLetters, purged,
                   botEvents>>

\* run_once: the handler, or nothing where the bot has none.
HandlerReturns(c) ==
    /\ working[c] # NoItem
    /\ answered' = Append(answered, working[c].id) /\ working' = [working EXCEPT ![c] = NoItem]
    /\ UNCHANGED <<items, filesIn, contacts, loopVars, workers, chatQueue, seenPresses,
                   deadLetters, purged, gone, botEvents>>

SaveDeadLetter(m) == deadLetters' = deadLetters \union {m}

\* An error: again after the backoff, and a dead letter in the end.
HandlerFails(c) ==
    /\ working[c] # NoItem
    /\ IF working[c].attempt + 1 >= MaxAttempts
       THEN /\ SaveDeadLetter(working[c].id)
            /\ working' = [working EXCEPT ![c] = NoItem]
       ELSE working' = [working EXCEPT ![c].attempt = @ + 1] /\ UNCHANGED deadLetters
    /\ UNCHANGED <<items, filesIn, contacts, loopVars, workers, chatQueue, seenPresses, answered,
                   purged, gone, botEvents>>

\* A panic ends the worker, and its queue with it.
HandlerPanics(c) ==
    /\ working[c] # NoItem /\ BotEvent
    /\ workers' = workers \ {c} /\ gone' = gone \union {working[c].id} \union Range(chatQueue[c])
    /\ chatQueue' = [chatQueue EXCEPT ![c] = <<>>]
    /\ working' = [working EXCEPT ![c] = NoItem]
    /\ UNCHANGED <<items, filesIn, contacts, loopVars, seenPresses, answered, deadLetters, purged>>

\* The housekeeping task: what was recorded more than a day ago.
PurgeOld ==
    /\ seenPresses # {} \/ deadLetters # {}
    /\ BotEvent
    /\ seenPresses' = {} /\ deadLetters' = {}
    /\ purged' = purged \union seenPresses /\ gone' = gone \union deadLetters
    /\ UNCHANGED <<items, filesIn, contacts, loopVars, workers, chatQueue, working, answered>>

\* The process ends and is started again: the database is what is left.
BotRestarts ==
    /\ BotEvent
    /\ events' = <<>> /\ heldItems' = {} /\ sending' = 0 /\ workers' = {}
    /\ chatQueue' = [c \in BotChats |-> <<>>] /\ working' = [c \in BotChats |-> NoItem]
    /\ gone' = gone \union (ItemIds \ (Range(answered) \union deadLetters))
    /\ UNCHANGED <<items, filesIn, contacts, seenPresses, answered, deadLetters, purged>>

BotNext ==
    \/ \E c \in BotChats, p \in Payloads : ItemStored(c, p)
    \/ \E f \in filesIn, whole \in BOOLEAN : ItemFileEnds(f, whole)
    \/ \E m \in ItemIds : ItemDeleted(m)
    \/ TakePayload \/ TakeFile \/ TakeDeleted \/ SendItem
    \/ \E c \in BotChats :
          ContactGoes(c) \/ StartItem(c) \/ HandlerReturns(c) \/ HandlerFails(c) \/ HandlerPanics(c)
    \/ PurgeOld \/ BotRestarts

-----------------------------------------------------------------------------
\* No item is answered twice, and no press, however often it was delivered,
\* while its record is kept; the items of a chat that had no files to wait for
\* are answered in the order they came (the chat's one worker, callback_seen).
AnsweredOnce ==
    \A i, k \in 1 .. Len(answered) : i < k =>
        LET m == answered[i]
            n == answered[k]
        IN  /\ m # n
            /\ PressOf(m) = PressOf(n) /\ items[m].press # 0 => PressOf(m) \in purged
            /\ (ChatOf(m) = ChatOf(n) /\ items[m].files = 0 /\ items[n].files = 0) => m < n

\* Everything said to the bot is answered or kept as a dead letter, whatever
\* waits for files and however full a queue is, unless there was nothing to
\* answer or the bot, its worker or the announcement of its files was lost.
ItemSettled == []<>(ItemIds \subseteq Range(answered) \union deadLetters \union gone)
=============================================================================
