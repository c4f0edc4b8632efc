----------------------------- MODULE PeerRelays ------------------------------
(***************************************************************************)
(* How a letter finds the contact (libcore/src/session.rs and its twin     *)
(* core/src/core.rs): the pool of connections to the relays contacts       *)
(* collect from, the choice between that relay, waiting, and the network,  *)
(* and the two ways a contact's address is learnt, from their letters and  *)
(* from the network.                                                       *)
(*                                                                         *)
(* One contact, one letter to them.  What is done under the pool's lock is *)
(* one step; every await between is a place where the other tasks run.     *)
(***************************************************************************)
EXTENDS Naturals, FiniteSets

CONSTANTS Places,       \* relay addresses the contact may collect from
          Dialers,      \* tasks that dial a peer relay and then read from it
          Redials,      \* PEER_RELAY_REDIALS
          MaxPeerEvents     \* bound on what happens outside: moves, letters, outages

ASSUME PeerRelaysAssumption == {Redials, MaxPeerEvents} \subseteq Nat

VARIABLES pool,        \* peer_relays, by address
          dialer,      \* the tasks relay_for spawned
          redial,      \* tasks that will call relay_for: redials, warm_relay_of
          recorded,    \* the contact's relay_address in the database
          home,        \* where the contact collects
          answering,   \* the relays that answer
          late,        \* addresses named by letters of theirs under way
          lookup,      \* maybe_look_up_address: the address known when it asked
          letter,      \* "queued", "sent" (not acknowledged), "read"
          round,       \* flush_all_pending, at this contact
          inNetwork,   \* whether the relay network has peers
          events

peerVars == <<pool, dialer, redial, recorded, home, answering, late, lookup, letter,
              round, inNetwork, events>>

NoEntry == [s |-> "none"]
Failed(n, waiting) == [s |-> "failed", n |-> n, waiting |-> waiting]
IdleDialer == [pc |-> "idle"]
Event == events < MaxPeerEvents /\ events' = events + 1
NoRound == [pc |-> "idle"]

PeerRelaysTypeOK ==
    /\ \A a \in Places : pool[a].s \in {"none", "connecting", "ready", "failed"}
    /\ \A d \in Dialers : dialer[d].pc \in {"idle", "dialling", "open", "closed"}
    /\ recorded \in Places /\ home \in Places /\ answering \subseteq Places
    /\ letter \in {"queued", "sent", "read"}

PeerRelaysInit ==
    /\ pool = [a \in Places |-> NoEntry]
    /\ dialer = [d \in Dialers |-> IdleDialer]
    /\ redial = [a \in Places |-> FALSE]
    /\ recorded \in Places /\ home = recorded
    /\ answering = Places /\ late = {} /\ lookup = {}
    /\ letter = "queued" /\ round = NoRound
    /\ inNetwork \in BOOLEAN /\ events = 0

-----------------------------------------------------------------------------

\* The sender in the pool is not closed.
Usable(a) == pool[a].s = "ready" /\ dialer[pool[a].by].pc = "open"

\* relay_for dials unless an entry says that somebody already does, that a
\* connection is closing, or that the last failure was a moment ago.
Dials(a) == pool[a].s = "none" \/ (pool[a].s = "failed" /\ ~pool[a].waiting)

BackingOff(a) == pool[a].s = "failed" /\ pool[a].waiting

\* A task is spawned; which of the idle ones it is makes no difference.
StartDial(a) ==
    LET idle == {d \in Dialers : dialer[d] = IdleDialer}
        d == CHOOSE free \in idle : TRUE
    IN  /\ idle # {}
        /\ dialer' = [dialer EXCEPT ![d] = [pc |-> "dialling", a |-> a,
                                            n |-> IF pool[a].s = "failed" THEN pool[a].n ELSE 0]]
        /\ pool' = [pool EXCEPT ![a] = [s |-> "connecting"]]

\* relay_for, where no connection is at hand.
RelayFor(a) == IF Dials(a) THEN StartDial(a) ELSE UNCHANGED <<pool, dialer>>

\* connect_peer failed or PEER_RELAY_CONNECT_TIMEOUT passed.
DialFails(d) ==
    /\ dialer[d].pc = "dialling"
    /\ dialer[d].a \notin answering
    /\ LET a == dialer[d].a
           n == dialer[d].n
       IN  /\ pool' = [pool EXCEPT ![a] = Failed(IF n < Redials THEN n + 1 ELSE n, TRUE)]
           /\ redial' = IF n < Redials THEN [redial EXCEPT ![a] = TRUE] ELSE redial
    /\ dialer' = [dialer EXCEPT ![d] = IdleDialer]
    /\ UNCHANGED <<recorded, home, answering, late, lookup, letter, round, inNetwork, events>>

DialConnects(d) ==
    /\ dialer[d].pc = "dialling"
    /\ dialer[d].a \in answering
    /\ pool' = [pool EXCEPT ![dialer[d].a] = [s |-> "ready", by |-> d]]
    /\ dialer' = [dialer EXCEPT ![d] = [pc |-> "open", a |-> dialer[d].a]]
    /\ UNCHANGED <<redial, recorded, home, answering, late, lookup, letter, round, inNetwork, events>>

\* The connection is lost, and the reading task has yet to notice.
ConnectionLost(d) ==
    /\ dialer[d].pc = "open"
    /\ \/ dialer[d].a \notin answering /\ UNCHANGED events
       \/ Event
    /\ dialer' = [dialer EXCEPT ![d].pc = "closed"]
    /\ UNCHANGED <<pool, redial, recorded, home, answering, late, lookup, letter, round, inNetwork>>

\* The reading task leaves its entry behind.
ReaderEndsMutant(d) ==
    /\ dialer[d].pc = "closed"
    /\ dialer' = [dialer EXCEPT ![d] = IdleDialer]
    /\ UNCHANGED <<pool, redial, recorded, home, answering, late, lookup, letter, round, inNetwork, events>>

\* run_recv_loop has ended and the task takes its entry out of the pool.
ReaderEnds(d) ==
    /\ dialer[d].pc = "closed"
    /\ pool' = [pool EXCEPT ![dialer[d].a] = NoEntry]
    /\ dialer' = [dialer EXCEPT ![d] = IdleDialer]
    /\ UNCHANGED <<redial, recorded, home, answering, late, lookup, letter, round, inNetwork, events>>

\* peer_relay_backoff is over.
BackoffOver(a) ==
    /\ BackingOff(a)
    /\ pool' = [pool EXCEPT ![a].waiting = FALSE]
    /\ UNCHANGED <<dialer, redial, recorded, home, answering, late, lookup, letter, round, inNetwork, events>>

\* peer_relay_redial_after: the scheduled task reads the contact again and
\* dials where it collects now.
RedialDue(a) ==
    /\ redial[a]
    /\ redial' = [redial EXCEPT ![a] = FALSE]
    /\ RelayFor(recorded)
    /\ UNCHANGED <<recorded, home, answering, late, lookup, letter, round, inNetwork, events>>

-----------------------------------------------------------------------------

\* flush_all_pending reads the contact, and asks for its relay.
RoundBegins ==
    /\ round = NoRound /\ letter = "queued"
    /\ round' = [pc |-> "ask", a |-> recorded]
    /\ UNCHANGED <<pool, dialer, redial, recorded, home, answering, late, lookup, letter, inNetwork, events>>

RoundAsksRelay ==
    /\ round.pc = "ask"
    /\ IF Usable(round.a)
       THEN round' = [pc |-> "relay", a |-> round.a, by |-> pool[round.a].by]
            /\ UNCHANGED <<pool, dialer>>
       ELSE round' = [pc |-> "settling", a |-> round.a] /\ RelayFor(round.a)
    /\ UNCHANGED <<redial, recorded, home, answering, late, lookup, letter, inNetwork, events>>

\* peer_relay_settling: wait in the queue; else the network, if there is one,
\* with maybe_look_up_address in the background.
RoundSettles ==
    /\ round.pc = "settling"
    /\ IF pool[round.a].s \in {"connecting", "ready"} \/ ~inNetwork
       THEN round' = NoRound /\ UNCHANGED lookup
       ELSE round' = [pc |-> "network", a |-> round.a] /\ lookup' = lookup \union {round.a}
    /\ UNCHANGED <<pool, dialer, redial, recorded, home, answering, late, letter, inNetwork, events>>

\* deliver, over the connection: an error when it closed meanwhile, and no
\* answer when they collect elsewhere.
RoundDeposits ==
    /\ round.pc = "relay"
    /\ letter' = IF dialer[round.by].pc # "open" THEN letter
                 ELSE IF round.a = home THEN "read" ELSE "sent"
    /\ round' = NoRound
    /\ UNCHANGED <<pool, dialer, redial, recorded, home, answering, late, lookup, inNetwork, events>>

\* deliver, into the network, where they find it wherever they collect; no
\* node may take it.
RoundLeavesInNetwork ==
    /\ round.pc = "network"
    /\ \/ letter' = "read" /\ UNCHANGED events
       \/ UNCHANGED letter /\ Event
    /\ round' = NoRound
    /\ UNCHANGED <<pool, dialer, redial, recorded, home, answering, late, lookup, inNetwork>>

RoundStep == RoundBegins \/ RoundAsksRelay \/ RoundSettles \/ RoundDeposits \/ RoundLeavesInNetwork

\* list_unacked_outgoing: no acknowledgement came within the backoff.
RetryDue ==
    /\ letter = "sent" /\ round = NoRound
    /\ letter' = "queued"
    /\ UNCHANGED <<pool, dialer, redial, recorded, home, answering, late, lookup, round, inNetwork, events>>

-----------------------------------------------------------------------------

\* apply_contact_hints: any letter of theirs that names another relay.
HintArrives(a) ==
    /\ a \in late
    /\ late' = late \ {a}
    /\ recorded' = a
    /\ redial' = [redial EXCEPT ![a] = @ \/ (a # recorded)]
    /\ UNCHANGED <<pool, dialer, home, answering, lookup, letter, round, inNetwork, events>>

\* find_address has the newest address they published.  It is compared with
\* the one known when the lookup began.
LookupAnswers(known) ==
    /\ known \in lookup
    /\ lookup' = lookup \ {known}
    /\ IF home = known
       THEN UNCHANGED <<recorded, pool, redial>>
       ELSE /\ recorded' = home
            /\ pool' = [pool EXCEPT ![known] = NoEntry]
            /\ redial' = [redial EXCEPT ![home] = TRUE]
    /\ UNCHANGED <<dialer, home, answering, late, letter, round, inNetwork, events>>

\* The contact changes its relay, and names it in every letter it writes.
ContactMoves(a) ==
    /\ a # home /\ Event
    /\ home' = a
    /\ UNCHANGED <<pool, dialer, redial, recorded, answering, late, lookup, letter, round, inNetwork>>

ContactWrites ==
    /\ home \notin late /\ Event
    /\ late' = late \union {home}
    /\ UNCHANGED <<pool, dialer, redial, recorded, home, answering, lookup, letter, round, inNetwork>>

NewLetter ==
    /\ letter = "read" /\ Event
    /\ letter' = "queued"
    /\ UNCHANGED <<pool, dialer, redial, recorded, home, answering, late, lookup, round, inNetwork>>

RelayDown(a) ==
    /\ a \in answering /\ Event
    /\ answering' = answering \ {a}
    /\ UNCHANGED <<pool, dialer, redial, recorded, home, late, lookup, letter, round, inNetwork>>

RelayUp(a) ==
    /\ a \notin answering
    /\ answering' = answering \union {a}
    /\ UNCHANGED <<pool, dialer, redial, recorded, home, late, lookup, letter, round, inNetwork, events>>

-----------------------------------------------------------------------------

DialerStep(d) == DialFails(d) \/ DialConnects(d) \/ ReaderEnds(d)
PoolStep(a) == BackoffOver(a) \/ RedialDue(a) \/ HintArrives(a) \/ LookupAnswers(a)

Outside ==
    \/ \E a \in Places : ContactMoves(a) \/ RelayDown(a) \/ RelayUp(a)
    \/ ContactWrites \/ NewLetter

PeerRelaysNext ==
    \/ \E d \in Dialers : DialerStep(d) \/ ConnectionLost(d)
    \/ \E a \in Places : PoolStep(a)
    \/ RoundStep \/ RetryDue
    \/ Outside

\* Tasks run, timers fire, and a dead connection is noticed
\* (DEAD_THRESHOLD_SECS); the network answers lookups.  Rounds are 3 s apart
\* and the shortest backoff is 5 s, so a relay that keeps failing is not
\* being dialled in every round: that is the strong fairness.
PeerRelaysFairness ==
    /\ \A d \in Dialers : /\ WF_peerVars(DialerStep(d))
                          /\ WF_peerVars(dialer[d].pc = "open" /\ dialer[d].a \notin answering
                                         /\ ConnectionLost(d))
    /\ \A a \in Places : WF_peerVars(BackoffOver(a)) /\ WF_peerVars(RedialDue(a))
                        /\ WF_peerVars(HintArrives(a)) /\ WF_peerVars(LookupAnswers(a))
    /\ WF_peerVars(RoundStep) /\ WF_peerVars(RetryDue)
    /\ SF_peerVars(RoundBegins /\ BackingOff(recorded))
    /\ SF_peerVars(RoundAsksRelay /\ BackingOff(round.a))
    /\ SF_peerVars(RoundSettles /\ BackingOff(round.a))

PeerRelaysSpec == PeerRelaysInit /\ [][PeerRelaysNext]_peerVars /\ PeerRelaysFairness

-----------------------------------------------------------------------------

\* A letter is not held for ever by the pool of connections: whatever dials,
\* redials, closes and lookups overlap, if from some time on the network
\* takes letters and their old relay is silent, or the relay recorded is the
\* one they collect from and it answers, they get it.
LetterArrives ==
    <>[](\/ inNetwork /\ recorded \notin answering
         \/ recorded = home /\ home \in answering)
        => [](letter = "queued" => <>(letter = "read"))

-----------------------------------------------------------------------------
(***************************************************************************)
(* Where this client collects its mail (core/src/core.rs): the relay it    *)
(* hosts for itself in built-in mode, brought up and taken down by the     *)
(* mode switch, and the connection to it that the relay loop keeps.        *)
(*                                                                         *)
(* Every read or write of state that tasks share is a step.  Aborting a    *)
(* task stops it at an await that is not ready, not before.                *)
(***************************************************************************)

CONSTANTS Switches,     \* calls of set_relay_mode
          MaxStarts,    \* bound on the tasks that bring the relay up
          MaxBuilds,    \* bound on relays built and builds that fail
          MaxOutages    \* bound on relays becoming unreachable

ASSUME OwnRelayAssumption == {MaxStarts, MaxBuilds, MaxOutages} \subseteq Nat

External == 0              \* the relay named in Settings
Relays == 0 .. MaxBuilds   \* and those hosted, numbered as they are built
Nowhere == MaxBuilds + 1
Starts == 1 .. MaxStarts

VARIABLES mode,       \* SETTING_RELAY_MODE
          state,      \* hosted_state, with the address when ready
          held,       \* hosted_relay
          slot,       \* hosted_task: the task started last, 0 when taken
          bring,      \* run_hosted_relay, one per task
          switch,     \* the calls of set_relay_mode
          pending,    \* announce_pending, as whether contacts are to be told
          builds,
          conn,       \* the relay loop: where it is connected or dialling
          down, outages

relayVars == <<mode, state, held, slot, bring, switch, pending, builds, conn, down, outages>>

OffState == [s |-> "off", address |-> Nowhere]
At(s) == [s |-> s, address |-> Nowhere]

\* relay_onion
CollectsAt == IF mode = "external" THEN External ELSE state.address

Spawned(i) ==
    /\ bring' = [bring EXCEPT ![i].pc = "top"]
    /\ slot' = i

OwnRelayInit ==
    /\ mode \in {"builtin", "external"}
    /\ state = OffState /\ held = Nowhere /\ pending = FALSE /\ builds = 0
    /\ bring = [i \in Starts |-> [pc |-> IF i = 1 /\ mode = "builtin" THEN "top" ELSE "none",
                                  relay |-> Nowhere, aborted |-> FALSE]]
    /\ slot = IF mode = "builtin" THEN 1 ELSE 0
    /\ switch = [c \in Switches |-> "new"]
    /\ conn = [pc |-> "idle", to |-> Nowhere]
    /\ down = {} /\ outages = 0

-----------------------------------------------------------------------------

\* set_relay_mode
SetRelayMode(c, m) ==
    /\ switch[c] = "new"
    /\ mode' = m
    /\ switch' = [switch EXCEPT ![c] = IF m = "builtin" THEN "start" ELSE "abort"]
    /\ UNCHANGED <<state, held, slot, bring, pending, builds, conn, down, outages>>

\* start_hosted_relay, unless a task is busy with it or it is up.
StartHostedRelay(c) ==
    /\ switch[c] = "start"
    /\ switch' = [switch EXCEPT ![c] = "done"]
    /\ LET busy == slot # 0 /\ bring[slot].pc # "done"
       IN  IF busy \/ state.s = "ready"
           THEN UNCHANGED <<slot, bring>>
           ELSE \E i \in Starts : /\ bring[i].pc = "none"
                                  /\ \A j \in 1 .. i - 1 : bring[j].pc # "none"
                                  /\ Spawned(i)
    /\ UNCHANGED <<mode, state, held, pending, builds, conn, down, outages>>

\* External: abort the task, let the relay go, forget whom to tell, and only
\* then say that it is off.
AbortTask(c) ==
    /\ switch[c] = "abort"
    /\ bring' = IF slot = 0 THEN bring ELSE [bring EXCEPT ![slot].aborted = TRUE]
    /\ slot' = 0
    /\ switch' = [switch EXCEPT ![c] = "drop"]
    /\ UNCHANGED <<mode, state, held, pending, builds, conn, down, outages>>

LetRelayGo(c) ==
    /\ switch[c] = "drop"
    /\ held' = Nowhere
    /\ switch' = [switch EXCEPT ![c] = "clear"]
    /\ UNCHANGED <<mode, state, slot, bring, pending, builds, conn, down, outages>>

ClearAnnouncements(c) ==
    /\ switch[c] = "clear"
    /\ pending' = FALSE
    /\ switch' = [switch EXCEPT ![c] = "off"]
    /\ UNCHANGED <<mode, state, held, slot, bring, builds, conn, down, outages>>

SayOff(c) ==
    /\ switch[c] = "off"
    /\ state' = OffState
    /\ switch' = [switch EXCEPT ![c] = "done"]
    /\ UNCHANGED <<mode, held, slot, bring, pending, builds, conn, down, outages>>

SwitchStep(c) ==
    StartHostedRelay(c) \/ AbortTask(c) \/ LetRelayGo(c) \/ ClearAnnouncements(c) \/ SayOff(c)

-----------------------------------------------------------------------------

\* run_hosted_relay, from the top of its loop to the wait for tunnels.
BringUp(i) ==
    /\ bring[i].pc = "top"
    /\ IF mode = "builtin"
       THEN state' = At("starting") /\ bring' = [bring EXCEPT ![i].pc = "building"]
       ELSE state' = OffState /\ bring' = [bring EXCEPT ![i].pc = "done"]
    /\ UNCHANGED <<mode, held, slot, switch, pending, builds, conn, down, outages>>

\* bring_up_hosted_relay, and the second look at the mode.
Built(i) ==
    /\ bring[i].pc = "building" /\ ~bring[i].aborted /\ builds < MaxBuilds
    /\ builds' = builds + 1
    /\ IF mode = "builtin"
       THEN /\ bring' = [bring EXCEPT ![i].pc = "hold", ![i].relay = builds + 1]
            /\ UNCHANGED state
       ELSE /\ bring' = [bring EXCEPT ![i].pc = "done"]
            /\ state' = OffState
    /\ UNCHANGED <<mode, held, slot, switch, pending, conn, down, outages>>

BuildFails(i) ==
    /\ bring[i].pc = "building" /\ ~bring[i].aborted /\ builds < MaxBuilds
    /\ builds' = builds + 1
    /\ state' = At("failed")
    /\ bring' = [bring EXCEPT ![i].pc = "waiting"]
    /\ UNCHANGED <<mode, held, slot, switch, pending, conn, down, outages>>

WaitOver(i) ==
    /\ bring[i].pc = "waiting" /\ ~bring[i].aborted
    /\ bring' = [bring EXCEPT ![i].pc = "top"]
    /\ UNCHANGED <<mode, state, held, slot, switch, pending, builds, conn, down, outages>>

Hold(i) ==
    /\ bring[i].pc = "hold"
    /\ held' = bring[i].relay
    /\ bring' = [bring EXCEPT ![i].pc = "tell"]
    /\ UNCHANGED <<mode, state, slot, switch, pending, builds, conn, down, outages>>

TellContacts(i) ==
    /\ bring[i].pc = "tell"
    /\ pending' = TRUE
    /\ bring' = [bring EXCEPT ![i].pc = "ready"]
    /\ UNCHANGED <<mode, state, held, slot, switch, builds, conn, down, outages>>

SayReady(i) ==
    /\ bring[i].pc = "ready"
    /\ state' = [s |-> "ready", address |-> bring[i].relay]
    /\ bring' = [bring EXCEPT ![i].pc = "done"]
    /\ UNCHANGED <<mode, held, slot, switch, pending, builds, conn, down, outages>>

\* An aborted task ends where it waits: for tunnels, for its pause, for the
\* lock of announce_pending, or before its first poll.
Cancelled(i) ==
    /\ bring[i].aborted /\ bring[i].pc \in {"top", "building", "waiting", "tell"}
    /\ bring' = [bring EXCEPT ![i].pc = "done"]
    /\ UNCHANGED <<mode, state, held, slot, switch, pending, builds, conn, down, outages>>

BringStep(i) ==
    \/ BringUp(i) \/ Built(i) \/ BuildFails(i) \/ WaitOver(i)
    \/ Hold(i) \/ TellContacts(i) \/ SayReady(i) \/ Cancelled(i)

-----------------------------------------------------------------------------

\* Our own relay in this process, over a pipe, or a relay in the network.
Serves(a) == (a = External \/ held = a) /\ a \notin down

\* spawn_relay_loop: dial where we collect now, if anywhere...
DialOwn ==
    /\ conn.pc = "idle" /\ CollectsAt # Nowhere
    /\ conn' = [pc |-> "dialling", to |-> CollectsAt]
    /\ UNCHANGED <<mode, state, held, slot, bring, switch, pending, builds, down, outages>>

\* ...which connects, is refused or times out.
DialEnds ==
    /\ conn.pc = "dialling"
    /\ conn' = IF Serves(conn.to) THEN [conn EXCEPT !.pc = "open"] ELSE [conn EXCEPT !.pc = "idle"]
    /\ UNCHANGED <<mode, state, held, slot, bring, switch, pending, builds, down, outages>>

\* run_recv_loop, at a ping: another relay is ours now, or this one is silent.
PingTickMutant ==
    /\ conn.pc = "open" /\ ~Serves(conn.to)
    /\ conn' = [conn EXCEPT !.pc = "idle"]
    /\ UNCHANGED <<mode, state, held, slot, bring, switch, pending, builds, down, outages>>
PingTick ==
    /\ conn.pc = "open" /\ (conn.to # CollectsAt \/ ~Serves(conn.to))
    /\ conn' = [conn EXCEPT !.pc = "idle"]
    /\ UNCHANGED <<mode, state, held, slot, bring, switch, pending, builds, down, outages>>

\* The network between us and the relay in Settings.
Outage ==
    /\ outages < MaxOutages /\ down = {}
    /\ down' = {External} /\ outages' = outages + 1
    /\ UNCHANGED <<mode, state, held, slot, bring, switch, pending, builds, conn>>

BackUp ==
    /\ down # {} /\ down' = {}
    /\ UNCHANGED <<mode, state, held, slot, bring, switch, pending, builds, conn, outages>>

OwnRelayNext ==
    \/ \E c \in Switches : (\E m \in {"builtin", "external"} : SetRelayMode(c, m)) \/ SwitchStep(c)
    \/ \E i \in Starts : BringStep(i)
    \/ DialOwn \/ DialEnds \/ PingTick \/ Outage \/ BackUp

\* Tasks run, pings are timed, dials are bounded by a timeout, and the
\* network comes back.
OwnRelaySpec ==
    /\ OwnRelayInit /\ [][OwnRelayNext]_relayVars
    /\ \A c \in Switches : WF_relayVars(SwitchStep(c))
    /\ \A i \in Starts : WF_relayVars(BringStep(i))
    /\ WF_relayVars(DialOwn) /\ WF_relayVars(DialEnds) /\ WF_relayVars(PingTick)
    /\ WF_relayVars(BackUp)

-----------------------------------------------------------------------------

\* The connection follows the relay we collect from: once that stays the same
\* and can be reached, the loop ends up connected to it and stays.
ConnectionFollows ==
    \A a \in Relays : <>[](CollectsAt = a /\ Serves(a))
                         => <>[](conn = [pc |-> "open", to |-> a])

\* In built-in mode, with no switch under way, the relay is up or a task is
\* bringing it up.
BuiltinIsServed ==
    mode = "builtin" /\ (\A c \in Switches : switch[c] \in {"new", "done"})
        => \/ state.s = "ready" /\ held = state.address
           \/ \E i \in Starts : bring[i].pc \notin {"none", "done"} /\ ~bring[i].aborted

-----------------------------------------------------------------------------
(***************************************************************************)
(* The requests a relay sends to the other nodes of the network            *)
(* (core/relay/src/dht.rs): they share one outgoing destination, made when *)
(* it is missed and given up after failures in a row.  Several dials are   *)
(* under way at once; the counter is an atomic of its own and the          *)
(* destination is behind a lock.                                           *)
(***************************************************************************)

CONSTANTS Requesters,      \* tasks that call RelayTransport::open
          RebuildAfter,    \* REBUILD_AFTER_FAILURES
          MaxOutgoing      \* bound on the destinations made

ASSUME TransportAssumption == {RebuildAfter, MaxOutgoing} \subseteq Nat \ {0}

VARIABLES outgoing,    \* dest, by number; 0 when there is none
          made,
          dialFailures,
          request,     \* what each task is doing, and over which destination
          cutOff         \* destinations whose tunnels died

transportVars == <<outgoing, made, dialFailures, request, cutOff>>

NoRequest == [pc |-> "idle", via |-> 0]

TransportInit ==
    /\ outgoing = 0 /\ made = 0 /\ dialFailures = 0 /\ cutOff = {}
    /\ request = [t \in Requesters |-> NoRequest]

\* dial, under the lock: the destination at hand, or a new one.
TakeDestination(t) ==
    /\ request[t].pc = "idle"
    /\ \/ outgoing # 0 /\ UNCHANGED <<outgoing, made>>
       \/ outgoing = 0 /\ made < MaxOutgoing /\ made' = made + 1 /\ outgoing' = made'
    /\ request' = [request EXCEPT ![t] = [pc |-> "connect", via |-> outgoing']]
    /\ UNCHANGED <<dialFailures, cutOff>>

\* connect succeeds; whether the node then sends its challenge and answers
\* (open, call) does not count.
RequestConnects(t) ==
    /\ request[t].pc = "connect" /\ request[t].via \notin cutOff
    /\ dialFailures' = 0 /\ request' = [request EXCEPT ![t] = NoRequest]
    /\ UNCHANGED <<outgoing, made, cutOff>>

\* It fails, for the destination's sake or the other node's.
RequestFails(t) ==
    /\ request[t].pc = "connect"
    /\ dialFailures' = dialFailures + 1
    /\ request' = [request EXCEPT ![t] = IF dialFailures' >= RebuildAfter THEN [@ EXCEPT !.pc = "reset"] ELSE NoRequest]
    /\ UNCHANGED <<outgoing, made, cutOff>>

ResetFailures(t) ==
    /\ request[t].pc = "reset"
    /\ dialFailures' = 0 /\ request' = [request EXCEPT ![t].pc = "drop"]
    /\ UNCHANGED <<outgoing, made, cutOff>>

DropDestination(t) ==
    /\ request[t].pc = "drop"
    /\ outgoing' = 0 /\ request' = [request EXCEPT ![t] = NoRequest]
    /\ UNCHANGED <<made, dialFailures, cutOff>>

\* The network changes under the router.
TunnelsDie ==
    /\ outgoing \notin cutOff \union {0} /\ cutOff' = cutOff \union {outgoing}
    /\ UNCHANGED <<outgoing, made, dialFailures, request>>

TransportStep(t) ==
    \/ TakeDestination(t) \/ RequestConnects(t) \/ RequestFails(t)
    \/ ResetFailures(t) \/ DropDestination(t)

TransportNext == TunnelsDie \/ \E t \in Requesters : TransportStep(t)

\* An outgoing destination whose tunnels died is given up, whatever requests
\* over it and over older ones are still failing.
LostIsGivenUp == outgoing \in cutOff ~> outgoing \notin cutOff
=============================================================================
