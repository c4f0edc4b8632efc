----------------------------- MODULE RelayLogin ------------------------------
(***************************************************************************)
(* Logging in to relays (libcore/src/relay.rs) and the connections kept    *)
(* for it: the one that collects our mail, extra ones to our own relay     *)
(* while file parts come (spawn_collect_lanes of libcore/src/session.rs),  *)
(* and extra ones to a contact's relay that carry parts (file_lanes).      *)
(*                                                                         *)
(* A login tries AuthV2; a stream that breaks under it is taken for a      *)
(* relay from before AuthV2, and the next stream logs in with plain Auth,  *)
(* which a current relay lets deposit and nothing else.                    *)
(***************************************************************************)
EXTENDS Naturals, FiniteSets

CONSTANTS OldRelays, NewRelays, \* relays from before AuthV2, and since
          Extra,       \* connections besides the usual one (FILE_LANES - 1)
          LaneIds, PeerLanes, \* connections that can come to be
          MaxBreaks, MaxMoves, MaxMail \* bounds: streams broken, changes of relay, letters

ASSUME RelayLoginAssumption == {Extra, MaxBreaks, MaxMoves, MaxMail} \subseteq Nat /\ OldRelays \cap NewRelays = {}

VARIABLES ourRelay,    \* relay_onion()
          main,        \* the connection of spawn_relay_loop
          partsCome,   \* collect_lane_holds: a part came lately
          dialLane,    \* the dial of spawn_collect_lanes
          collect,     \* LaneIds -> connections it opened
          collectLanes, \* the counter of them
          mailAt, mailCount, \* relays that hold a letter for us; letters so far
          flusher,     \* file_lanes: idle, or between its two locks
          peerLanes,   \* file_lanes of the contact's relay
          peerDial,    \* its dial in the background
          dialling,    \* file_lanes_dialling
          breaks, moves

mainVars == <<main, mailAt, mailCount>>
collectVars == <<partsCome, dialLane, collect, collectLanes>>
peerVars == <<flusher, peerLanes, peerDial, dialling>>
loginVars == <<ourRelay, mainVars, collectVars, peerVars, breaks, moves>>

LoginRelays == OldRelays \cup NewRelays

\* No connection; a dial, by how it logs in; a connection.
NoConn == [pc |-> "idle", to |-> "none", plain |-> FALSE]
Dial(r) == [pc |-> "v2", to |-> r, plain |-> FALSE]
Up(c) == c.pc = "up"

\* What the relay hands mail to: an owner's login.
Collects(c) == Up(c) /\ (c.plain => c.to \in OldRelays)

LoginInit ==
  /\ ourRelay \in LoginRelays
  /\ main = NoConn /\ dialLane = NoConn
  /\ partsCome \in BOOLEAN
  /\ collect = [l \in LaneIds |-> NoConn] /\ collectLanes = 0
  /\ mailAt = {} /\ mailCount = 0
  /\ flusher = [pc |-> "idle", live |-> 0]
  /\ peerLanes = {} /\ peerDial = "none" /\ dialling = FALSE
  /\ breaks = 0 /\ moves = 0

\* The relay answers a login.  One from before AuthV2 hangs up on it, and the
\* next stream logs in plainly.
Answered(c) ==
  IF c.pc = "v2" /\ c.to \in OldRelays THEN [c EXCEPT !.pc = "v1"]
  ELSE [c EXCEPT !.pc = "up", !.plain = (c.pc = "v1")]

\* A stream breaks under a login: AuthV2 is tried no more, plain Auth fails.
Broken(c) == IF c.pc = "v2" THEN [c EXCEPT !.pc = "v1"] ELSE NoConn

Dials(c) == c.pc \in {"v2", "v1"}

Breaks == breaks < MaxBreaks /\ breaks' = breaks + 1

-----------------------------------------------------------------------------

\* spawn_relay_loop dials our relay, whichever it is now.
DialMain ==
  /\ main.pc = "idle"
  /\ main' = Dial(ourRelay)
  /\ UNCHANGED <<ourRelay, mailAt, mailCount, collectVars, peerVars, breaks, moves>>

\* Logged in: the bundle is published at once.
LoginMain ==
  /\ Dials(main)
  /\ main' = Answered(main)
  /\ UNCHANGED <<ourRelay, mailAt, mailCount, collectVars, peerVars, breaks, moves>>

\* The stream breaks, under the login or later, or goes silent past the
\* threshold; the loop dials again after its backoff.
BreakMain ==
  /\ main.pc # "idle" /\ Breaks
  /\ main' = IF Dials(main) THEN Broken(main) ELSE NoConn
  /\ UNCHANGED <<ourRelay, mailAt, mailCount, collectVars, peerVars, moves>>

\* A bug: the answer that AuthV2 is needed is not looked at.
PublishRefusedMutant ==
  /\ FALSE /\ UNCHANGED loginVars

\* The relay refuses to publish for a plain login: run_recv_loop reconnects.
PublishRefused ==
  /\ Up(main) /\ main.plain /\ main.to \in NewRelays
  /\ main' = NoConn
  /\ UNCHANGED <<ourRelay, mailAt, mailCount, collectVars, peerVars, breaks, moves>>

\* A tick of run_recv_loop finds that our relay is another one.
MainMoved ==
  /\ Up(main) /\ main.to # ourRelay
  /\ main' = NoConn
  /\ UNCHANGED <<ourRelay, mailAt, mailCount, collectVars, peerVars, breaks, moves>>

\* Someone deposits at our relay.
Deposit ==
  /\ ourRelay \notin mailAt /\ mailCount < MaxMail
  /\ mailAt' = mailAt \cup {ourRelay} /\ mailCount' = mailCount + 1
  /\ UNCHANGED <<ourRelay, main, collectVars, peerVars, breaks, moves>>

\* It is pushed to a connection that collects, and acknowledged.
PushMail ==
  /\ \E c \in {main} \cup {collect[l] : l \in LaneIds} :
       /\ Collects(c) /\ c.to \in mailAt
       /\ mailAt' = mailAt \ {c.to}
  /\ UNCHANGED <<ourRelay, main, mailCount, collectVars, peerVars, breaks, moves>>

\* set_relay_onion: letters go to the new one from now on.
MoveRelay(r) ==
  /\ r # ourRelay /\ moves < MaxMoves
  /\ moves' = moves + 1
  /\ ourRelay' = r
  /\ UNCHANGED <<mainVars, collectVars, peerVars, breaks>>

-----------------------------------------------------------------------------

\* A part comes, or none has come for COLLECT_LANE_IDLE_MS.
PartsChange ==
  /\ partsCome' = ~partsCome
  /\ UNCHANGED <<ourRelay, mainVars, dialLane, collect, collectLanes, peerVars, breaks, moves>>

\* collect_lane_wanted: one dial at a time, while the main connection is up.
CollectLaneWanted ==
  /\ dialLane.pc = "idle" /\ Up(main)
  /\ partsCome /\ collectLanes < Extra
  /\ dialLane' = Dial(ourRelay)
  /\ UNCHANGED <<ourRelay, mainVars, partsCome, collect, collectLanes, peerVars, breaks, moves>>

\* The dial goes on; once logged in, the connection gets a task of its own.
LoginLane ==
  /\ Dials(dialLane)
  /\ LET c == Answered(dialLane)
     IN  IF ~Up(c) THEN dialLane' = c /\ UNCHANGED <<collect, collectLanes>>
         ELSE \E l \in LaneIds :
                /\ ~Up(collect[l])
                /\ collect' = [collect EXCEPT ![l] = c]
                /\ collectLanes' = collectLanes + 1
                /\ dialLane' = NoConn
  /\ UNCHANGED <<ourRelay, mainVars, partsCome, peerVars, breaks, moves>>

BreakLaneDial ==
  /\ Dials(dialLane) /\ Breaks
  /\ dialLane' = Broken(dialLane)
  /\ UNCHANGED <<ourRelay, mainVars, partsCome, collect, collectLanes, peerVars, moves>>

LaneEnds(l) ==
  /\ Up(collect[l])
  /\ collect' = [collect EXCEPT ![l] = NoConn]
  /\ collectLanes' = collectLanes - 1
  /\ UNCHANGED <<ourRelay, mainVars, partsCome, dialLane, peerVars, moves>>

\* A tick finds the connection no longer wanted: no parts, or another relay.
LaneQuiet(l) ==
  /\ ~partsCome \/ collect[l].to # ourRelay
  /\ LaneEnds(l)
  /\ UNCHANGED breaks

LaneBreaks(l) == LaneEnds(l) /\ Breaks

-----------------------------------------------------------------------------

\* file_lanes counts the connections that are open, under the lock of the list.
CountLanes ==
  /\ flusher.pc = "idle"
  /\ flusher' = [pc |-> "counted", live |-> Cardinality(peerLanes)]
  /\ UNCHANGED <<ourRelay, mainVars, collectVars, peerLanes, peerDial, dialling, breaks, moves>>

\* Then it takes the flag of a dial under way, under that flag's lock, and
\* dials one more or gives the flag back.
WantMore ==
  /\ flusher.pc = "counted"
  /\ flusher' = [pc |-> "idle", live |-> 0]
  /\ IF flusher.live < Extra /\ ~dialling
     THEN dialling' = TRUE /\ peerDial' = "dialling"
     ELSE UNCHANGED <<dialling, peerDial>>
  /\ UNCHANGED <<ourRelay, mainVars, collectVars, peerLanes, breaks, moves>>

\* The dial succeeds: the list first, the flag after it.
PeerDialled ==
  /\ peerDial = "dialling"
  /\ \E p \in PeerLanes \ peerLanes : peerLanes' = peerLanes \cup {p}
  /\ peerDial' = "listed"
  /\ UNCHANGED <<ourRelay, mainVars, collectVars, flusher, dialling, breaks, moves>>

PeerListed ==
  /\ peerDial = "listed"
  /\ peerDial' = "none" /\ dialling' = FALSE
  /\ UNCHANGED <<ourRelay, mainVars, collectVars, flusher, peerLanes, breaks, moves>>

PeerDialFails ==
  /\ peerDial = "dialling"
  /\ peerDial' = "none" /\ dialling' = FALSE
  /\ UNCHANGED <<ourRelay, mainVars, collectVars, flusher, peerLanes, breaks, moves>>

\* A write fails and the sender of the connection closes.
PeerLaneCloses(p) ==
  /\ p \in peerLanes
  /\ peerLanes' = peerLanes \ {p}
  /\ UNCHANGED <<ourRelay, mainVars, collectVars, flusher, peerDial, dialling, breaks, moves>>

-----------------------------------------------------------------------------

OwnLoginNext ==
  \/ DialMain \/ LoginMain \/ BreakMain \/ PublishRefused \/ MainMoved
  \/ Deposit \/ PushMail \/ \E r \in LoginRelays : MoveRelay(r)
  \/ PartsChange \/ CollectLaneWanted \/ LoginLane \/ BreakLaneDial
  \/ \E l \in LaneIds : LaneQuiet(l) \/ LaneBreaks(l)

PeerLanesNext ==
  \/ CountLanes \/ WantMore \/ PeerDialled \/ PeerListed \/ PeerDialFails
  \/ \E p \in PeerLanes : PeerLaneCloses(p)

LoginNext == OwnLoginNext \/ PeerLanesNext

\* The tasks run, a relay that is dialled answers, and one that holds mail
\* pushes it to a connection that collects.
OwnLoginFairness ==
  /\ WF_loginVars(DialMain) /\ WF_loginVars(LoginMain) /\ WF_loginVars(PublishRefused)
  /\ WF_loginVars(MainMoved) /\ WF_loginVars(PushMail)
  /\ WF_loginVars(CollectLaneWanted) /\ WF_loginVars(LoginLane)
  /\ \A l \in LaneIds : WF_loginVars(LaneQuiet(l))

LoginSpec == LoginInit /\ [][LoginNext]_loginVars /\ OwnLoginFairness

\* A letter at our relay reaches us unless we move, though streams break under logins and one
\* of them is then plain: the refused publish tells, and AuthV2 is tried again.
MailCollected == \A r \in LoginRelays : (r = ourRelay /\ r \in mailAt) ~> (r # ourRelay \/ r \notin mailAt)

\* run_recv_loop reconnects when "this relay would take our deposits and never
\* hand us our mail": a connection for parts does not stay one that is handed
\* nothing while parts come.
LanesCollect == \A l \in LaneIds : (Up(collect[l]) /\ ~Collects(collect[l])) ~> ~(Up(collect[l]) /\ ~Collects(collect[l]))

\* file_lanes keeps "the usual one and up to FILE_LANES - 1 more".
PeerLanesBounded == Cardinality(peerLanes) <= Extra

-----------------------------------------------------------------------------
(***************************************************************************)
(* The tunnels of the app's own destination (I2pNode in                    *)
(* libcore/src/net.rs) and of the relay it hosts (EphemeralRelay in        *)
(* libcore/src/relay_server.rs), rebuilt when the lane changes             *)
(* (Core::set_lane) or when our relay keeps not answering                  *)
(* (I2pNode::maybe_recreate).  A rebuild takes tens of seconds, and        *)
(* nothing keeps a second one from starting meanwhile.                     *)
(***************************************************************************)

CONSTANTS Presses,               \* calls of set_lane
          RecreateAfterFailures,
          MaxDials               \* bound on dials of our relay

ASSUME TunnelsAssumption == RecreateAfterFailures \in Nat \ {0} /\ MaxDials \in Nat

VARIABLES lane,      \* Core::lane
          hops,      \* I2pNode::hops
          built,     \* length of the tunnels of the destination in use
          press,     \* the calls of set_lane
          watch,     \* the relay loop's side: failures counted, its rebuild
          hosted     \* EphemeralRelay: hops, tunnels, the rebuild asked for

tunnelVars == <<lane, hops, built, press, watch, hosted>>

LaneHops(l) == IF l = "normal" THEN 3 ELSE 2
Gone == 0                            \* the relay's accept loop ended

TunnelsInit ==
    /\ lane = "normal" /\ hops = 3 /\ built = 3
    /\ press = [p \in Presses |-> [pc |-> "new", asked |-> 0, previous |-> 0, length |-> 0]]
    /\ watch = [fails |-> 0, dials |-> 0, cooling |-> FALSE, length |-> 0]
    /\ hosted = [hops |-> 3, built |-> 3, notified |-> FALSE, rebuilding |-> FALSE]

\* Core::set_lane keeps the lane before anything is rebuilt.
SetLane(p, l) ==
    /\ press[p].pc = "new"
    /\ press' = [press EXCEPT ![p].pc = IF l = lane THEN "done" ELSE "swap",
                              ![p].asked = LaneHops(l)]
    /\ lane' = l
    /\ UNCHANGED <<hops, built, watch, hosted>>

\* I2pNode::set_hops: the same length needs no rebuild.
SwapHops(p) ==
    /\ press[p].pc = "swap"
    /\ hops' = press[p].asked
    /\ press' = [press EXCEPT ![p].previous = hops,
                              ![p].pc = IF hops = press[p].asked THEN "relay" ELSE "open"]
    /\ UNCHANGED <<lane, built, watch, hosted>>

\* I2pNode::recreate reads the length when it makes the destination...
OpenAt(p) ==
    /\ press[p].pc = "open"
    /\ press' = [press EXCEPT ![p].pc = "building", ![p].length = hops]
    /\ UNCHANGED <<lane, hops, built, watch, hosted>>

\* ...and puts it in use when its tunnels are up.
Rebuilt(p) ==
    /\ press[p].pc = "building"
    /\ built' = press[p].length
    /\ press' = [press EXCEPT ![p].pc = "relay"]
    /\ UNCHANGED <<lane, hops, watch, hosted>>

RebuildFails(p) ==
    /\ press[p].pc \in {"open", "building"}
    /\ hops' = press[p].previous
    /\ press' = [press EXCEPT ![p].pc = "relay"]
    /\ UNCHANGED <<lane, built, watch, hosted>>

\* EphemeralRelay::set_hops, whatever became of the app's own tunnels.
AskHostedMutant(p) ==
    /\ press[p].pc = "relay"
    /\ press' = [press EXCEPT ![p].pc = "done"]
    /\ hosted' = [hosted EXCEPT !.hops = press[p].asked,
                     !.notified = @ \/ (hosted.hops # press[p].asked /\ ~hosted.rebuilding)]
    /\ UNCHANGED <<lane, hops, built, watch>>
AskHosted(p) ==
    /\ press[p].pc = "relay"
    /\ press' = [press EXCEPT ![p].pc = "done"]
    /\ hosted' = [hosted EXCEPT !.hops = press[p].asked,
                                !.notified = @ \/ hosted.hops # press[p].asked]
    /\ UNCHANGED <<lane, hops, built, watch>>

-----------------------------------------------------------------------------

\* The relay's accept loop lets the old destination go, then makes one at the
\* length asked for by then.
StartHostedRebuild ==
    /\ hosted.notified /\ ~hosted.rebuilding /\ hosted.built # Gone
    /\ hosted' = [hosted EXCEPT !.notified = FALSE, !.rebuilding = TRUE, !.built = hosted.hops]
    /\ UNCHANGED <<lane, hops, built, press, watch>>

\* It serves the new destination even if its tunnels were not up in time.
EndHostedRebuild ==
    /\ hosted.rebuilding
    /\ hosted' = [hosted EXCEPT !.rebuilding = FALSE]
    /\ UNCHANGED <<lane, hops, built, press, watch>>

\* No destination: the accept loop ends.
HostedRebuildFails ==
    /\ hosted.rebuilding
    /\ hosted' = [hosted EXCEPT !.rebuilding = FALSE, !.built = Gone]
    /\ UNCHANGED <<lane, hops, built, press, watch>>

-----------------------------------------------------------------------------

\* connect_relay: a dial of our relay that worked forgets the failures.
DialOk ==
    /\ watch.length = 0 /\ watch.dials < MaxDials
    /\ watch' = [watch EXCEPT !.fails = 0, !.dials = @ + 1]
    /\ UNCHANGED <<lane, hops, built, press, hosted>>

\* connect_relay, maybe_recreate: enough failures in a row start a rebuild,
\* unless one was started within RECREATE_COOLDOWN.
TestDialFails ==
    /\ watch.length = 0 /\ watch.dials < MaxDials
    /\ LET n == watch.fails + 1
           due == n >= RecreateAfterFailures /\ ~watch.cooling
       IN  watch' = [fails |-> n, dials |-> watch.dials + 1, cooling |-> watch.cooling \/ due,
                     length |-> IF due THEN hops ELSE 0]
    /\ UNCHANGED <<lane, hops, built, press, hosted>>

WatchRebuilt ==
    /\ watch.length # 0
    /\ built' = watch.length
    /\ watch' = [watch EXCEPT !.fails = 0, !.length = 0]
    /\ UNCHANGED <<lane, hops, press, hosted>>

\* The rebuild failed, or the relay loop's own timeout dropped it.
WatchGivesUp ==
    /\ watch.length # 0
    /\ watch' = [watch EXCEPT !.length = 0]
    /\ UNCHANGED <<lane, hops, built, press, hosted>>

CooldownPasses ==
    /\ watch.cooling /\ watch.length = 0
    /\ watch' = [watch EXCEPT !.cooling = FALSE]
    /\ UNCHANGED <<lane, hops, built, press, hosted>>

-----------------------------------------------------------------------------

PressStep(p) ==
    SwapHops(p) \/ OpenAt(p) \/ Rebuilt(p) \/ RebuildFails(p) \/ AskHosted(p)

HostedStep == StartHostedRebuild \/ EndHostedRebuild \/ HostedRebuildFails

WatchStep == DialOk \/ TestDialFails \/ WatchRebuilt \/ WatchGivesUp \/ CooldownPasses

TunnelsNext ==
    \/ \E p \in Presses : (\E l \in {"normal", "fast"} : SetLane(p, l)) \/ PressStep(p)
    \/ HostedStep
    \/ WatchStep

\* Rebuilds end (readiness is waited for at most ten minutes) and the accept
\* loop takes the notification it finds.
TunnelsSpec ==
    /\ TunnelsInit /\ [][TunnelsNext]_tunnelVars
    /\ \A p \in Presses : WF_tunnelVars(PressStep(p))
    /\ WF_tunnelVars(StartHostedRebuild)
    /\ WF_tunnelVars(EndHostedRebuild \/ HostedRebuildFails)

-----------------------------------------------------------------------------

\* The relay's tunnels come to the length last asked for, however the presses
\* fall within its rebuilds; unless the relay is gone.
HostedSettles == []<>(hosted.built \in {hosted.hops, Gone})

\* When nothing is being rebuilt, the tunnels in use have the length that
\* hops() reports.
HopsAreBuilt ==
    (\A p \in Presses : press[p].pc \in {"new", "relay", "done"}) /\ watch.length = 0
        => built = hops
=============================================================================
