-------------------------------- MODULE Upnp --------------------------------
(***************************************************************************)
(* Port mappings on the home gateway (i2p-embed/src/upnp.rs).  A worker    *)
(* keeps the router's ports mapped, journals a rule before it asks a       *)
(* gateway for it, and cleans up by that journal.  Every exchange with the *)
(* gateway is a step and may fail; the process may be killed at any of     *)
(* them; the exit asks the worker to stop at any of them.  Gateways answer *)
(* at the same LAN address, so after a move the control URL of one reaches *)
(* another.                                                                *)
(***************************************************************************)
EXTENDS Naturals, FiniteSets

CONSTANTS Gateways,     \* gateways of the networks this machine visits
          PermanentOnly,\* those that refuse finite leases (error 725)
          Slots,        \* protocol and port pairs
          MaxUpnpEvents \* bound on kills, restarts, moves, port changes and write failures

ASSUME UpnpAssumption == PermanentOnly \subseteq Gateways /\ MaxUpnpEvents \in Nat

CONSTANT NoGateway
ASSUME NoGatewayAssumption == NoGateway \notin Gateways

VARIABLES table,        \* the mappings each gateway holds
          near,         \* the gateway of the network this machine is on
          wanted,       \* slots the i2p router listens on; {} if disabled
          journal,      \* Registry::entries: <<slot, gateway>>
          disk,         \* the journal file
          gateway,      \* Session::gateway
          outcomes,     \* Session::states
          failures,     \* Session::failures
          offline,      \* Session::offline
          hostOffline,  \* Flags::offline
          revision, seenRevision,   \* Flags::revision is ahead of what the worker saw
          stopping,     \* Flags::stop
          worker,       \* where the worker stands
          slotsLeft,         \* slots of the loop it is in
          rule,         \* the slot maintain is at, AnySlot outside it
          upnpEvents

journalVars == <<journal, disk>>
sessionVars == <<gateway, outcomes, failures>>
hostVars == <<hostOffline, revision, seenRevision, offline>>
upnpVars == <<table, near, wanted, journalVars, sessionVars, hostVars, stopping, worker, slotsLeft,
              rule, upnpEvents>>

Empty == [holder |-> "nobody"]
Ours(g, lease) == [holder |-> "us", label |-> g, lease |-> lease]
Foreign == [holder |-> "other"]
Outcomes == {"none", "finite", "permanent", "foreign", "failed"}

UpnpTypeOK ==
    /\ table \in [Gateways -> [Slots -> {Empty, Foreign} \union
                     {Ours(g, l) : g \in Gateways, l \in {"finite", "permanent"}}]]
    /\ near \in Gateways /\ wanted \subseteq Slots
    /\ journal \subseteq Slots \X Gateways /\ disk \subseteq Slots \X Gateways
    /\ gateway \in Gateways \union {NoGateway} /\ outcomes \in [Slots -> Outcomes]
    /\ failures \in 0 .. 1 /\ slotsLeft \subseteq Slots /\ rule \in Slots
    /\ worker \in {"down", "wait", "release", "query", "add", "confirm", "settle", "exit"}

\* A value for `rule' while it has none.
AnySlot == CHOOSE s \in Slots : TRUE

UpnpInit ==
    /\ near \in Gateways
    /\ \E here \in [Slots -> {Empty, Foreign}] :
          table = [g \in Gateways |-> IF g = near THEN here ELSE [s \in Slots |-> Empty]]
    /\ wanted \in (SUBSET Slots) \ {{}}
    /\ journal = {} /\ disk = {}
    /\ gateway = NoGateway /\ outcomes = [s \in Slots |-> "none"] /\ failures = 0
    /\ hostOffline = FALSE /\ offline = FALSE /\ revision = 0 /\ seenRevision = 0
    /\ stopping = FALSE /\ worker = "wait" /\ slotsLeft = {} /\ rule = AnySlot /\ upnpEvents = 0

UpnpEvent == upnpEvents < MaxUpnpEvents /\ upnpEvents' = upnpEvents + 1

\* What the handle's control URL answers for a slot: decision().  The label
\* is derived from the gateway's identity, so a rule is ours only on the
\* gateway the handle was opened for.
Found(s) == table[near][s]
IsOurs(s) == Found(s).holder = "us" /\ Found(s).label = gateway
IsForeign(s) == Found(s).holder # "nobody" /\ ~IsOurs(s)

Forgotten ==
    /\ gateway' = NoGateway /\ outcomes' = [s \in Slots |-> "none"] /\ failures' = 0

\* write_record: the whole file or, failing, the old one.
Flushes(entries) ==
    IF entries = disk THEN UNCHANGED <<disk, upnpEvents>>
    ELSE \/ disk' = entries /\ UNCHANGED upnpEvents
         \/ UpnpEvent /\ UNCHANGED disk

RulesOn(g) == {s \in Slots : <<s, g>> \in journal}

\* Registry::reserve and retire, before the file is written.  The journal's
\* limit of entries is not reached by two slots.
Reserved(s) == journal \union {<<s, gateway>>}
Retired(s) == journal \ {<<s, gateway>>}

-----------------------------------------------------------------------------
(* The worker: run, Session::cycle, maintain_all, maintain, release.       *)

\* cycle with nothing to map: everything journalled on this gateway goes.
CycleDisabled ==
    /\ worker = "wait" /\ ~stopping /\ seenRevision = revision /\ ~offline
    /\ wanted = {} /\ gateway # NoGateway
    /\ worker' = "release" /\ slotsLeft' = RulesOn(gateway)
    /\ UNCHANGED <<rule, table, near, wanted, journalVars, sessionVars, hostVars, stopping, upnpEvents>>

\* cycle with a gateway: same_device, then maintain_all, which first releases
\* what is not wanted; or the gateway is another one and is forgotten.
CycleMaintain ==
    /\ worker = "wait" /\ ~stopping /\ seenRevision = revision /\ ~offline
    /\ wanted # {} /\ gateway # NoGateway
    /\ IF near = gateway
       THEN worker' = "release" /\ slotsLeft' = RulesOn(gateway) \ wanted /\ UNCHANGED sessionVars
       ELSE Forgotten /\ UNCHANGED <<worker, slotsLeft>>
    /\ UNCHANGED <<rule, table, near, wanted, journalVars, hostVars, stopping, upnpEvents>>

\* cycle without one: discovery finds the gateway of this network, or none.
CycleDiscover ==
    /\ worker = "wait" /\ ~stopping /\ seenRevision = revision /\ ~offline
    /\ wanted # {} /\ gateway = NoGateway
    /\ gateway' = near /\ outcomes' = [s \in Slots |-> "none"] /\ failures' = 0
    /\ worker' = "release"
    /\ slotsLeft' = {s \in Slots : <<s, near>> \in journal} \ wanted
    /\ UNCHANGED <<rule, table, near, wanted, journalVars, hostVars, stopping, upnpEvents>>

\* A rule without a lease is never released.
ReleaseOneMutant(s) ==
    /\ worker \in {"release", "exit"} /\ s \in slotsLeft /\ (stopping => worker = "exit")
    /\ slotsLeft' = slotsLeft \ {s}
    /\ \/ /\ Found(s) # Ours(gateway, "permanent")
          /\ table' = IF IsOurs(s) THEN [table EXCEPT ![near][s] = Empty] ELSE table
          /\ journal' = Retired(s)
          /\ UNCHANGED upnpEvents
       \/ /\ Found(s) = Ours(gateway, "permanent")
          /\ UNCHANGED <<table, journal, upnpEvents>>
    /\ UNCHANGED <<rule, near, wanted, disk, sessionVars, hostVars, stopping, worker>>

\* release, one rule: deleted where it is provably ours, retired when nothing
\* of ours is left; the query or the deletion may fail.  During a cycle a
\* stop request breaks the loop.
ReleaseOne(s) ==
    /\ worker \in {"release", "exit"} /\ s \in slotsLeft /\ (stopping => worker = "exit")
    /\ slotsLeft' = slotsLeft \ {s}
    /\ \/ /\ table' = IF IsOurs(s) THEN [table EXCEPT ![near][s] = Empty] ELSE table
          /\ journal' = Retired(s)
          /\ UNCHANGED upnpEvents
       \/ UpnpEvent /\ UNCHANGED <<table, journal>>
    /\ UNCHANGED <<rule, near, wanted, disk, sessionVars, hostVars, stopping, worker>>

\* The end of the loop: registry.flush, and on to what the cycle is for.
ReleaseDone ==
    /\ worker = "release" /\ (slotsLeft = {} \/ stopping)
    /\ Flushes(journal)
    /\ IF wanted = {}
       THEN Forgotten /\ worker' = "wait" /\ slotsLeft' = {}
       ELSE /\ worker' = "query" /\ slotsLeft' = wanted
            /\ outcomes' = [s \in Slots |-> IF s \in wanted THEN outcomes[s] ELSE "none"]
            /\ UNCHANGED <<gateway, failures>>
    /\ UNCHANGED <<rule, table, near, wanted, journal, hostVars, stopping>>

\* maintain, up to AddPortMapping: look first, then the intent is durable.
Query(s) ==
    /\ worker = "query" /\ s \in slotsLeft /\ ~stopping
    /\ slotsLeft' = slotsLeft \ {s}
    /\ \/ /\ IsForeign(s)
          /\ outcomes' = [outcomes EXCEPT ![s] = "foreign"]
          /\ UNCHANGED <<journal, disk, worker, upnpEvents>>
       \/ /\ ~IsForeign(s)
          /\ journal' = Reserved(s)
          /\ \/ disk' = journal' /\ worker' = "add" /\ UNCHANGED <<outcomes, upnpEvents>>
             \/ /\ disk # journal' /\ UpnpEvent /\ UNCHANGED <<disk, worker>>
                /\ outcomes' = [outcomes EXCEPT ![s] = "failed"]
       \/ /\ UpnpEvent
          /\ outcomes' = [outcomes EXCEPT ![s] = "failed"]
          /\ UNCHANGED <<journal, disk, worker>>
    /\ rule' = IF worker' = "add" THEN s ELSE AnySlot
    /\ UNCHANGED <<table, near, wanted, gateway, failures, hostVars,
                   stopping>>

LeaseAt(g) == IF g \in PermanentOnly THEN "permanent" ELSE "finite"

\* AddPortMapping: LEASE, and PERMANENT where finite leases are refused, unless
\* a stop was requested in between.  The gateway may set the rule and its
\* answer be lost.
Add ==
    /\ worker = "add"
    /\ \/ /\ ~IsForeign(rule) /\ (stopping => near \notin PermanentOnly)
          /\ table' = [table EXCEPT ![near][rule] = Ours(gateway, LeaseAt(near))]
       \/ UNCHANGED table
    /\ \/ ~stopping /\ worker' = "confirm" /\ UNCHANGED <<outcomes, rule, upnpEvents>>
       \/ /\ outcomes' = [outcomes EXCEPT ![rule] = "failed"] /\ worker' = "query" /\ rule' = AnySlot
          /\ IF stopping THEN UNCHANGED upnpEvents ELSE UpnpEvent
    /\ UNCHANGED <<near, wanted, journalVars, gateway, failures, hostVars, stopping,
                   slotsLeft>>

\* The second look, unless a stop was requested: confirmed only as ours and
\* enabled.
Confirm ==
    /\ worker = "confirm"
    /\ \/ /\ outcomes' = [outcomes EXCEPT ![rule] =
                IF IsOurs(rule) THEN Found(rule).lease
                ELSE IF IsForeign(rule) THEN "foreign" ELSE "failed"]
          /\ UNCHANGED upnpEvents
       \/ /\ outcomes' = [outcomes EXCEPT ![rule] = "failed"]
          /\ IF stopping THEN UNCHANGED upnpEvents ELSE UpnpEvent
    /\ worker' = "query" /\ rule' = AnySlot
    /\ UNCHANGED <<table, near, wanted, journalVars, gateway, failures, hostVars,
                   stopping, slotsLeft>>

\* The end of maintain_all (the external address it hands to the router is not
\* modelled): two passes with nothing but failures forget the gateway.
MaintainDone ==
    LET confirmed == \E s \in wanted : outcomes[s] \in {"finite", "permanent"}
        failed == \E s \in wanted : outcomes[s] = "failed"
    IN  /\ worker = "query" /\ (slotsLeft = {} \/ stopping)
        /\ worker' = "wait" /\ slotsLeft' = {}
        /\ IF ~stopping /\ ~confirmed /\ failed /\ failures = 1
           THEN Forgotten
           ELSE /\ failures' = IF stopping THEN failures
                               ELSE IF ~confirmed /\ failed THEN 1 ELSE 0
                /\ UNCHANGED <<gateway, outcomes>>
        /\ UNCHANGED <<rule, table, near, wanted, journalVars, hostVars, stopping, upnpEvents>>

\* A network notification reached the worker (Control::settle, then
\* Session::network).
SettleJournal ==
    /\ worker = "wait" /\ ~stopping /\ seenRevision # revision
    /\ seenRevision' = revision /\ offline' = hostOffline
    /\ UNCHANGED <<rule, table, near, wanted, journalVars, sessionVars, hostOffline, revision, stopping,
                   worker, slotsLeft, upnpEvents>>

\* Session::shutdown: only permanent leases that were confirmed.
Shutdown ==
    /\ worker = "wait" /\ stopping
    /\ worker' = "exit"
    /\ slotsLeft' = IF gateway = NoGateway \/ offline THEN {}
               ELSE {s \in Slots : outcomes[s] = "permanent"}
    /\ UNCHANGED <<rule, table, near, wanted, journalVars, sessionVars, hostVars, stopping, upnpEvents>>

\* The last flush; the exit budget may end the loop before.
ShutdownDone ==
    /\ worker = "exit"
    /\ \/ disk' = journal \/ UNCHANGED disk
    /\ worker' = "down" /\ slotsLeft' = {}
    /\ Forgotten
    /\ UNCHANGED <<rule, table, near, wanted, journal, hostVars, stopping, upnpEvents>>

\* start: Registry::open.
StartWorker ==
    /\ worker = "down" /\ UpnpEvent
    /\ journal' = disk /\ stopping' = FALSE /\ worker' = "wait"
    /\ seenRevision' = revision /\ offline' = hostOffline
    /\ UNCHANGED <<rule, table, near, wanted, disk, sessionVars, hostOffline, revision, slotsLeft>>

-----------------------------------------------------------------------------
(* The host, the network and the gateways.                                 *)

\* stop_hook.
RequestStop ==
    /\ ~stopping /\ worker # "down" /\ stopping' = TRUE
    /\ UNCHANGED <<rule, table, near, wanted, journalVars, sessionVars, hostVars, worker, slotsLeft,
                   upnpEvents>>

KillProcess ==
    /\ worker # "down" /\ UpnpEvent
    /\ worker' = "down" /\ slotsLeft' = {} /\ rule' = AnySlot
    /\ Forgotten
    /\ UNCHANGED <<table, near, wanted, journalVars, hostVars, stopping>>

\* Control::report: online while online is no news.
Report ==
    /\ UpnpEvent
    /\ hostOffline' = ~hostOffline /\ revision' = revision + 1
    /\ UNCHANGED <<rule, table, near, wanted, journalVars, sessionVars, seenRevision, offline, stopping, worker,
                   slotsLeft>>

Move ==
    /\ UpnpEvent /\ \E g \in Gateways \ {near} : near' = g
    /\ UNCHANGED <<rule, table, wanted, journalVars, sessionVars, hostVars, stopping, worker, slotsLeft>>

\* The router listens elsewhere, or mapping is turned off.
PortsChange ==
    /\ UpnpEvent /\ worker \in {"wait", "down"}
    /\ \E w \in (SUBSET Slots) \ {wanted} : wanted' = w
    /\ UNCHANGED <<rule, table, near, journalVars, sessionVars, hostVars, stopping, worker, slotsLeft>>

Lapse(g, s) ==
    /\ table[g][s].holder = "us" /\ table[g][s].lease = "finite"
    /\ table' = [table EXCEPT ![g][s] = Empty]
    /\ UNCHANGED <<rule, near, wanted, journalVars, sessionVars, hostVars, stopping, worker, slotsLeft,
                   upnpEvents>>

UpnpNext ==
    \/ CycleDisabled \/ CycleMaintain \/ CycleDiscover \/ ReleaseDone \/ MaintainDone \/ SettleJournal
    \/ Shutdown \/ ShutdownDone \/ StartWorker \/ RequestStop \/ KillProcess \/ Report \/ PortsChange
    \/ Add \/ Confirm
    \/ \E s \in Slots : ReleaseOne(s) \/ Query(s)
    \/ \E g \in Gateways, s \in Slots : Lapse(g, s)

UpnpMovingNext == UpnpNext \/ Move

\* While the machine stays on one network.
UpnpSpec == UpnpInit /\ [][UpnpNext]_upnpVars

-----------------------------------------------------------------------------
(* Fairness: the worker's thread runs.  Its waits are bounded by RETRY,    *)
(* RENEW and BACKOFF_CAP, and every exchange by the client's timeouts.     *)
UpnpFairness ==
    /\ WF_upnpVars(CycleDisabled) /\ WF_upnpVars(CycleMaintain) /\ WF_upnpVars(CycleDiscover)
    /\ WF_upnpVars(ReleaseDone) /\ WF_upnpVars(MaintainDone) /\ WF_upnpVars(SettleJournal)
    /\ WF_upnpVars(Shutdown) /\ WF_upnpVars(ShutdownDone) /\ WF_upnpVars(Add) /\ WF_upnpVars(Confirm)
    /\ \A s \in Slots : WF_upnpVars(ReleaseOne(s)) /\ WF_upnpVars(Query(s))

(* Properties.                                                             *)

\* "Written before every AddPortMapping, so a crash still leaves enough to
\* find and remove a permanent lease on a later start": a permanent rule of
\* ours is in the journal file, whatever failed or was killed in between.
PermanentIsJournalled ==
    \A g \in Gateways, s \in Slots :
        table[g][s] = Ours(g, "permanent") => <<s, g>> \in disk

\* A rule of ours that is no longer wanted goes from the gateway, across
\* kills and restarts, while a worker with something to map runs beside it.
StaleRuleGoes ==
    []<>(\/ \A s \in Slots \ wanted : table[near][s] # Ours(near, "permanent")
         \/ wanted = {} \/ stopping \/ hostOffline \/ worker = "down")

\* "An entry is retired only on what this gateway says."
RetiredByItsGateway ==
    [][worker # "down" => \A e \in journal \ journal' : e[2] = near]_upnpVars
=============================================================================
