------------------------------ MODULE Startup -------------------------------
(***************************************************************************)
(* Start of the application: the one router of the process, and a profile  *)
(* opened on top of it.                                                    *)
(***************************************************************************)
EXTENDS Integers, FiniteSets

(***************************************************************************)
(* Starting the one router of the process (embedded::router in libcore,    *)
(* Router::start in i2p-embed/src/lib.rs, i2p-embed/shim/shim.cpp) while   *)
(* threads race to start it and the host says, any time, whether the       *)
(* machine is online.  Every atomic access is a step.                      *)
(***************************************************************************)

CONSTANTS Starters,     \* threads calling embedded::router
          Sayings       \* calls of gipny_router_set_online

VARIABLES router,       \* ROUTER
          started,      \* STARTED
          running, onlineWanted, \* the shim's atomics
          applied,      \* what the transports were last told
          starter, saying

routerVars == <<router, started, running, onlineWanted, applied, starter, saying>>

Unsaid == 2             \* -1 in the shim: nobody has said anything

RouterStartInit ==
    /\ router = FALSE /\ started = FALSE /\ running = FALSE
    /\ onlineWanted = Unsaid /\ applied = Unsaid
    /\ starter = [t \in Starters |-> [pc |-> "get", read |-> Unsaid]]
    /\ saying = [s \in Sayings |-> [pc |-> "new", online |-> Unsaid]]

\* embedded::router: the router this process already has.
GetRouter(t) ==
    /\ starter[t].pc = "get"
    /\ starter' = [starter EXCEPT ![t].pc = IF router THEN "ok" ELSE "claim"]
    /\ UNCHANGED <<router, started, running, onlineWanted, applied, saying>>

\* Router::start, once in a process.
ClaimStart(t) ==
    /\ starter[t].pc = "claim"
    /\ starter' = [starter EXCEPT ![t].pc = IF started THEN "alreadyStarted" ELSE "init"]
    /\ started' = TRUE
    /\ UNCHANGED <<router, running, onlineWanted, applied, saying>>

\* gipny_router_init
InitRouter(t) ==
    /\ starter[t].pc = "init"
    /\ \E next \in {"start", "initFailed"} : starter' = [starter EXCEPT ![t].pc = next]
    /\ UNCHANGED <<router, started, running, onlineWanted, applied, saying>>

\* gipny_router_start
MarkRunning(t) ==
    /\ starter[t].pc = "start"
    /\ running' = TRUE
    /\ starter' = [starter EXCEPT ![t].pc = "read"]
    /\ UNCHANGED <<router, started, onlineWanted, applied, saying>>

ReadWanted(t) ==
    /\ starter[t].pc = "read"
    /\ starter' = [starter EXCEPT ![t].pc = "apply", ![t].read = onlineWanted]
    /\ UNCHANGED <<router, started, running, onlineWanted, applied, saying>>

ApplyWanted(t) ==
    /\ starter[t].pc = "apply"
    /\ applied' = IF starter[t].read = Unsaid THEN applied ELSE starter[t].read
    /\ starter' = [starter EXCEPT ![t].pc = "keep"]
    /\ UNCHANGED <<router, started, running, onlineWanted, saying>>

KeepRouter(t) ==
    /\ starter[t].pc = "keep"
    /\ router' = TRUE
    /\ starter' = [starter EXCEPT ![t].pc = "ok"]
    /\ UNCHANGED <<started, running, onlineWanted, applied, saying>>

-----------------------------------------------------------------------------

\* gipny_router_set_online
SetOnlineMutant(s, online) ==
    /\ saying[s].pc = "new"
    /\ onlineWanted' = IF running THEN online ELSE onlineWanted
    /\ saying' = [saying EXCEPT ![s] = [pc |-> "look", online |-> online]]
    /\ UNCHANGED <<router, started, running, applied, starter>>
SetOnline(s, online) ==
    /\ saying[s].pc = "new"
    /\ onlineWanted' = online
    /\ saying' = [saying EXCEPT ![s] = [pc |-> "look", online |-> online]]
    /\ UNCHANGED <<router, started, running, applied, starter>>

LookRunning(s) ==
    /\ saying[s].pc = "look"
    /\ saying' = [saying EXCEPT ![s].pc = IF running THEN "tell" ELSE "done"]
    /\ UNCHANGED <<router, started, running, onlineWanted, applied, starter>>

TellTransports(s) ==
    /\ saying[s].pc = "tell"
    /\ applied' = saying[s].online
    /\ saying' = [saying EXCEPT ![s].pc = "done"]
    /\ UNCHANGED <<router, started, running, onlineWanted, starter>>

RouterStartNext ==
    \/ \E t \in Starters : \/ GetRouter(t) \/ ClaimStart(t) \/ InitRouter(t) \/ MarkRunning(t)
                           \/ ReadWanted(t) \/ ApplyWanted(t) \/ KeepRouter(t)
    \/ \E s \in Sayings : \/ \E online \in {0, 1} : SetOnline(s, online)
                          \/ LookRunning(s) \/ TellTransports(s)

RouterStartSpec == RouterStartInit /\ [][RouterStartNext]_routerVars

-----------------------------------------------------------------------------

\* What the host said is not lost to a start under way: when the router runs
\* and nothing is in progress, the transports were told.
SaidIsApplied ==
    router /\ (\A s \in Sayings : saying[s].pc \in {"new", "done"})
        => (applied = Unsaid <=> \A s \in Sayings : saying[s].pc = "new")

\* They were told what the host said last.
LastSaidIsApplied ==
    router /\ (\A s \in Sayings : saying[s].pc \in {"new", "done"}) => applied = onlineWanted

\* A thread that lost the race to start the router gets the winner's.
LoserGetsRouter == \A t \in Starters : starter[t].pc # "alreadyStarted"

-----------------------------------------------------------------------------

(***************************************************************************)
(* Opening and locking a profile in the desktop and phone application: the *)
(* screen (ui/src/state.ts, ui/src/auth.ts) and the commands it calls      *)
(* (core/src/lib.rs).  The commands run concurrently.  A boot spends       *)
(* minutes waiting for the router; the screen can be left meanwhile (back, *)
(* or lock with F5), and nothing cancels the command under way.            *)
(*                                                                         *)
(* A node (router session, destination, tunnels) is built ahead of the     *)
(* password for the profile chosen, kept in one slot, and handed to the    *)
(* boot of that profile if it fits.                                        *)
(***************************************************************************)

CONSTANTS AppProfiles,  \* profiles on this device
          Nobody,       \* no profile
          MaxUnlocks    \* bound: unlock commands given

ASSUME AppBootAssumption == Nobody \notin AppProfiles

Unlocks == 1 .. MaxUnlocks

VARIABLES warm,       \* the prewarm slot: whose node, and whether it is up
          boots,      \* unlock command -> its profile, where it is
          unlocks,    \* unlock commands given
          open,       \* ctx.core: the command that opened it, 0 for none
          cores,      \* cores running, by the command that started them
          screen,     \* store.view
          picked,     \* store.currentProfile
          attempt,    \* store.bootAttempt
          booting,    \* store.bootProfile
          load,       \* onUnlocked under way: its attempt and profile
          loaded,     \* store.profileLoaded, and whose data it was
          netReady    \* store.bootNetworkReady

backendVars == <<warm, boots, unlocks, open, cores>>
screenVars == <<screen, picked, attempt, booting, load, loaded, netReady>>
appVars == <<warm, boots, unlocks, open, cores, screen, picked, attempt, booting, load, loaded, netReady>>

Cold == [profile |-> Nobody, up |-> FALSE]
NoLoad == [attempt |-> 0, profile |-> Nobody]

AppInit ==
  /\ warm = Cold /\ unlocks = 0 /\ open = 0 /\ cores = {}
  /\ boots = [b \in Unlocks |-> [profile |-> Nobody, at |-> "idle"]]
  /\ screen = "select" /\ picked = Nobody /\ attempt = 0 /\ booting = Nobody
  /\ load = NoLoad /\ loaded = Nobody /\ netReady = FALSE

-----------------------------------------------------------------------------
(* The commands *)

At(b, place) == boots' = [boots EXCEPT ![b].at = place]

\* Core::shutdown of the open core, if there is one.
ShutDown == open' = 0 /\ cores' = cores \ {open}

\* prewarm_network: nothing while a profile is open; whatever the slot held
\* for another profile is gone before the new node is begun.
PrewarmNetwork(p, core) ==
  warm' = IF core # 0 \/ warm.profile = p THEN warm ELSE [profile |-> p, up |-> FALSE]

\* The node in the slot comes up, or its build fails and the slot empties.
PrewarmSettles ==
  /\ warm.profile # Nobody /\ ~warm.up
  /\ warm' \in {Cold, [warm EXCEPT !.up = TRUE]}
  /\ UNCHANGED <<boots, unlocks, open, cores, screenVars>>

\* The vault opened.  The node in the slot is taken if it is this profile's
\* and its settings fit, waited for if it is still building; any other is
\* torn down first, and the boot builds its own.
TakePrewarmed(b) ==
  /\ boots[b].at = "vault"
  /\ warm' = Cold
  /\ \/ warm.profile = boots[b].profile /\ At(b, IF warm.up THEN "core" ELSE "router")
     \/ At(b, "router")
  /\ UNCHANGED <<unlocks, open, cores, screenVars>>

\* The node is up: the one waited for, or the boot's own.
NodeUp(b) ==
  /\ boots[b].at = "router" /\ At(b, "core")
  /\ UNCHANGED <<warm, unlocks, open, cores, screenVars>>

\* Core::start, then ctx.profile, ctx.vault and ctx.core, whatever they held.
CoreStarts(b) ==
  /\ boots[b].at = "core" /\ At(b, "opened")
  /\ open' = b /\ cores' = cores \cup {b}
  /\ UNCHANGED <<warm, unlocks, screenVars>>

-----------------------------------------------------------------------------
(* The screen *)

EndBoot == /\ attempt' = attempt + 1 /\ booting' = Nobody
           /\ loaded' = Nobody /\ netReady' = FALSE

BeginBoot(p) == /\ attempt' = attempt + 1 /\ booting' = p /\ screen' = "booting"
                /\ loaded' = Nobody /\ netReady' = FALSE

IsBooting(p) == booting = p /\ screen = "booting"

SelectProfile(p) ==
  /\ screen = "select"
  /\ picked' = p /\ screen' = "unlock"
  /\ PrewarmNetwork(p, open)
  /\ UNCHANGED <<boots, unlocks, open, cores, attempt, booting, load, loaded, netReady>>

CancelToSelect ==
  /\ screen = "unlock"
  /\ EndBoot /\ picked' = Nobody /\ screen' = "select"
  /\ UNCHANGED <<backendVars, load>>

\* beginBoot, then vault_unlock: an open core is shut down first.
UnlockProfile ==
  /\ screen = "unlock" /\ unlocks < MaxUnlocks
  /\ BeginBoot(picked)
  /\ unlocks' = unlocks + 1
  /\ boots' = [boots EXCEPT ![unlocks + 1] = [profile |-> picked, at |-> "vault"]]
  /\ ShutDown
  /\ UNCHANGED <<warm, picked, load>>

\* A wrong passphrase, a router that does not start, a core that does not.
\* The screen goes back unless it has left this profile's boot.
BootFails(b) ==
  /\ boots[b].at \in {"vault", "router", "core"} /\ At(b, "ended")
  /\ IF IsBooting(boots[b].profile)
     THEN EndBoot /\ screen' = "unlock"
     ELSE UNCHANGED <<screen, attempt, booting, loaded, netReady>>
  /\ UNCHANGED <<warm, unlocks, open, cores, picked, load>>

\* vault_unlock returned: onUnlocked, unless the screen has left.
OnUnlocked(b) ==
  /\ boots[b].at = "opened" /\ load = NoLoad /\ At(b, "ended")
  /\ load' = IF IsBooting(boots[b].profile)
             THEN [attempt |-> attempt, profile |-> boots[b].profile] ELSE load
  /\ UNCHANGED <<warm, unlocks, open, cores, screen, picked, attempt, booting, loaded, netReady>>

EnterMain(whose) == IF screen = "booting" /\ whose # Nobody THEN "main" ELSE screen

OnLoadedMutant ==
  /\ load # NoLoad /\ load' = NoLoad
  /\ loaded' = load.profile
  /\ screen' = IF netReady THEN EnterMain(load.profile) ELSE screen
  /\ UNCHANGED <<backendVars, picked, attempt, booting, netReady>>

\* The profile's data arrived; an attempt given up meanwhile changes nothing.
OnLoaded ==
  /\ load # NoLoad /\ load' = NoLoad
  /\ IF load.attempt = attempt /\ load.profile = picked
     THEN /\ loaded' = load.profile
          /\ screen' = IF netReady THEN EnterMain(load.profile) ELSE screen
     ELSE UNCHANGED <<loaded, screen>>
  /\ UNCHANGED <<backendVars, picked, attempt, booting, netReady>>

\* The open chats button, or armBootTimeout.
EnterAnyway ==
  /\ screen = "booting" /\ loaded # Nobody
  /\ screen' = EnterMain(loaded)
  /\ UNCHANGED <<backendVars, picked, attempt, booting, load, loaded, netReady>>

\* A core reports its relay: boot_status relay, done or skipped, from
\* whichever core is running.
RelayReports ==
  /\ cores # {} /\ screen = "booting"
  /\ netReady' = TRUE /\ screen' = EnterMain(loaded)
  /\ UNCHANGED <<backendVars, picked, attempt, booting, load, loaded>>

\* store.lock, from the chats or with F5 from the boot screen; the profile
\* just left is prewarmed for signing in again.
LockScreen ==
  /\ screen \in {"booting", "main"}
  /\ EndBoot /\ picked' = Nobody /\ screen' = "select"
  /\ ShutDown /\ PrewarmNetwork(picked, 0)
  /\ UNCHANGED <<boots, unlocks, load>>

-----------------------------------------------------------------------------
AppNext ==
  \/ PrewarmSettles
  \/ \E b \in Unlocks : TakePrewarmed(b) \/ NodeUp(b) \/ CoreStarts(b) \/ BootFails(b) \/ OnUnlocked(b)
  \/ \E p \in AppProfiles : SelectProfile(p)
  \/ (attempt < 2 * MaxUnlocks /\ (CancelToSelect \/ LockScreen))
  \/ UnlockProfile \/ OnLoaded \/ EnterAnyway \/ RelayReports

AppSpec == AppInit /\ [][AppNext]_appVars

\* Nodes alive: in the slot, with a boot, with a running core.
Nodes == (IF warm.profile = Nobody THEN 0 ELSE 1) + Cardinality(cores)
         + Cardinality({b \in Unlocks : boots[b].at \in {"router", "core"}})

\* The chats shown are those of the profile whose data was loaded for this
\* very attempt: an attempt that was given up, or a late answer to it, never
\* lets anybody in (onUnlocked, enterMainWhenReady, endBoot).
EnteredIsLoaded == loaded # Nobody => loaded = picked /\ (screen = "main" \/ booting = picked)

\* prewarm_network: "Strictly take-then-drop: the old node's destinations go
\* before new ones are built on the same router."  One node at a time.
OneNode == Nodes <= 1

\* The chats on the screen are those of the open profile.
ShownIsOpen == screen = "main" /\ open # 0 => boots[open].profile = picked
=============================================================================
