---------------------------- MODULE DeviceProofs ----------------------------
(***************************************************************************)
(* Proofs about one device: the start of the router and of the app, and    *)
(* the vault.                                                              *)
(***************************************************************************)
EXTENDS Startup, TLAPS, Vault

(***************************************************************************)
(* Coming up: SaidIsApplied of the router, for any number of threads that  *)
(* start the router and any number of calls of the host; EnteredIsLoaded   *)
(* of the app, for any profiles and any number of unlock commands.         *)
(***************************************************************************)

StarterPlaces == {"get", "claim", "init", "start", "read", "apply", "keep",
                  "ok", "alreadyStarted", "initFailed"}

RouterTypes ==
    /\ starter \in [Starters -> [pc : StarterPlaces, read : 0..2]]
    /\ saying \in [Sayings -> [pc : {"new", "look", "tell", "done"}, online : 0..2]]
    /\ onlineWanted \in 0..2 /\ applied \in 0..2
    /\ router \in BOOLEAN /\ running \in BOOLEAN

AllNew == \A s \in Sayings : saying[s].pc = "new"

\* A call that returned was heard by the transports.
DoneIsApplied == (\E s \in Sayings : saying[s].pc = "done") => applied # Unsaid

\* The shim's atomic is written by the first call, before anything else it
\* does, and nobody hears of what was not said.
WantedIsSaid ==
    /\ onlineWanted = Unsaid <=> AllNew
    /\ AllNew => applied = Unsaid /\ \A t \in Starters : starter[t].read = Unsaid
    /\ \A s \in Sayings : saying[s].pc # "new" => saying[s].online # Unsaid

\* running is set before onlineWanted is read.  A call that came too late for
\* the read looks at running afterwards and tells the transports itself, so a
\* starter that read nothing owes nothing.
StarterApplies ==
    /\ \A t \in Starters :
        /\ starter[t].pc \in {"read", "apply", "keep"} => running
        /\ starter[t].pc = "apply" => DoneIsApplied \/ starter[t].read # Unsaid
        /\ starter[t].pc = "keep" => DoneIsApplied
    /\ router => running /\ DoneIsApplied

RouterInv == RouterTypes /\ WantedIsSaid /\ StarterApplies

\* Nothing was said and nothing runs.
LEMMA InitRouterInv == RouterStartInit => RouterInv
  <1> SUFFICES ASSUME RouterStartInit PROVE RouterInv
    OBVIOUS
  <1>1. router \in BOOLEAN /\ running \in BOOLEAN
    BY Zenon DEF RouterStartInit
  <1>2. RouterTypes
    BY <1>1 DEF RouterStartInit, RouterTypes, StarterPlaces, Unsaid
  <1>3. WantedIsSaid /\ StarterApplies
    BY DEF RouterStartInit, WantedIsSaid, StarterApplies, DoneIsApplied, AllNew
  <1> QED
    BY <1>2, <1>3 DEF RouterInv

\* The starter's steps: applied only ever leaves Unsaid, and the calls stay
\* where they are.
LEMMA StarterStep ==
    ASSUME RouterInv, NEW t \in Starters,
           \/ GetRouter(t) \/ ClaimStart(t) \/ InitRouter(t) \/ MarkRunning(t)
           \/ ReadWanted(t) \/ ApplyWanted(t) \/ KeepRouter(t)
    PROVE  RouterInv'
  <1> USE DEF RouterInv
  <1>1. router' \in BOOLEAN /\ running' \in BOOLEAN
    BY Zenon DEF RouterTypes, GetRouter, ClaimStart, InitRouter, MarkRunning, ReadWanted, ApplyWanted, KeepRouter
  <1>2. RouterTypes'
    BY <1>1 DEF RouterTypes, StarterPlaces, GetRouter, ClaimStart, InitRouter, MarkRunning, ReadWanted,
       ApplyWanted, KeepRouter
  <1>3. CASE GetRouter(t)
    BY <1>2, <1>3 DEF GetRouter, RouterTypes, WantedIsSaid, StarterApplies, DoneIsApplied, AllNew
  <1>4. CASE ClaimStart(t)
    BY <1>2, <1>4 DEF ClaimStart, RouterTypes, WantedIsSaid, StarterApplies, DoneIsApplied, AllNew
  <1>5. CASE InitRouter(t)
    BY <1>2, <1>5 DEF InitRouter, RouterTypes, WantedIsSaid, StarterApplies, DoneIsApplied, AllNew
  <1>6. CASE MarkRunning(t)
    BY <1>2, <1>6 DEF MarkRunning, RouterTypes, WantedIsSaid, StarterApplies, DoneIsApplied, AllNew
  <1>7. CASE ReadWanted(t)
    BY <1>2, <1>7 DEF ReadWanted, RouterTypes, WantedIsSaid, StarterApplies, DoneIsApplied, AllNew
  <1>8. CASE ApplyWanted(t)
    <2>1. applied # Unsaid => applied' # Unsaid
      BY <1>8 DEF ApplyWanted
    <2>2. WantedIsSaid'
      BY <1>8 DEF ApplyWanted, RouterTypes, WantedIsSaid, AllNew
    <2>3. StarterApplies'
      BY <1>8, <2>1 DEF ApplyWanted, RouterTypes, StarterApplies, DoneIsApplied
    <2> QED
      BY <1>2, <2>2, <2>3
  <1>9. CASE KeepRouter(t)
    BY <1>2, <1>9 DEF KeepRouter, RouterTypes, WantedIsSaid, StarterApplies, DoneIsApplied, AllNew
  <1> QED
    BY <1>3, <1>4, <1>5, <1>6, <1>7, <1>8, <1>9

\* The calls' steps: one returns without telling only when nothing runs yet.
LEMMA SayingStep ==
    ASSUME RouterInv, NEW s \in Sayings,
           (\E online \in {0, 1} : SetOnline(s, online)) \/ LookRunning(s) \/ TellTransports(s)
    PROVE  RouterInv'
  <1> USE DEF RouterInv
  <1>1. router' = router /\ running' = running /\ starter' = starter
    BY DEF SetOnline, LookRunning, TellTransports
  <1>2. RouterTypes'
    BY <1>1 DEF RouterTypes, SetOnline, LookRunning, TellTransports
  <1>3. ASSUME NEW online \in {0, 1}, SetOnline(s, online) PROVE RouterInv'
    BY <1>1, <1>2, <1>3 DEF SetOnline, RouterTypes, WantedIsSaid, StarterApplies, DoneIsApplied, AllNew, Unsaid
  <1>4. CASE LookRunning(s)
    BY <1>1, <1>2, <1>4 DEF LookRunning, RouterTypes, WantedIsSaid, StarterApplies, DoneIsApplied, AllNew, Unsaid
  <1>5. CASE TellTransports(s)
    BY <1>1, <1>2, <1>5 DEF TellTransports, RouterTypes, WantedIsSaid, StarterApplies, DoneIsApplied, AllNew, Unsaid
  <1> QED
    BY <1>3, <1>4, <1>5

\* gipny_router_set_online loses nothing to a start under way, whichever of the
\* two reads the other's atomic first (shim.cpp).
THEOREM SaidIsAlwaysApplied == RouterStartSpec => []SaidIsApplied
  <1>1. RouterInv /\ [RouterStartNext]_routerVars => RouterInv'
    <2>1. RouterInv /\ UNCHANGED routerVars => RouterInv'
      BY DEF routerVars, RouterInv, RouterTypes, WantedIsSaid, StarterApplies, DoneIsApplied, AllNew
    <2> QED
      BY <2>1, StarterStep, SayingStep DEF RouterStartNext
  <1>2. RouterInv => SaidIsApplied
    BY DEF RouterInv, RouterTypes, WantedIsSaid, StarterApplies, DoneIsApplied, AllNew, SaidIsApplied
  <1> QED
    BY InitRouterInv, <1>1, <1>2, PTL DEF RouterStartSpec

-----------------------------------------------------------------------------

BootPlaces == {"idle", "vault", "router", "core", "opened", "ended"}

\* A load that is still of this attempt belongs to the boot on the screen; a
\* screen before the boot shows nobody's data.
LoadIsOfBoot ==
    /\ attempt \in Nat
    /\ load \in [attempt : Nat, profile : AppProfiles \cup {Nobody}] /\ load.attempt <= attempt
    /\ load # NoLoad /\ load.attempt = attempt => booting = load.profile /\ screen \in {"booting", "main"}
    /\ screen \in {"select", "unlock"} => loaded = Nobody
    /\ boots \in [Unlocks -> [profile : AppProfiles \cup {Nobody}, at : BootPlaces]]
    /\ picked \in AppProfiles \cup {Nobody}

BootInv == LoadIsOfBoot /\ EnteredIsLoaded

\* Neither a late answer nor a boot given up puts anybody's chats on the screen
\* of another attempt (onUnlocked, enterMainWhenReady, endBoot).
THEOREM EnteredIsAlwaysLoaded == AppSpec => []EnteredIsLoaded
  <1>1. AppInit => BootInv
    BY DEF AppInit, BootInv, LoadIsOfBoot, EnteredIsLoaded, NoLoad, BootPlaces
  <1>2. BootInv /\ [AppNext]_appVars => BootInv'
    <2> SUFFICES ASSUME BootInv, [AppNext]_appVars PROVE BootInv'
      OBVIOUS
    <2> USE DEF BootInv, LoadIsOfBoot, EnteredIsLoaded
    <2>1. CASE UNCHANGED appVars
      BY <2>1 DEF appVars
    <2>2. CASE PrewarmSettles
      BY <2>2 DEF PrewarmSettles, screenVars
    <2>3. ASSUME NEW b \in Unlocks, TakePrewarmed(b) \/ NodeUp(b) \/ CoreStarts(b) PROVE BootInv'
      BY <2>3 DEF TakePrewarmed, NodeUp, CoreStarts, At, screenVars, BootPlaces
    <2>4. ASSUME NEW b \in Unlocks, BootFails(b) PROVE BootInv'
      BY <2>4 DEF BootFails, At, EndBoot, IsBooting, BootPlaces
    <2>5. ASSUME NEW b \in Unlocks, OnUnlocked(b) PROVE BootInv'
      BY <2>5 DEF OnUnlocked, At, IsBooting, BootPlaces
    <2>6. ASSUME NEW p \in AppProfiles, SelectProfile(p) PROVE BootInv'
      BY <2>6 DEF SelectProfile
    <2>7. CASE CancelToSelect
      BY <2>7 DEF CancelToSelect, EndBoot, backendVars
    <2>8. CASE LockScreen
      BY <2>8 DEF LockScreen, EndBoot
    <2>9. CASE UnlockProfile
      <3>1. boots' \in [Unlocks -> [profile : AppProfiles \cup {Nobody}, at : BootPlaces]]
        <4>1. [profile |-> picked, at |-> "vault"] \in [profile : AppProfiles \cup {Nobody}, at : BootPlaces]
          BY DEF BootPlaces
        <4> DEFINE n == unlocks + 1
        <4>2. boots' = [boots EXCEPT ![n] = [profile |-> picked, at |-> "vault"]]
          BY <2>9 DEF UnlockProfile
        <4> HIDE DEF n
        <4> QED
          BY <4>1, <4>2
      <3> QED
        BY <2>9, <3>1 DEF UnlockProfile, BeginBoot
    <2>10. CASE OnLoaded
      BY <2>10, AppBootAssumption DEF OnLoaded, EnterMain, backendVars, NoLoad
    <2>11. CASE EnterAnyway
      BY <2>11 DEF EnterAnyway, EnterMain, backendVars
    <2>12. CASE RelayReports
      BY <2>12 DEF RelayReports, EnterMain, backendVars
    <2> QED
      BY <2>1, <2>2, <2>3, <2>4, <2>5, <2>6, <2>7, <2>8, <2>9, <2>10, <2>11, <2>12 DEF AppNext
  <1> QED
    BY <1>1, <1>2, PTL DEF AppSpec, BootInv

-----------------------------------------------------------------------------

(***************************************************************************)
(* VaultHolds of Vault, for any number of handles, passphrases, limits,    *)
(* operations and kills.                                                   *)
(*                                                                         *)
(* Neither half is inductive by itself.  A wrong passphrase is answered    *)
(* one step after it was counted, so the answers given stay below the      *)
(* count in the file (Counted), strictly below it while one is due         *)
(* (UnderWay); and what an operation writes is what it read from the file, *)
(* so the copy of its handle equals the file from ReadAgain on.            *)
(***************************************************************************)

Headers == [primary : Passes, duress : Passes \cup {NoPass}, mode : Modes, attempts : Nat, max : Limits]

\* What follows a right passphrase, but for the unlock itself.
Changes == [kind : {"change"}, pass : Passes]
           \cup [kind : {"duress"}, pass : Passes \cup {NoPass}, mode : Modes]
           \cup [kind : {"max"}, max : Limits]

Creating == [pc : {"enroll", "publish", "create"}, h : Handles, new : Headers]
Unlocking == [pc : {"read", "try", "refuse", "destroy", "unpublish", "erase"}, h : Handles, pass : Passes,
              then : Changes \cup [kind : {"unlock"}]]
Changing == [pc : {"apply", "write"}, h : Handles, pass : Passes, then : Changes]
Wiping == [pc : {"destroy", "unpublish", "erase"}, h : Handles]

VaultTypes ==
    /\ file \in Headers \cup {NoHeader}
    /\ memory \in [Handles -> Headers \cup {NoHeader}]
    /\ guesses \in Nat
    /\ vop \in {NoOp} \cup Creating \cup Unlocking \cup Changing \cup Wiping

\* Every wrong passphrase answered was counted in the file before.
Counted ==
    file \in Headers => guesses <= file.attempts /\ (file.max > 0 => guesses < file.max)

Kept == file \in Headers => Settings(file) \in chosen

\* The operation under way works on the header that is on disk; the answer it
\* is about to give is counted there, and is not the last one allowed.
UnderWay ==
    /\ vop.pc \in {"try", "refuse", "apply"} => file \in Headers /\ memory[vop.h] = file
    /\ vop.pc = "refuse" => guesses < file.attempts /\ (file.max > 0 => file.attempts < file.max)
    /\ vop.pc \in {"apply", "write"} => guesses = 0 /\ memory[vop.h] \in Headers
    /\ vop.pc = "write" => Settings(memory[vop.h]) \in chosen

VaultInv == VaultTypes /\ Counted /\ Kept /\ UnderWay

-----------------------------------------------------------------------------

\* No vault, no handle, nothing under way.
LEMMA InitVault == VaultInit => VaultInv
  BY DEF VaultInit, VaultInv, VaultTypes, Counted, Kept, UnderWay, NoOp, NoHeader, Headers

\* Counting or forgetting attempts leaves a header with its settings.
LEMMA AttemptsKeepSettings ==
    ASSUME NEW h \in Headers, NEW n \in Nat
    PROVE  LET k == [h EXCEPT !.attempts = n]
           IN  k \in Headers /\ k.attempts = n /\ k.max = h.max /\ Settings(k) = Settings(h)
  BY DEF Headers, Settings

\* The operations begin with the file as it is.
LEMMA BeginVault ==
    ASSUME VaultInv, NEW h \in Handles, VaultOperation(h)
    PROVE  VaultInv'
  <1> USE DEF VaultInv
  <1>1. CASE OpenVault(h)
    <2>1. VaultTypes'
      BY <1>1 DEF OpenVault, VaultTypes
    <2>2. Counted' /\ Kept' /\ UnderWay'
      BY <1>1 DEF OpenVault, VaultTypes, Counted, Kept, UnderWay, NoOp
    <2> QED
      BY <2>1, <2>2
  <1>2. ASSUME NEW op \in Creating \cup Unlocking \cup Wiping, op.pc \in {"enroll", "read", "destroy"},
               vop' = op, UNCHANGED <<file, binding, credential, memory, chosen, guesses, kills>>
        PROVE  VaultInv'
    <2>1. VaultTypes'
      BY <1>2 DEF VaultTypes
    <2>2. Counted' /\ Kept' /\ UnderWay'
      BY <1>2 DEF Counted, Kept, UnderWay
    <2> QED
      BY <2>1, <2>2
  <1>3. CASE WipeAll(h)
    BY <1>3, <1>2 DEF WipeAll, Begin, Wiping
  <1>4. ASSUME NEW pass \in Passes, NEW then \in Changes \cup [kind : {"unlock"}], BeginUnlock(h, pass, then)
        PROVE  VaultInv'
    BY <1>4, <1>2 DEF BeginUnlock, Begin, Unlocking
  <1>5. ASSUME NEW pass \in Passes, Unlock(h, pass) PROVE VaultInv'
    BY <1>5, <1>4 DEF Unlock
  <1>6. ASSUME NEW pass \in Passes, NEW new \in Passes, ChangePassphrase(h, pass, new) PROVE VaultInv'
    BY <1>6, <1>4 DEF ChangePassphrase, Changes
  <1>7. ASSUME NEW pass \in Passes, NEW dp \in Passes \cup {NoPass}, NEW m \in Modes, SetDuress(h, pass, dp, m)
        PROVE  VaultInv'
    BY <1>7, <1>4 DEF SetDuress, Changes
  <1>8. ASSUME NEW pass \in Passes, NEW n \in Limits, SetMaxAttempts(h, pass, n) PROVE VaultInv'
    BY <1>8, <1>4 DEF SetMaxAttempts, Changes
  <1>9. ASSUME NEW pass \in Passes, NEW dp \in Passes \cup {NoPass}, NEW m \in Modes, NEW n \in Limits,
               Create(h, pass, dp, m, n)
        PROVE  VaultInv'
    <2>1. Header(pass, Duress(dp, pass), m, n) \in Headers
      BY DEF Header, Duress, Headers
    <2> QED
      BY <1>9, <1>2, <2>1 DEF Create, Begin, Creating
  <1> QED
    BY <1>1, <1>3, <1>5, <1>6, <1>7, <1>8, <1>9 DEF VaultOperation

\* The steps up to the answer: what is counted is in the file before it is said.
LEMMA UnlockVault ==
    ASSUME VaultInv, ReadAgain \/ TryPrimary \/ TryDuress \/ TryWrong \/ AnswerWrong
    PROVE  VaultInv'
  <1> USE DEF VaultInv
  <1>1. CASE ReadAgain
    <2>1. vop \in Unlocking
      BY <1>1 DEF ReadAgain, VaultTypes, NoOp, Creating, Unlocking, Changing, Wiping
    <2>2. VaultTypes'
      BY <1>1, <2>1 DEF ReadAgain, Done, VaultTypes, Unlocking
    <2>3. Counted' /\ Kept' /\ UnderWay'
      BY <1>1, <2>1 DEF ReadAgain, Done, NoOp, VaultTypes, Counted, Kept, UnderWay, Unlocking
    <2> QED
      BY <2>2, <2>3
  <1>2. ASSUME vop.pc = "try" PROVE vop \in Unlocking /\ memory[vop.h] = file /\ file \in Headers
    BY <1>2 DEF VaultTypes, UnderWay, NoOp, Creating, Unlocking, Changing, Wiping
  <1>3. ASSUME vop.pc = "try", memory' = [memory EXCEPT ![vop.h] = [file EXCEPT !.attempts = 0]],
               file' = [file EXCEPT !.attempts = 0], guesses' = 0, UNCHANGED chosen
        PROVE  /\ file' \in Headers /\ memory' \in [Handles -> Headers \cup {NoHeader}]
               /\ memory'[vop.h] = file' /\ Counted' /\ Kept'
    <2>1. file' \in Headers /\ file'.attempts = 0 /\ file'.max = file.max /\ Settings(file') = Settings(file)
      BY <1>2, <1>3, AttemptsKeepSettings
    <2>2. memory' \in [Handles -> Headers \cup {NoHeader}] /\ memory'[vop.h] = file'
      BY <1>2, <1>3, <2>1 DEF VaultTypes, Unlocking
    <2>3. Counted'
      BY <2>1, <1>3 DEF Counted, Headers
    <2>4. Kept'
      BY <1>2, <1>3, <2>1 DEF Kept
    <2> QED
      BY <2>1, <2>2, <2>3, <2>4
  <1>4. CASE TryPrimary
    <2>1. vop \in Unlocking /\ memory[vop.h] = file
      BY <1>4, <1>2 DEF TryPrimary
    <2>2. /\ file' \in Headers /\ memory' \in [Handles -> Headers \cup {NoHeader}]
          /\ memory'[vop.h] = file' /\ Counted' /\ Kept'
      BY <1>4, <1>3, <2>1 DEF TryPrimary
    <2>3. vop' = NoOp \/ (vop' \in Changing /\ vop'.pc = "apply" /\ vop'.h = vop.h)
      BY <1>4, <2>1 DEF TryPrimary, Unlocking, Changing
    <2>4. VaultTypes'
      BY <1>4, <2>2, <2>3 DEF TryPrimary, VaultTypes
    <2>5. UnderWay'
      BY <1>4, <2>2, <2>3 DEF TryPrimary, UnderWay, NoOp
    <2> QED
      BY <2>2, <2>4, <2>5
  <1>5. CASE TryDuress
    <2>1. vop \in Unlocking /\ memory[vop.h] = file
      BY <1>5, <1>2 DEF TryDuress
    <2>2. /\ file' \in Headers /\ memory' \in [Handles -> Headers \cup {NoHeader}]
          /\ memory'[vop.h] = file' /\ Counted' /\ Kept'
      BY <1>5, <1>3, <2>1 DEF TryDuress
    <2>3. vop' = NoOp \/ (vop' \in Unlocking /\ vop'.pc = "destroy")
      BY <1>5, <2>1 DEF TryDuress, Unlocking
    <2>4. VaultTypes'
      BY <1>5, <2>2, <2>3 DEF TryDuress, VaultTypes
    <2>5. UnderWay'
      BY <2>3 DEF UnderWay, NoOp
    <2> QED
      BY <2>2, <2>4, <2>5
  <1>6. CASE TryWrong
    <2>1. vop.pc = "try" /\ vop \in Unlocking /\ memory[vop.h] = file /\ file \in Headers
      BY <1>6, <1>2 DEF TryWrong
    <2> DEFINE k == [file EXCEPT !.attempts = file.attempts + 1]
    <2>2. k \in Headers /\ k.attempts = file.attempts + 1 /\ k.max = file.max /\ Settings(k) = Settings(file)
      <3>1. file.attempts + 1 \in Nat
        BY <2>1 DEF Headers
      <3> QED
        BY <2>1, <3>1, AttemptsKeepSettings
    <2>3. /\ memory' = [memory EXCEPT ![vop.h] = k] /\ file' = k
          /\ vop' = [vop EXCEPT !.pc = IF k.max > 0 /\ k.attempts >= k.max THEN "destroy" ELSE "refuse"]
          /\ chosen' = chosen /\ guesses' = guesses
      BY <1>6, <2>1 DEF TryWrong
    <2> HIDE DEF k
    <2>4. vop' \in Unlocking /\ vop'.h = vop.h /\ vop'.pc \in {"destroy", "refuse"}
          /\ (vop'.pc = "refuse" => ~(k.max > 0 /\ k.attempts >= k.max))
      BY <2>1, <2>3 DEF Unlocking
    <2>5. VaultTypes'
      BY <2>1, <2>2, <2>3, <2>4 DEF VaultTypes, Unlocking
    <2>6. file.attempts \in Nat /\ file.max \in Nat /\ guesses \in Nat
      BY <2>1, VaultAssumption DEF Headers, VaultTypes
    <2>7. Counted'
      BY <2>1, <2>2, <2>3, <2>6 DEF Counted
    <2>8. Kept'
      BY <2>1, <2>2, <2>3 DEF Kept
    <2>9. memory'[vop.h] = k
      BY <2>1, <2>3 DEF VaultTypes, Unlocking
    <2>10. UnderWay'
      BY <2>1, <2>2, <2>3, <2>4, <2>6, <2>9 DEF UnderWay, Counted
    <2> QED
      BY <2>5, <2>7, <2>8, <2>10
  <1>7. CASE AnswerWrong
    <2>1. VaultTypes'
      BY <1>7 DEF AnswerWrong, Done, VaultTypes
    <2>2. file \in Headers => file.attempts \in Nat /\ file.max \in Nat
      BY VaultAssumption DEF Headers
    <2>3. Counted' /\ Kept' /\ UnderWay'
      BY <1>7, <2>2 DEF AnswerWrong, Done, VaultTypes, Counted, Kept, UnderWay, NoOp
    <2> QED
      BY <2>1, <2>3
  <1> QED
    BY <1>1, <1>4, <1>5, <1>6, <1>7

\* The steps that replace the file or take it away.
LEMMA WriteVault ==
    ASSUME VaultInv,
           \/ EnrollCredential \/ PublishBinding \/ WriteCreated \/ ApplyInMemory \/ WriteApplied
           \/ DestroyCredential \/ RemoveBinding \/ SecureWipe \/ Kill
    PROVE  VaultInv'
  <1> USE DEF VaultInv
  <1>1. CASE EnrollCredential \/ PublishBinding
    <2>1. vop \in Creating
      BY <1>1 DEF EnrollCredential, PublishBinding, VaultTypes, NoOp, Creating, Unlocking, Changing, Wiping
    <2>2. vop' = NoOp \/ vop' \in Creating
      BY <1>1, <2>1 DEF EnrollCredential, PublishBinding, Creating
    <2>3. VaultTypes'
      BY <1>1, <2>2 DEF EnrollCredential, PublishBinding, VaultTypes
    <2>4. Counted' /\ Kept'
      BY <1>1 DEF EnrollCredential, PublishBinding, Counted, Kept
    <2>5. UnderWay'
      BY <2>2 DEF UnderWay, NoOp, Creating
    <2> QED
      BY <2>3, <2>4, <2>5
  <1>2. CASE WriteCreated
    <2>1. vop \in Creating
      BY <1>2 DEF WriteCreated, VaultTypes, NoOp, Creating, Unlocking, Changing, Wiping
    <2>2. vop.h \in Handles /\ vop.new \in Headers /\ vop.new.attempts \in Nat /\ vop.new.max \in Nat
      BY <2>1, VaultAssumption DEF Creating, Headers
    <2>3. VaultTypes'
      BY <1>2, <2>2 DEF WriteCreated, Done, VaultTypes
    <2>4. Counted' /\ Kept' /\ UnderWay'
      BY <1>2, <2>2 DEF WriteCreated, Done, Counted, Kept, UnderWay, NoOp
    <2> QED
      BY <2>3, <2>4
  <1>3. CASE ApplyInMemory
    <2>1. vop \in Changing /\ vop.pc = "apply" /\ file \in Headers /\ memory[vop.h] = file /\ guesses = 0
      BY <1>3 DEF ApplyInMemory, UnderWay, VaultTypes, NoOp, Creating, Unlocking, Changing, Wiping
    <2>2. vop.h \in Handles /\ vop.then \in Changes
      BY <2>1 DEF Changing
    <2>3. file' = file /\ guesses' = guesses
      BY <1>3 DEF ApplyInMemory
    <2>4. CASE Refused
      <3>1. memory' = [memory EXCEPT ![vop.h].mode = vop.then.mode] /\ vop' = NoOp /\ chosen' = chosen
        BY <1>3, <2>4 DEF ApplyInMemory, Done
      <3>2. vop.then.mode \in Modes
        BY <2>2, <2>4 DEF Refused, Changes
      <3>3. memory' \in [Handles -> Headers \cup {NoHeader}]
        BY <2>1, <2>2, <3>1, <3>2 DEF VaultTypes, Headers
      <3>4. VaultTypes'
        BY <2>3, <3>1, <3>3 DEF VaultTypes
      <3>5. Counted' /\ Kept' /\ UnderWay'
        BY <2>3, <3>1 DEF Counted, Kept, UnderWay, NoOp
      <3> QED
        BY <3>4, <3>5
    <2>5. CASE ~Refused
      <3> DEFINE k == Applied(file)
      <3>1. k \in Headers
        BY <2>1, <2>2 DEF Applied, Changes, Headers
      <3>2. /\ memory' = [memory EXCEPT ![vop.h] = k] /\ chosen' = chosen \cup {Settings(k)}
            /\ vop' = [vop EXCEPT !.pc = "write"]
        BY <1>3, <2>1, <2>2, <2>5 DEF ApplyInMemory, VaultTypes
      <3> HIDE DEF k
      <3>3. vop' \in Changing /\ vop'.pc = "write" /\ vop'.h = vop.h
        BY <2>1, <3>2 DEF Changing
      <3>4. memory' \in [Handles -> Headers \cup {NoHeader}] /\ memory'[vop.h] = k
        BY <2>2, <3>1, <3>2 DEF VaultTypes
      <3>5. VaultTypes'
        BY <2>3, <3>3, <3>4 DEF VaultTypes
      <3>6. Counted' /\ Kept'
        BY <2>3, <3>2 DEF Counted, Kept
      <3>7. UnderWay'
        BY <2>1, <2>3, <3>1, <3>2, <3>3, <3>4 DEF UnderWay
      <3> QED
        BY <3>5, <3>6, <3>7
    <2> QED
      BY <2>4, <2>5
  <1>4. CASE WriteApplied
    <2>1. vop \in Changing /\ memory[vop.h] \in Headers /\ guesses = 0
      BY <1>4 DEF WriteApplied, UnderWay, VaultTypes, NoOp, Creating, Unlocking, Changing, Wiping
    <2>2. file' = memory[vop.h] /\ chosen' = {Settings(memory[vop.h])} /\ vop' = NoOp
          /\ memory' = memory /\ guesses' = guesses
      BY <1>4 DEF WriteApplied, Done
    <2>3. file'.attempts \in Nat /\ file'.max \in Nat
      BY <2>1, <2>2, VaultAssumption DEF Headers
    <2>4. VaultTypes'
      BY <2>1, <2>2 DEF VaultTypes
    <2>5. Counted' /\ Kept' /\ UnderWay'
      BY <2>1, <2>2, <2>3 DEF Counted, Kept, UnderWay, NoOp
    <2> QED
      BY <2>4, <2>5
  <1>5. CASE DestroyCredential \/ RemoveBinding
    <2>1. vop \in Unlocking \cup Wiping
      BY <1>5 DEF DestroyCredential, RemoveBinding, VaultTypes, NoOp, Creating, Unlocking, Changing, Wiping
    <2>2. vop' = NoOp \/ (vop' \in Unlocking \cup Wiping /\ vop'.pc \in {"unpublish", "erase"})
      BY <1>5, <2>1 DEF DestroyCredential, RemoveBinding, Done, Unlocking, Wiping
    <2>3. VaultTypes'
      BY <1>5, <2>2 DEF DestroyCredential, RemoveBinding, VaultTypes
    <2>4. Counted' /\ Kept'
      BY <1>5 DEF DestroyCredential, RemoveBinding, Counted, Kept
    <2>5. UnderWay'
      BY <2>2 DEF UnderWay, NoOp
    <2> QED
      BY <2>3, <2>4, <2>5
  <1>6. CASE SecureWipe
    <2>1. NoHeader \notin Headers
      BY DEF NoHeader, Headers
    <2>2. VaultTypes'
      BY <1>6 DEF SecureWipe, Done, VaultTypes
    <2>3. Counted' /\ Kept' /\ UnderWay'
      BY <1>6, <2>1 DEF SecureWipe, Done, Counted, Kept, UnderWay, NoOp
    <2> QED
      BY <2>2, <2>3
  <1>7. CASE Kill
    <2>1. VaultTypes'
      BY <1>7 DEF Kill, Done, VaultTypes
    <2>2. Counted' /\ Kept' /\ UnderWay'
      BY <1>7 DEF Kill, Done, Counted, Kept, UnderWay, NoOp
    <2> QED
      BY <2>1, <2>2
  <1> QED
    BY <1>1, <1>2, <1>3, <1>4, <1>5, <1>6, <1>7

-----------------------------------------------------------------------------

\* Through any of its handles, and wherever the process is killed, the vault
\* answers fewer wrong passphrases in a row than max_attempts (unlock_locked),
\* and holds the settings last set or being set (change_passphrase, set_duress,
\* set_max_attempts): no handle's older copy of the header comes back.
THEOREM VaultAlwaysHolds == VaultSpec => []VaultHolds
  <1>1. VaultInv /\ [VaultNext]_vaultVars => VaultInv'
    <2> SUFFICES ASSUME VaultInv, [VaultNext]_vaultVars PROVE VaultInv'
      OBVIOUS
    <2>1. CASE UNCHANGED vaultVars
      BY <2>1 DEF vaultVars, VaultInv, VaultTypes, Counted, Kept, UnderWay
    <2> QED
      BY <2>1, BeginVault, UnlockVault, WriteVault DEF VaultNext, VaultStep
  <1>2. VaultInv => VaultHolds
    BY DEF VaultInv, VaultTypes, Counted, Kept, VaultHolds, GuessesBounded, SettingsKept
  <1> QED
    BY InitVault, <1>1, <1>2, PTL DEF VaultSpec
=============================================================================
