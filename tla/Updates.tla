------------------------------ MODULE Updates ------------------------------
(***************************************************************************)
(* Auto-update: the check loop, the person's own check and install, the    *)
(* download, the installation for each kind of install, and the staged     *)
(* Windows installer claimed at the next launch (libcore/src/update.rs,    *)
(* core/src/core.rs, core/src/update_staging.rs, core/src/android.rs).     *)
(*                                                                         *)
(* A file's contents are "good" (what the release's manifest hashes) or    *)
(* "bad".  Versions are numbers; 0 stands for none.                        *)
(***************************************************************************)
EXTENDS Naturals

CONSTANTS MaxRelease, MaxUpdateEvents

ASSUME UpdatesAssumption == MaxRelease \in Nat \ {0} /\ MaxUpdateEvents \in Nat

VARIABLES
    platform,    \* how this copy was installed
    latest,      \* the newest release on GitHub
    exe,         \* the executable on disk
    running,     \* the version this process runs; 0: no process
    staged,      \* pending_update: none, or version, contents and claim
    downloads,   \* update_dl: contents per version
    pendingInfo, \* pending_update in memory
    prepared,    \* prepared_update in memory
    dismissed,   \* SETTING_DISMISSED_UPDATE
    autoUpdate,  \* SETTING_AUTO_UPDATE
    installLock, \* update_install: the actor holding it
    ustep, uinfo, \* where each actor stands, and the release it is working on
    apk,         \* Android: the staged copy, the dispatch word, the callback
    updateEvents

diskVars == <<exe, staged, downloads, dismissed, autoUpdate>>
memoryVars == <<pendingInfo, prepared, installLock, ustep, uinfo, apk>>
updateVars == <<platform, latest, running, diskVars, memoryVars, updateEvents>>

Updaters == {"loop", "person"}
Platforms == {"appimage", "deb", "windows", "android"}
Versions == 0 .. MaxRelease
NoDir == [version |-> 0, contents |-> "bad", claim |-> FALSE]
NoApk == [present |-> FALSE, word |-> 0, callback |-> "none", opened |-> FALSE]

UpdatesTypeOK ==
    /\ platform \in Platforms /\ latest \in Versions /\ running \in Versions
    /\ exe \in [version : Versions, contents : {"good", "bad"}]
    /\ staged \in [version : Versions, contents : {"good", "bad"}, claim : BOOLEAN]
    /\ downloads \in [Versions -> {"none", "good", "bad"}]
    /\ pendingInfo \in Versions /\ prepared \in Versions /\ dismissed \in Versions
    /\ autoUpdate \in BOOLEAN /\ installLock \in Updaters \union {"free"}
    /\ ustep \in [Updaters -> {"idle", "checked", "lock", "download", "install", "handoff"}]
    /\ uinfo \in [Updaters -> Versions]

UpdatesInit ==
    /\ platform \in Platforms /\ latest = 1 /\ running = 1
    /\ exe = [version |-> 1, contents |-> "good"] /\ staged = NoDir
    /\ downloads = [v \in Versions |-> "none"]
    /\ pendingInfo = 0 /\ prepared = 0 /\ dismissed = 0 /\ autoUpdate = TRUE
    /\ installLock = "free"
    /\ ustep = [a \in Updaters |-> "idle"] /\ uinfo = [a \in Updaters |-> 0]
    /\ apk = NoApk /\ updateEvents = 0

UpdateEvent == updateEvents < MaxUpdateEvents /\ updateEvents' = updateEvents + 1

Goto(a, step) == ustep' = [ustep EXCEPT ![a] = step]

\* .deb, macOS and Android wait for the person.
NeedsAPerson == platform \in {"deb", "android"}

\* The file's digest is the manifest's.
Verified(contents) == contents = "good"

-----------------------------------------------------------------------------
(* The check: spawn_update_loop, check_update_detailed.                    *)

\* check_detailed: the release as it is now; only a newer version than the
\* one running goes on.  The answer is used after the await.
CheckRelease(a) ==
    /\ running > 0 /\ ustep[a] = "idle" /\ latest > running
    /\ Goto(a, "checked") /\ uinfo' = [uinfo EXCEPT ![a] = latest]
    /\ UNCHANGED <<platform, latest, running, diskVars, pendingInfo, prepared, installLock,
                   apk, updateEvents>>

\* The rest of the check, the answer in hand.
OfferUpdate(a) ==
    /\ ustep[a] = "checked"
    /\ IF dismissed = uinfo[a]
       THEN Goto(a, "idle") /\ UNCHANGED pendingInfo
       ELSE /\ pendingInfo' = uinfo[a]
            /\ Goto(a, IF autoUpdate /\ ~NeedsAPerson THEN "lock" ELSE "idle")
    /\ UNCHANGED <<platform, latest, running, diskVars, prepared, installLock, uinfo, apk,
                   updateEvents>>

\* The person presses "update now".
PressInstall ==
    /\ running > 0 /\ ustep["person"] = "idle" /\ UpdateEvent
    /\ Goto("person", "lock")
    /\ UNCHANGED <<platform, latest, running, diskVars, pendingInfo, prepared, installLock, uinfo,
                   apk>>

\* dismiss_update: the setting, and nothing is pending any more.
DismissUpdate(v) ==
    /\ running > 0 /\ v \in {pendingInfo} \ {0} /\ UpdateEvent
    /\ dismissed' = v /\ pendingInfo' = 0
    /\ UNCHANGED <<platform, latest, running, exe, staged, downloads, autoUpdate, prepared,
                   installLock, ustep, uinfo, apk>>

SetAutoUpdate ==
    /\ running > 0 /\ UpdateEvent /\ autoUpdate' = ~autoUpdate
    /\ UNCHANGED <<platform, latest, running, exe, staged, downloads, dismissed, memoryVars>>

-----------------------------------------------------------------------------
(* install_update.                                                         *)

\* Whatever was prepared before counts for every later release.
BeginInstallMutant(a) ==
    /\ ustep[a] = "lock" /\ installLock = "free"
    /\ IF pendingInfo = 0 \/ prepared # 0
       THEN Goto(a, "idle") /\ UNCHANGED <<installLock, uinfo>>
       ELSE /\ Goto(a, "download") /\ installLock' = a
            /\ uinfo' = [uinfo EXCEPT ![a] = pendingInfo]
    /\ UNCHANGED <<platform, latest, running, diskVars, pendingInfo, prepared, apk, updateEvents>>

\* Under update_install: what is pending now, unless already prepared.
BeginInstall(a) ==
    /\ ustep[a] = "lock" /\ installLock = "free"
    /\ IF pendingInfo \in {0, prepared}
       THEN Goto(a, "idle") /\ UNCHANGED <<installLock, uinfo>>
       ELSE /\ Goto(a, "download") /\ installLock' = a
            /\ uinfo' = [uinfo EXCEPT ![a] = pendingInfo]
    /\ UNCHANGED <<platform, latest, running, diskVars, pendingInfo, prepared, apk, updateEvents>>

InstallFails(a) == Goto(a, "idle") /\ installLock' = "free"

\* save_verified_asset: into a temporary file, over the destination only once
\* size and digest match.
DownloadAsset(a) ==
    /\ ustep[a] = "download"
    /\ \E body \in {"good", "bad"} :
          /\ IF Verified(body)
             THEN /\ downloads' = [downloads EXCEPT ![uinfo[a]] = body]
                  /\ Goto(a, "install") /\ UNCHANGED installLock
             ELSE InstallFails(a) /\ UNCHANGED downloads
          /\ IF body = "good" THEN UNCHANGED updateEvents ELSE UpdateEvent
    /\ UNCHANGED <<platform, latest, running, exe, staged, dismissed, autoUpdate, pendingInfo,
                   prepared, uinfo, apk>>

Prepare(a) ==
    /\ prepared' = uinfo[a] /\ installLock' = "free" /\ Goto(a, "idle")

Replace(a) == exe' = [version |-> uinfo[a], contents |-> downloads[uinfo[a]]] /\ Prepare(a)

\* An AppImage, over the executable at once: a complete copy, then a rename.
InstallInPlace(a) ==
    /\ ustep[a] = "install" /\ platform = "appimage"
    /\ Replace(a)
    /\ UNCHANGED <<platform, latest, running, staged, downloads, dismissed, autoUpdate,
                   pendingInfo, uinfo, apk, updateEvents>>

\* A package, through apt; the person may refuse the password.
InstallDeb(a) ==
    /\ ustep[a] = "install" /\ platform = "deb"
    /\ \/ Replace(a) /\ UNCHANGED updateEvents
       \/ UpdateEvent /\ InstallFails(a) /\ UNCHANGED <<exe, prepared>>
    /\ UNCHANGED <<platform, latest, running, staged, downloads, dismissed, autoUpdate,
                   pendingInfo, uinfo, apk>>

\* stage_windows_installer: a complete directory, renamed into place; the
\* rename fails over a directory that is there.
StageInstaller(a) ==
    /\ ustep[a] = "install" /\ platform = "windows" /\ running > 0
    /\ IF staged = NoDir
       THEN /\ staged' = [version |-> uinfo[a], contents |-> downloads[uinfo[a]], claim |-> FALSE]
            /\ Prepare(a)
       ELSE InstallFails(a) /\ UNCHANGED <<staged, prepared>>
    /\ UNCHANGED <<platform, latest, running, exe, downloads, dismissed, autoUpdate, pendingInfo,
                   uinfo, apk, updateEvents>>

\* stage_verified_apk and install_apk: this attempt's own copy, the callback
\* queued on the webview thread.
StageApk(a) ==
    /\ ustep[a] = "install" /\ platform = "android"
    /\ IF Verified(downloads[uinfo[a]])
       THEN /\ apk' = [present |-> TRUE, word |-> 0, callback |-> "queued", opened |-> FALSE]
            /\ Goto(a, "handoff") /\ UNCHANGED installLock
       ELSE InstallFails(a) /\ UNCHANGED apk
    /\ UNCHANGED <<platform, latest, running, diskVars, pendingInfo, prepared, uinfo, updateEvents>>

\* try_start: cancellation and the callback have one winner.
CallbackStarts ==
    /\ apk.callback = "queued"
    /\ apk' = IF apk.word = 0 THEN [apk EXCEPT !.word = 1, !.callback = "running"]
              ELSE [apk EXCEPT !.callback = "none"]
    /\ UNCHANGED <<platform, latest, running, diskVars, pendingInfo, prepared, installLock, ustep,
                   uinfo, updateEvents>>

\* install_with_context: the intent is started, or it fails.
CallbackEnds ==
    /\ apk.callback = "running"
    /\ \E ok \in BOOLEAN :
          /\ apk' = [apk EXCEPT !.callback = IF ok THEN "done" ELSE "failed", !.opened = ok]
          /\ IF ok THEN UNCHANGED updateEvents ELSE UpdateEvent
    /\ UNCHANGED <<platform, latest, running, diskVars, pendingInfo, prepared, installLock, ustep,
                   uinfo>>

\* The deadline: cancels a callback that has not started, waits for one that
\* has.
DispatchTimeout(a) ==
    /\ ustep[a] = "handoff" /\ apk.word = 0 /\ UpdateEvent
    /\ apk' = [apk EXCEPT !.word = 2, !.present = FALSE]
    /\ InstallFails(a)
    /\ UNCHANGED <<platform, latest, running, diskVars, pendingInfo, prepared, uinfo>>

\* The callback's result reached install_update: an error removes the copy, a
\* started installer leaves the release pending.
HandoffEnds(a) ==
    /\ ustep[a] = "handoff" /\ apk.callback \in {"done", "failed"}
    /\ apk' = [apk EXCEPT !.callback = "none", !.present = (apk.callback = "done")]
    /\ InstallFails(a)
    /\ UNCHANGED <<platform, latest, running, diskVars, pendingInfo, prepared, uinfo, updateEvents>>

-----------------------------------------------------------------------------
(* Processes: the app ends at any moment and is started again.             *)

Fresh ==
    /\ pendingInfo' = 0 /\ prepared' = 0 /\ installLock' = "free"
    /\ ustep' = [a \in Updaters |-> "idle"] /\ uinfo' = [a \in Updaters |-> 0]

EndApp ==
    /\ running > 0 /\ UpdateEvent
    /\ running' = 0 /\ Fresh
    /\ apk' = [apk EXCEPT !.callback = "none"]
    /\ UNCHANGED <<platform, latest, diskVars>>

\* launch_pending_windows_installer: nothing newer is staged, or an earlier
\* claim did not finish; a directory of a version already running goes.
StartApp ==
    /\ running = 0
    /\ staged.version <= exe.version \/ staged.claim
    /\ running' = exe.version
    /\ staged' = IF staged.version <= exe.version THEN NoDir ELSE staged
    /\ UNCHANGED <<platform, latest, exe, downloads, dismissed, autoUpdate, memoryVars, updateEvents>>

\* The claim: the installer renamed, before anything is launched.
ClaimInstaller ==
    /\ running = 0 /\ staged.version > exe.version /\ ~staged.claim
    /\ staged' = [staged EXCEPT !.claim = TRUE]
    /\ ustep' = [ustep EXCEPT !["loop"] = "install"]
    /\ UNCHANGED <<platform, latest, running, exe, downloads, dismissed, autoUpdate, pendingInfo,
                   prepared, installLock, uinfo, apk, updateEvents>>

\* The claimed file is checked again and launched, the app leaving first; a
\* failed check or launch gives the claim back and the old app starts.
LaunchInstaller ==
    /\ running = 0 /\ ustep["loop"] = "install"
    /\ ustep' = [ustep EXCEPT !["loop"] = "idle"]
    /\ \/ /\ Verified(staged.contents)
          /\ \/ /\ exe' = [version |-> staged.version, contents |-> staged.contents]
                /\ UNCHANGED <<updateEvents, running, staged>>
             \/ UpdateEvent /\ UNCHANGED <<exe, running, staged>>
             \/ UpdateEvent /\ running' = exe.version
                /\ staged' = [staged EXCEPT !.claim = FALSE] /\ UNCHANGED exe
       \/ /\ ~Verified(staged.contents)
          /\ staged' = [staged EXCEPT !.claim = FALSE] /\ running' = exe.version
          /\ UNCHANGED <<exe, updateEvents>>
    /\ UNCHANGED <<platform, latest, downloads, dismissed, autoUpdate, pendingInfo, prepared,
                   installLock, uinfo, apk>>

\* The process dies between the claim and the launch.
KillLauncher ==
    /\ running = 0 /\ ustep["loop"] = "install" /\ UpdateEvent
    /\ ustep' = [ustep EXCEPT !["loop"] = "idle"]
    /\ UNCHANGED <<platform, latest, running, diskVars, pendingInfo, prepared, installLock, uinfo,
                   apk>>

\* A new release is published; a file on disk rots.
Publish ==
    /\ latest < MaxRelease /\ latest' = latest + 1
    /\ UNCHANGED <<platform, running, diskVars, memoryVars, updateEvents>>

Rot ==
    /\ staged # NoDir /\ UpdateEvent
    /\ staged' = [staged EXCEPT !.contents = "bad"]
    /\ UNCHANGED <<platform, latest, running, exe, downloads, dismissed, autoUpdate, memoryVars>>

UpdatesNext ==
    \/ \E a \in Updaters :
          \/ CheckRelease(a) \/ OfferUpdate(a) \/ BeginInstall(a) \/ DownloadAsset(a)
          \/ InstallInPlace(a) \/ InstallDeb(a) \/ StageApk(a) \/ DispatchTimeout(a) \/ HandoffEnds(a)
          \/ StageInstaller(a)
    \/ PressInstall \/ SetAutoUpdate \/ CallbackStarts \/ CallbackEnds
    \/ \E v \in Versions : DismissUpdate(v)
    \/ EndApp \/ StartApp \/ ClaimInstaller \/ LaunchInstaller \/ KillLauncher \/ Publish \/ Rot

\* The loop checks for as long as the app runs and each check is driven to its
\* end; the person's own presses are not promised.
UpdatesFairness ==
    /\ WF_updateVars(CheckRelease("loop"))
    /\ \A a \in Updaters :
          /\ WF_updateVars(OfferUpdate(a)) /\ SF_updateVars(BeginInstall(a))
          /\ WF_updateVars(DownloadAsset(a)) /\ WF_updateVars(InstallInPlace(a))
          /\ WF_updateVars(InstallDeb(a))
          /\ WF_updateVars(StageInstaller(a)) /\ WF_updateVars(StageApk(a))
          /\ WF_updateVars(HandoffEnds(a))
    /\ WF_updateVars(CallbackStarts) /\ WF_updateVars(CallbackEnds)

UpdatesSpec == UpdatesInit /\ [][UpdatesNext]_updateVars /\ UpdatesFairness

-----------------------------------------------------------------------------
\* What runs is what a release's manifest describes: neither a damaged
\* download nor a staged installer damaged before the next launch is ever
\* installed (save_verified_asset and launch_pending_windows_installer).
OnlyVerifiedRuns == exe.contents = "good"

\* An installer Android was handed keeps its file: a timeout that races the
\* callback never removes the copy of an installer that was started
\* (InstallerDispatch, install_update).
HandedOffIsKept == apk.opened => apk.present

\* With auto-update on, the newest release ends up on disk or staged for the
\* next launch, in spite of failed checks, damaged downloads and releases
\* overtaken by newer ones, unless the person put it aside, turned auto-update
\* off or ended the app.
UpdateIsPrepared ==
    latest > exe.version
        ~> \/ exe.version = latest \/ staged # NoDir \/ running = 0
           \/ ~autoUpdate \/ dismissed # 0 \/ NeedsAPerson

=============================================================================
