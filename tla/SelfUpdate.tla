----------------------------- MODULE SelfUpdate -----------------------------
(***************************************************************************)
(* How an installed agent replaces itself.  Launch                         *)
(* (cli/launch-auto-update.ts), the loop of a running agent                *)
(* (runtime/periodic-update.ts) and /update apply all call applyUpdate()   *)
(* of input/commands/update-runtime.ts, which swaps three artifacts beside *)
(* the executable; /update rollback exchanges them with the copies the     *)
(* swaps kept.  Several agents may run from one install, and any of them   *)
(* may crash, or fail to write, between two steps on the disk.             *)
(*                                                                         *)
(* A release is a number, 0 standing for no file.  The SDK's               *)
(* swapFileAtomically and rollbackKeptPrevious (binary and addon) are      *)
(* external and atomic per call; the driver is a directory, and its swap   *)
(* and rollback are this repository's own, one rename at a time.           *)
(***************************************************************************)
EXTENDS Naturals, FiniteSets

CONSTANTS
    Processes,   \* agents running from the install
    NumReleases, \* releases, published one after the other
    Ships,       \* the extras each release publishes beside its binary
    Stale,       \* releases whose binary still states the version before
    Prebuilt,    \* does this platform have a prebuilt binary?
    MaxFaults    \* crashes and failures during work on the disk (bound)

Releases  == 1 .. NumReleases
Extras    == {"addon", "driver"}
Artifacts == {"binary"} \cup Extras
Names     == {"live", "previous", "incoming", "rolling"}

ASSUME ConstantsAssumption ==
    /\ NumReleases \in Nat \ {0} /\ MaxFaults \in Nat
    /\ Ships \in [Releases -> SUBSET Extras]
    /\ Stale \subseteq Releases \ {1}
    /\ Prebuilt \in BOOLEAN

VARIABLES
    latest,   \* the newest release published
    disk,     \* the release of each artifact, by name: live, .previous, ...
    receipt,  \* <<from, to>> of the last line of the .self-update.log
    pc,       \* where each process is
    image,    \* the release whose binary it runs
    marked,   \* is LAUNCH_UPDATED_FROM_ENV set in its environment?
    by,       \* who asked for the update it is applying, "nobody" outside one
    told,     \* the release its check found, 0 outside an update
    tag,      \* the release apply resolved, 0 before
    busy,     \* has work come in since its idle gate was read?
    faults,   \* crashes and failures so far
    mishaps   \* what went wrong so far: the cases the properties tell apart

releaseVars == <<latest>>
diskVars    == <<disk, receipt>>
updateVars  == <<by, told, tag, busy>>
procVars    == <<image, marked>>
faultVars   == <<faults, mishaps>>
vars == <<releaseVars, diskVars, updateVars, procVars, faultVars, pc>>

Swapping == {"addon", "extract", "clear", "park", "promote"}
Rolling  == {"driverBack", "setAside", "restore", "keep"}
OnDisk   == Swapping \cup Rolling
Finishing == {"applied", "handover"}
Stages   == {"off", "starting", "up", "resolving", "downloading"} \cup OnDisk \cup Finishing

TypeOK ==
    /\ latest \in Releases
    /\ disk \in [Artifacts -> [Names -> 0 .. NumReleases]]
    /\ receipt \in (Releases \X Releases) \cup {<<>>}
    /\ pc \in [Processes -> Stages]
    /\ image \in [Processes -> Releases]
    /\ marked \in [Processes -> BOOLEAN]
    /\ by \in [Processes -> {"nobody", "launch", "periodic", "command"}]
    /\ told \in [Processes -> 0 .. NumReleases]
    /\ tag \in [Processes -> 0 .. NumReleases]
    /\ busy \in [Processes -> BOOLEAN]
    /\ faults \in 0 .. MaxFaults
    /\ mishaps \subseteq {"overlapped", "moved", "reapplied", "partial", "failed"}

NoFiles == [n \in Names |-> 0]

\* The first release was installed by hand, whole.
Init ==
    /\ latest = 1
    /\ disk = [a \in Artifacts |->
         IF a \in {"binary"} \cup Ships[1] THEN [NoFiles EXCEPT !["live"] = 1] ELSE NoFiles]
    /\ receipt = <<>>
    /\ pc = [p \in Processes |-> "off"]
    /\ image = [p \in Processes |-> 1]
    /\ marked = [p \in Processes |-> FALSE]
    /\ by = [p \in Processes |-> "nobody"]
    /\ told = [p \in Processes |-> 0] /\ tag = [p \in Processes |-> 0]
    /\ busy = [p \in Processes |-> FALSE]
    /\ faults = 0
    /\ mishaps = IF Ships[1] = Extras THEN {} ELSE {"partial"}

----------------------------------------------------------------------------
(* Versions and the process's place in its work *)

\* The VERSION compiled into a release's binary.
Says_Before(r) == r - 1
Says(r) == IF r \in Stale THEN r - 1 ELSE r

IsNewer_OrSame(p) == latest >= Says(image[p])
IsNewer(p) == latest > Says(image[p])

Goto(p, stage) == pc' = [pc EXCEPT ![p] = stage]
At(p, stage) == pc[p] = stage
Mishap(m, happened) == mishaps' = IF happened THEN mishaps \cup {m} ELSE mishaps

\* applyUpdate() is called.
Applying(p, who) ==
    /\ by' = [by EXCEPT ![p] = who]
    /\ told' = [told EXCEPT ![p] = latest]
    /\ Goto(p, "resolving")
    /\ UNCHANGED <<tag, busy>>

\* The update is over, one way or the other, and the process goes on.
Ends(p, stage) ==
    /\ by' = [by EXCEPT ![p] = "nobody"]
    /\ told' = [told EXCEPT ![p] = 0]
    /\ tag' = [tag EXCEPT ![p] = 0]
    /\ busy' = [busy EXCEPT ![p] = FALSE]
    /\ Goto(p, stage)

----------------------------------------------------------------------------
(* Releases, people and the machine (environment) *)

Publish ==
    /\ latest < NumReleases
    /\ latest' = latest + 1
    /\ UNCHANGED <<diskVars, updateVars, procVars, faultVars, pc>>

\* While an idle agent applies an update, a turn, a delivery or an approval comes
\* in, or is over.
WorkChanges(p) ==
    /\ by[p] = "periodic" /\ ~At(p, "handover")
    /\ busy' = [busy EXCEPT ![p] = ~@]
    /\ UNCHANGED <<releaseVars, diskVars, by, told, tag, procVars, faultVars, pc>>

Launch(p) ==
    /\ At(p, "off") /\ disk["binary"]["live"] # 0
    /\ image' = [image EXCEPT ![p] = disk["binary"]["live"]]
    /\ marked' = [marked EXCEPT ![p] = FALSE]
    /\ Goto(p, "starting")
    /\ UNCHANGED <<releaseVars, diskVars, updateVars, faultVars>>

\* A process that is not in the middle of work on the disk ends.
Quits(p) ==
    /\ pc[p] \notin OnDisk \cup {"off"}
    /\ Ends(p, "off")
    /\ UNCHANGED <<releaseVars, diskVars, procVars, faultVars>>

Crashes(p) ==
    /\ pc[p] \in OnDisk /\ faults < MaxFaults
    /\ faults' = faults + 1
    /\ Mishap("failed", TRUE)
    /\ Ends(p, "off")
    /\ UNCHANGED <<releaseVars, diskVars, procVars>>

----------------------------------------------------------------------------
(* runLaunchAutoUpdate() *)

\* Restarted by an update, switched off, no answer in time, or current already.
StartsAsIs(p) ==
    /\ At(p, "starting")
    /\ marked' = [marked EXCEPT ![p] = FALSE]
    /\ Goto(p, "up")
    /\ UNCHANGED <<releaseVars, diskVars, updateVars, image, faultVars>>

UpdatesAtLaunch(p) ==
    /\ At(p, "starting") /\ ~marked[p]
    /\ IsNewer(p)
    /\ Applying(p, "launch")
    /\ UNCHANGED <<releaseVars, diskVars, procVars, faultVars>>

(* AgentPeriodicUpdater.runCheck() and /update apply *)

\* The check lands at a moment when nothing is in flight; at any other it defers
\* and changes nothing.
UpdatesWhenIdle(p) ==
    /\ At(p, "up")
    /\ IsNewer(p)
    /\ Applying(p, "periodic")
    /\ UNCHANGED <<releaseVars, diskVars, procVars, faultVars>>

UpdatesOnCommand(p) ==
    /\ At(p, "up")
    /\ Applying(p, "command")
    /\ UNCHANGED <<releaseVars, diskVars, procVars, faultVars>>

----------------------------------------------------------------------------
(* applyUpdate() *)

\* It asks for the latest release again; "moved": not the one the check found.
Resolve(p) ==
    /\ At(p, "resolving")
    /\ IF IsNewer(p) /\ Prebuilt
       THEN /\ tag' = [tag EXCEPT ![p] = latest]
            /\ Mishap("moved", latest # told[p])
            /\ Goto(p, "downloading")
       ELSE Goto(p, "applied") /\ UNCHANGED <<tag, mishaps>>
    /\ UNCHANGED <<releaseVars, diskVars, by, told, busy, procVars, faults>>

\* Everything is fetched, verified and unpacked in memory before the first swap.
FetchFails(p) ==
    /\ pc[p] \in {"resolving", "downloading"}
    /\ Ends(p, "up")
    /\ UNCHANGED <<releaseVars, diskVars, procVars, faultVars>>

\* swapFileAtomically (external): the outgoing file is kept.
Swapped(files, r) ==
    [files EXCEPT !["previous"] = IF files["live"] = 0 THEN @ ELSE files["live"],
                  !["live"] = r]

\* "overlapped": another agent is at work on the same files.
Shared(p) == \E q \in Processes \ {p} : pc[q] \in OnDisk \cup Finishing

\* "reapplied": the binary replaced is not of the version this process states.
SwapBinary(p) ==
    /\ At(p, "downloading")
    /\ disk' = [disk EXCEPT !["binary"] = Swapped(@, tag[p])]
    /\ mishaps' = mishaps \cup
         {m \in {"overlapped", "reapplied", "partial"} :
            \/ m = "overlapped" /\ Shared(p)
            \/ m = "reapplied" /\ disk["binary"]["live"] # Says(image[p])
            \/ m = "partial" /\ Ships[tag[p]] # Extras}
    /\ Goto(p, "addon")
    /\ UNCHANGED <<releaseVars, receipt, updateVars, procVars, faults>>

\* An extra the release does not publish is left as it is.
Provides(p, extra) == extra \in Ships[tag[p]]

SwapAddon(p) ==
    /\ At(p, "addon")
    /\ disk' = IF Provides(p, "addon")
               THEN [disk EXCEPT !["addon"] = Swapped(@, tag[p])] ELSE disk
    /\ Goto(p, IF Provides(p, "driver") THEN "extract" ELSE "applied")
    /\ UNCHANGED <<releaseVars, receipt, updateVars, procVars, faultVars>>

----------------------------------------------------------------------------
(* swapDirectory() and rollbackDirectory(), one call of the disk at a time *)

Driver == disk["driver"]
CanRename(from, to) == Driver[from] # 0 /\ Driver[to] = 0
Rename(from, to) ==
    disk' = [disk EXCEPT !["driver"][to] = Driver[from], !["driver"][from] = 0]
RemoveTree(n) == disk' = [disk EXCEPT !["driver"][n] = 0]

\* removeTree(incoming) and extractArchive into it.
Extract_AfterRemovingLive(p) ==
    /\ At(p, "extract")
    /\ disk' = [disk EXCEPT !["driver"] = [@ EXCEPT !["incoming"] = tag[p],
                                                   !["live"] = 0, !["previous"] = 0]]
    /\ Goto(p, "promote")
Extract(p) ==
    /\ At(p, "extract")
    /\ disk' = [disk EXCEPT !["driver"]["incoming"] = tag[p]]
    /\ Goto(p, IF Driver["live"] # 0 THEN "clear" ELSE "promote")

ClearKept(p)  == At(p, "clear") /\ RemoveTree("previous") /\ Goto(p, "park")
ParkDriver(p) == At(p, "park") /\ CanRename("live", "previous")
                 /\ Rename("live", "previous") /\ Goto(p, "promote")
Promote(p)    == At(p, "promote") /\ CanRename("incoming", "live")
                 /\ Rename("incoming", "live") /\ Goto(p, "applied")

\* removeTree(scratch), after finding that something is kept.
DriverBack(p) ==
    /\ At(p, "driverBack")
    /\ IF Driver["previous"] = 0
       THEN Goto(p, "up") /\ UNCHANGED disk
       ELSE /\ RemoveTree("rolling")
            /\ Goto(p, IF Driver["live"] # 0 THEN "setAside" ELSE "restore")
SetAside(p) == At(p, "setAside") /\ CanRename("live", "rolling")
               /\ Rename("live", "rolling") /\ Goto(p, "restore")
Restore(p)  == At(p, "restore") /\ CanRename("previous", "live")
               /\ Rename("previous", "live")
               /\ Goto(p, IF Driver["rolling"] # 0 THEN "keep" ELSE "up")
Keep(p)     == At(p, "keep") /\ CanRename("rolling", "previous")
               /\ Rename("rolling", "previous") /\ Goto(p, "up")

DriverStep(p) ==
    /\ \/ Extract(p) \/ ClearKept(p) \/ ParkDriver(p) \/ Promote(p)
       \/ DriverBack(p) \/ SetAside(p) \/ Restore(p) \/ Keep(p)
    /\ UNCHANGED <<releaseVars, receipt, updateVars, procVars, faultVars>>

\* The files rollbackUpdate() exchanges; the driver follows on its own.
RollbackTargets_BinaryOnly == {"binary"}
RollbackTargets == {"binary", "addon"}

Exchanged(files) ==
    IF files["previous"] = 0 THEN files
    ELSE [files EXCEPT !["live"] = files["previous"], !["previous"] = files["live"]]

RollBack(p) ==
    /\ At(p, "up")
    /\ disk' = [a \in Artifacts |->
         IF a \in RollbackTargets THEN Exchanged(disk[a]) ELSE disk[a]]
    /\ Mishap("overlapped", Shared(p))
    /\ Goto(p, "driverBack")
    /\ UNCHANGED <<releaseVars, receipt, updateVars, procVars, faults>>

\* A call of the disk throws: the update or the rollback is reported failed and
\* the process goes on, on the binary it runs.  A rename throws by itself when its
\* source is gone or its target is there.
Impossible(p) ==
    \/ At(p, "park") /\ ~CanRename("live", "previous")
    \/ At(p, "promote") /\ ~CanRename("incoming", "live")
    \/ At(p, "setAside") /\ ~CanRename("live", "rolling")
    \/ At(p, "restore") /\ ~CanRename("previous", "live")
    \/ At(p, "keep") /\ ~CanRename("rolling", "previous")

DiskFails(p) ==
    /\ pc[p] \in OnDisk
    /\ \/ Impossible(p) /\ UNCHANGED faults
       \/ faults < MaxFaults /\ faults' = faults + 1
    /\ Mishap("failed", TRUE)
    /\ Ends(p, "up")
    /\ UNCHANGED <<releaseVars, diskVars, procVars>>

----------------------------------------------------------------------------
(* What follows applyUpdate(): the receipt, and the new binary *)

Recorded_Swapped(p) == <<told[p], Says(image[p])>>
Recorded(p) == <<Says(image[p]), told[p]>>

\* recordSelfUpdate() and restartNow(); /update apply only prints.
Finishes(p) ==
    /\ At(p, "applied")
    /\ IF by[p] = "command"
       THEN Ends(p, "up") /\ UNCHANGED receipt
       ELSE /\ receipt' = Recorded(p)
            /\ Goto(p, "handover")
            /\ UNCHANGED updateVars
    /\ UNCHANGED <<releaseVars, disk, procVars, faultVars>>

\* restartOntoUpdatedBinary(): this process waits for the new one and adds nothing.
Marks_Never == FALSE
Marks == TRUE

HandsOver(p) ==
    /\ At(p, "handover") /\ disk["binary"]["live"] # 0
    /\ image' = [image EXCEPT ![p] = disk["binary"]["live"]]
    /\ marked' = [marked EXCEPT ![p] = Marks]
    /\ Ends(p, "starting")
    /\ UNCHANGED <<releaseVars, diskVars, faultVars>>

----------------------------------------------------------------------------
Update(p) ==
    \/ UpdatesAtLaunch(p) \/ StartsAsIs(p)
    \/ Resolve(p) \/ FetchFails(p)
    \/ SwapBinary(p) \/ SwapAddon(p) \/ DriverStep(p) \/ DiskFails(p)
    \/ Finishes(p) \/ HandsOver(p)

Next ==
    \/ Publish
    \/ \E p \in Processes :
         \/ Update(p)
         \/ UpdatesWhenIdle(p) \/ UpdatesOnCommand(p) \/ RollBack(p)
         \/ WorkChanges(p) \/ Launch(p) \/ Quits(p) \/ Crashes(p)

Spec == Init /\ [][Next]_vars

\* Awaited calls settle and a launch goes on; nothing forces a person, a release,
\* a crash or the loop of an idle agent.
FairSpec == Spec /\ \A p \in Processes : WF_vars(Update(p))

----------------------------------------------------------------------------
(* Properties *)

Undisturbed(harmless) == mishaps \subseteq harmless
Untouched == \A p \in Processes : pc[p] \notin OnDisk

\* "/update never leaves a new binary beside a stale addon", nor a driver of
\* another release, forward or back: as long as every release publishes all of
\* them, one agent at a time works on the install, and nothing fails.
Lockstep ==
    Undisturbed({"moved", "reapplied"}) /\ Untouched =>
      \A a \in Extras : disk[a]["live"] = disk["binary"]["live"]

\* Whatever crashes or fails, a driver that was installed is on disk under the
\* name the agent or the next rollback looks for, at every single step.
DriverSurvives ==
    "driver" \in Ships[1] /\ "overlapped" \notin mishaps =>
      Driver["live"] # 0 \/ Driver["previous"] # 0

\* An installed agent stays complete: the artifacts are of one release, and none is lost.
InstallIsWhole == Lockstep /\ DriverSurvives

\* "Every swap keeps the replaced file ... so /update rollback can undo it": the
\* kept binary is another release than the live one, however updates, rollbacks
\* and several agents interleave, unless an agent updates an install that was
\* already updated under it.
RollbackUndoes ==
    Undisturbed({"overlapped", "moved", "partial", "failed"}) =>
      disk["binary"]["previous"] # disk["binary"]["live"]

\* "Were you replaced?" gets "a straight answer": when an agent hands over to the
\* binary it installed, the last receipt names the release that is live and the one
\* that is "kept at .previous".
ReceiptAnswers ==
    Undisturbed({"partial", "failed"}) =>
      \A p \in Processes :
        At(p, "handover") => receipt = <<disk["binary"]["previous"], disk["binary"]["live"]>>

\* Both together: what is kept for an update's undoing, and what is said of it, is so.
UpdateIsAccounted == RollbackUndoes /\ ReceiptAnswers

\* An agent that is started gets past its own updater: "structurally unable to
\* restart-loop", even on a release whose binary states the version before it.
LaunchCompletes ==
    \A p \in Processes : At(p, "starting") ~> pc[p] \in {"up", "off"}

\* "A swap-and-restart is only allowed at a moment when nothing is in flight."
RestartsOnlyIdle ==
    [][\A p \in Processes :
         (At(p, "applied") /\ pc'[p] = "handover") => ~busy[p]]_vars
=============================================================================
