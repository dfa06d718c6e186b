------------------------- MODULE SelfUpdate_proofs -------------------------
(***************************************************************************)
(* Proofs about SelfUpdate for any processes, releases, extras and stale   *)
(* binaries, and any number of crashes and failures.                       *)
(***************************************************************************)
EXTENDS SelfUpdate, TLAPS

USE ConstantsAssumption DEF releaseVars, diskVars, updateVars, procVars, faultVars

\* Work on an update, from the call of applyUpdate() to the hand-over.
AtWork == {"resolving", "downloading"} \cup Swapping \cup Finishing

\* An update under way has someone who asked for it and a release its check found;
\* the launch and the loop ask only for a newer one, and what is downloaded is newer.
UpdateIsNamed ==
    \A p \in Processes :
      /\ by[p] # "nobody" <=> pc[p] \in AtWork
      /\ pc[p] \in AtWork => told[p] # 0
      /\ by[p] \in {"launch", "periodic"} => IsNewer(p)
      /\ pc[p] \in {"downloading"} \cup Swapping => tag[p] > Says(image[p])

StageInv == TypeOK /\ UpdateIsNamed

\* The version a binary states is that of some release.
LEMMA SaysType == \A r \in Releases : Says(r) \in Releases
  BY DEF Says, Releases

\* A call of the disk on the driver leaves the other artifacts alone, and each of
\* the driver's names what it was or what another name or the download was.
LEMMA DriverFiles ==
  ASSUME TypeOK, NEW n \in Names, NEW m \in Names, NEW r \in 0 .. NumReleases,
         \/ disk' = [disk EXCEPT !["driver"][n] = r] \/ RemoveTree(n) \/ Rename(m, n)
  PROVE  disk' \in [Artifacts -> [Names -> 0 .. NumReleases]]
<1>1. "driver" \in Artifacts /\ Driver \in [Names -> 0 .. NumReleases]
  BY DEF TypeOK, Driver, Artifacts, Extras
<1>2. 0 \in 0 .. NumReleases /\ Driver[m] \in 0 .. NumReleases
  BY <1>1
<1>3. \E f \in [Names -> 0 .. NumReleases] : disk' = [disk EXCEPT !["driver"] = f]
  <2>1. /\ [Driver EXCEPT ![n] = r] \in [Names -> 0 .. NumReleases]
        /\ [Driver EXCEPT ![n] = 0] \in [Names -> 0 .. NumReleases]
        /\ [Driver EXCEPT ![n] = Driver[m], ![m] = 0] \in [Names -> 0 .. NumReleases]
    BY <1>1, <1>2
  <2>2. \/ disk' = [disk EXCEPT !["driver"] = [Driver EXCEPT ![n] = r]]
        \/ disk' = [disk EXCEPT !["driver"] = [Driver EXCEPT ![n] = 0]]
        \/ disk' = [disk EXCEPT !["driver"] = [Driver EXCEPT ![n] = Driver[m], ![m] = 0]]
    BY <1>1 DEF RemoveTree, Rename, Driver, TypeOK
  <2>. QED  BY <2>1, <2>2
<1>. QED  BY <1>1, <1>3 DEF TypeOK

\* A step of the driver's swap or rollback moves the driver's names only, and
\* its process to the next step of the same.
LEMMA DriverStepType ==
  ASSUME TypeOK, NEW p \in Processes, DriverStep(p)
  PROVE  /\ disk' \in [Artifacts -> [Names -> 0 .. NumReleases]]
         /\ \/ /\ pc[p] \in Swapping
               /\ \E stage \in {"clear", "park", "promote", "applied"} : Goto(p, stage)
            \/ /\ pc[p] \in Rolling
               /\ \E stage \in {"setAside", "restore", "keep", "up"} : Goto(p, stage)
<1>1. Names = {"live", "previous", "incoming", "rolling"}
  BY DEF Names
<1>2. disk' \in [Artifacts -> [Names -> 0 .. NumReleases]]
  <2>1. CASE Extract(p)
    <3>1. tag[p] \in 0 .. NumReleases
      BY DEF TypeOK
    <3>. QED  BY <2>1, <1>1, <3>1, DriverFiles DEF Extract
  <2>2. CASE ClearKept(p) \/ ParkDriver(p) \/ Promote(p)
    BY <2>2, <1>1, DriverFiles DEF ClearKept, ParkDriver, Promote
  <2>3. CASE DriverBack(p)
    BY <2>3, <1>1, DriverFiles DEF DriverBack, TypeOK
  <2>4. CASE SetAside(p) \/ Restore(p) \/ Keep(p)
    BY <2>4, <1>1, DriverFiles DEF SetAside, Restore, Keep
  <2>. QED  BY <2>1, <2>2, <2>3, <2>4 DEF DriverStep
<1>. QED
  BY <1>2 DEF DriverStep, Extract, ClearKept, ParkDriver, Promote, DriverBack, SetAside,
     Restore, Keep, At, Swapping, Rolling

\* What an update's end leaves.
LEMMA EndsType ==
  ASSUME StageInv, NEW p \in Processes, NEW stage \in {"off", "starting", "up"},
         Ends(p, stage), \A q \in Processes \ {p} : image'[q] = image[q], UNCHANGED latest
  PROVE  /\ by' \in [Processes -> {"nobody", "launch", "periodic", "command"}]
         /\ told' \in [Processes -> 0 .. NumReleases]
         /\ tag' \in [Processes -> 0 .. NumReleases]
         /\ busy' \in [Processes -> BOOLEAN]
         /\ pc' \in [Processes -> Stages]
         /\ UpdateIsNamed'
<1>1. stage \in Stages
  BY DEF Stages
<1>2. stage \notin AtWork \cup {"downloading"} \cup Swapping
  BY DEF AtWork, Swapping, Finishing
<1>3. UpdateIsNamed'
  BY <1>2 DEF StageInv, TypeOK, UpdateIsNamed, Ends, Goto, IsNewer
<1>. QED  BY <1>1, <1>3 DEF StageInv, TypeOK, Ends, Goto

\* A process that goes to another stage of an update it has begun.
LEMMA GotoType ==
  ASSUME StageInv, NEW p \in Processes, NEW stage \in Stages, Goto(p, stage),
         UNCHANGED <<latest, image, by, told, tag>>,
         stage \in AtWork <=> pc[p] \in AtWork,
         stage \in {"downloading"} \cup Swapping => pc[p] \in {"downloading"} \cup Swapping
  PROVE  pc' \in [Processes -> Stages] /\ UpdateIsNamed'
  BY DEF StageInv, TypeOK, UpdateIsNamed, Goto, IsNewer

\* A call of applyUpdate() is one for the release its check found.
LEMMA ApplyingType ==
  ASSUME StageInv, NEW p \in Processes, NEW who \in {"launch", "periodic", "command"},
         Applying(p, who), who # "command" => IsNewer(p), UNCHANGED <<latest, image>>
  PROVE  /\ by' \in [Processes -> {"nobody", "launch", "periodic", "command"}]
         /\ told' \in [Processes -> 0 .. NumReleases]
         /\ pc' \in [Processes -> Stages]
         /\ UNCHANGED <<tag, busy>>
         /\ UpdateIsNamed'
<1>1. latest \in Releases /\ latest # 0 /\ latest \in 0 .. NumReleases
  BY DEF StageInv, TypeOK, Releases
<1>2. /\ "resolving" \in Stages \cap AtWork
      /\ "resolving" \notin {"downloading"} \cup Swapping
  BY DEF Stages, AtWork, Swapping
<1>3. UpdateIsNamed'
  BY <1>1, <1>2 DEF StageInv, TypeOK, UpdateIsNamed, Applying, Goto, IsNewer
<1>. QED  BY <1>1, <1>2, <1>3 DEF StageInv, TypeOK, Applying, Goto

\* Files swapped or exchanged are files.
LEMMA SwappedType ==
  ASSUME NEW files \in [Names -> 0 .. NumReleases], NEW r \in 0 .. NumReleases
  PROVE  /\ Swapped(files, r) \in [Names -> 0 .. NumReleases]
         /\ Exchanged(files) \in [Names -> 0 .. NumReleases]
  BY DEF Swapped, Exchanged, Names

\* Every variable keeps its type, and an update under way is named.
LEMMA StagesHold == Spec => []StageInv
<1>1. Init => StageInv
  <2>1. ASSUME Init
        PROVE  disk \in [Artifacts -> [Names -> 0 .. NumReleases]]
    <3>1. 0 \in 0 .. NumReleases /\ 1 \in 0 .. NumReleases
      OBVIOUS
    <3>2. NoFiles \in [Names -> 0 .. NumReleases]
      BY <3>1 DEF NoFiles
    <3>3. [NoFiles EXCEPT !["live"] = 1] \in [Names -> 0 .. NumReleases]
      BY <3>1, <3>2
    <3>. QED  BY <2>1, <3>2, <3>3 DEF Init
  <2>. QED  BY <2>1 DEF Init, StageInv, TypeOK, UpdateIsNamed, Stages, Releases, AtWork,
            Swapping, Finishing
<1>2. ASSUME StageInv, [Next]_vars
      PROVE  StageInv'
  <2>. USE <1>2 DEF StageInv
  <2>1. CASE Publish
    <3>1. latest' \in Releases /\ latest' > latest
      BY <2>1 DEF Publish, TypeOK, Releases
    <3>2. \A p \in Processes : Says(image[p]) \in Releases /\ (IsNewer(p) => IsNewer(p)')
      BY <2>1, <3>1, SaysType DEF Publish, TypeOK, IsNewer, Releases
    <3>. QED  BY <2>1, <3>1, <3>2 DEF Publish, TypeOK, UpdateIsNamed
  <2>2. ASSUME NEW p \in Processes, WorkChanges(p)
        PROVE  StageInv'
    BY <2>2 DEF WorkChanges, TypeOK, UpdateIsNamed, IsNewer
  <2>3. ASSUME NEW p \in Processes, Launch(p)
        PROVE  StageInv'
    <3>1. disk["binary"]["live"] \in Releases
      BY <2>3 DEF Launch, TypeOK, Artifacts, Names, Releases
    <3>2. "starting" \in Stages /\ "starting" \notin AtWork \cup {"downloading"} \cup Swapping
      BY DEF Stages, AtWork, Swapping, Finishing
    <3>3. by[p] = "nobody"
      BY <2>3 DEF Launch, At, UpdateIsNamed, AtWork, Swapping, Finishing
    <3>. QED  BY <2>3, <3>1, <3>2, <3>3 DEF Launch, TypeOK, UpdateIsNamed, Goto, IsNewer
  <2>4. ASSUME NEW p \in Processes, Quits(p)
        PROVE  StageInv'
    BY <2>4, EndsType DEF Quits, TypeOK
  <2>5. ASSUME NEW p \in Processes, Crashes(p) \/ DiskFails(p)
        PROVE  StageInv'
    <3>1. faults' \in 0 .. MaxFaults /\ mishaps' \subseteq mishaps \cup {"failed"}
      BY <2>5 DEF Crashes, DiskFails, Mishap, TypeOK
    <3>. QED  BY <2>5, <3>1, EndsType DEF Crashes, DiskFails, TypeOK
  <2>6. ASSUME NEW p \in Processes, StartsAsIs(p)
        PROVE  StageInv'
    <3>1. /\ "up" \in Stages /\ "up" \notin AtWork \cup {"downloading"} \cup Swapping
          /\ pc[p] \notin AtWork
      BY <2>6 DEF StartsAsIs, At, Stages, AtWork, Swapping, Finishing
    <3>. QED  BY <2>6, <3>1, GotoType DEF StartsAsIs, TypeOK
  <2>7. ASSUME NEW p \in Processes, UpdatesAtLaunch(p) \/ UpdatesWhenIdle(p) \/ UpdatesOnCommand(p)
        PROVE  StageInv'
    BY <2>7, ApplyingType DEF UpdatesAtLaunch, UpdatesWhenIdle, UpdatesOnCommand,
       TypeOK
  <2>8. ASSUME NEW p \in Processes, Resolve(p)
        PROVE  StageInv'
    <3>1. latest \in Releases /\ latest # 0 /\ latest \in 0 .. NumReleases
      BY DEF TypeOK, Releases
    <3>2. {"downloading", "applied"} \subseteq Stages \cap AtWork /\ "resolving" \in AtWork
      BY DEF Stages, Finishing, AtWork
    <3>3. "applied" \notin {"downloading"} \cup Swapping
      BY DEF Swapping
    <3>4. mishaps' \subseteq mishaps \cup {"moved"} /\ UNCHANGED <<latest, image, told, by>>
      BY <2>8 DEF Resolve, Mishap
    <3>5. \/ tag' = [tag EXCEPT ![p] = latest] /\ Goto(p, "downloading") /\ IsNewer(p)
          \/ tag' = tag /\ Goto(p, "applied")
      BY <2>8 DEF Resolve
    <3>6. tag' \in [Processes -> 0 .. NumReleases] /\ pc' \in [Processes -> Stages]
      <4>1. tag \in [Processes -> 0 .. NumReleases] /\ pc \in [Processes -> Stages]
        BY DEF TypeOK
      <4>2. tag' \in [Processes -> 0 .. NumReleases]
        BY <3>1, <3>5, <4>1
      <4>3. "downloading" \in Stages /\ "applied" \in Stages
        BY <3>2
      <4>. QED  BY <3>5, <4>1, <4>2, <4>3 DEF Goto
    <3>7. pc[p] \in AtWork
      BY <2>8, <3>2 DEF Resolve, At
    <3>8. UpdateIsNamed'
      <4>1. CASE tag' = [tag EXCEPT ![p] = latest] /\ Goto(p, "downloading") /\ IsNewer(p)
        BY <3>1, <3>2, <3>4, <3>7, <4>1 DEF Goto, TypeOK, UpdateIsNamed, IsNewer
      <4>2. CASE tag' = tag /\ Goto(p, "applied")
        BY <3>2, <3>3, <3>4, <3>7, <4>2, GotoType
      <4>. QED  BY <3>5, <4>1, <4>2
    <3>. QED  BY <2>8, <3>4, <3>6, <3>8 DEF Resolve, TypeOK
  <2>9. ASSUME NEW p \in Processes, FetchFails(p)
        PROVE  StageInv'
    BY <2>9, EndsType DEF FetchFails, TypeOK
  <2>10. ASSUME NEW p \in Processes, SwapBinary(p)
         PROVE  StageInv'
    <3>1. disk' \in [Artifacts -> [Names -> 0 .. NumReleases]]
      BY <2>10, SwappedType DEF SwapBinary, TypeOK
    <3>2. /\ "addon" \in Stages \cap AtWork
          /\ pc[p] \in AtWork /\ pc[p] \in {"downloading"} \cup Swapping
      BY <2>10 DEF SwapBinary, At, Stages, OnDisk, Swapping, AtWork
    <3>. QED  BY <2>10, <3>1, <3>2, GotoType DEF SwapBinary, TypeOK
  <2>11. ASSUME NEW p \in Processes, SwapAddon(p)
         PROVE  StageInv'
    <3>1. disk' \in [Artifacts -> [Names -> 0 .. NumReleases]]
      BY <2>11, SwappedType DEF SwapAddon, TypeOK
    <3>2. /\ {"extract", "applied"} \subseteq Stages \cap AtWork
          /\ "applied" \notin {"downloading"} \cup Swapping
          /\ pc[p] \in AtWork /\ pc[p] \in {"downloading"} \cup Swapping
      BY <2>11 DEF SwapAddon, At, Stages, OnDisk, Swapping, AtWork, Finishing
    <3>. QED  BY <2>11, <3>1, <3>2, GotoType DEF SwapAddon, TypeOK
  <2>12. ASSUME NEW p \in Processes, DriverStep(p)
         PROVE  StageInv'
    <3>1. PICK stage \in Stages :
            /\ Goto(p, stage)
            /\ stage \in AtWork <=> pc[p] \in AtWork
            /\ stage \in {"downloading"} \cup Swapping => pc[p] \in {"downloading"} \cup Swapping
      BY <2>12, DriverStepType DEF Stages, OnDisk, AtWork, Swapping, Rolling, Finishing
    <3>. QED  BY <2>12, <3>1, GotoType, DriverStepType DEF DriverStep, TypeOK
  <2>13. ASSUME NEW p \in Processes, RollBack(p)
         PROVE  StageInv'
    <3>1. disk' \in [Artifacts -> [Names -> 0 .. NumReleases]]
      BY <2>13, SwappedType DEF RollBack, TypeOK
    <3>2. /\ "driverBack" \in Stages /\ "driverBack" \notin AtWork \cup {"downloading"} \cup Swapping
          /\ pc[p] \notin AtWork
      BY <2>13 DEF RollBack, At, Stages, OnDisk, Rolling, AtWork, Swapping, Finishing
    <3>. QED  BY <2>13, <3>1, <3>2, GotoType DEF RollBack, Mishap, TypeOK
  <2>14. ASSUME NEW p \in Processes, Finishes(p)
         PROVE  StageInv'
    <3>1. pc[p] \in AtWork /\ told[p] # 0
      BY <2>14 DEF Finishes, At, AtWork, Finishing, UpdateIsNamed
    <3>2. Recorded(p) \in Releases \X Releases
      BY <3>1, SaysType DEF Recorded, TypeOK, Releases
    <3>3. "handover" \in Stages \cap AtWork /\ "handover" \notin {"downloading"} \cup Swapping
      BY DEF Stages, AtWork, Finishing, Swapping
    <3>4. CASE by[p] = "command"
      BY <2>14, <3>4, EndsType DEF Finishes, TypeOK
    <3>5. CASE by[p] # "command"
      BY <2>14, <3>1, <3>2, <3>3, <3>5, GotoType DEF Finishes, TypeOK
    <3>. QED  BY <3>4, <3>5
  <2>15. ASSUME NEW p \in Processes, HandsOver(p)
         PROVE  StageInv'
    <3>1. disk["binary"]["live"] \in Releases
      BY <2>15 DEF HandsOver, TypeOK, Artifacts, Names, Releases
    <3>. QED  BY <2>15, <3>1, EndsType DEF HandsOver, Marks, TypeOK
  <2>16. CASE UNCHANGED vars
    BY <2>16 DEF vars, TypeOK, UpdateIsNamed, IsNewer
  <2>. QED
    BY <2>1, <2>2, <2>3, <2>4, <2>5, <2>6, <2>7, <2>8, <2>9, <2>10, <2>11, <2>12, <2>13,
       <2>14, <2>15, <2>16 DEF Next, Update
<1>. QED  BY <1>1, <1>2, PTL DEF Spec

\* Every variable keeps its type.
THEOREM TypeCorrect == Spec => []TypeOK
  BY StagesHold, PTL DEF StageInv

----------------------------------------------------------------------------
\* The driver's swap and rollback touch neither the binary nor the addon.
LEMMA DriverStepAlone ==
  ASSUME TypeOK, NEW p \in Processes, DriverStep(p)
  PROVE  disk'["binary"] = disk["binary"] /\ disk'["addon"] = disk["addon"]
  BY DEF TypeOK, Artifacts, Extras, DriverStep, Extract, ClearKept, ParkDriver, Promote,
     DriverBack, SetAside, Restore, Keep, Rename, RemoveTree

\* What went wrong stays known, and only a swap or a rollback moves the binary.
LEMMA OtherSteps ==
  ASSUME StageInv, [Next]_vars
  PROVE  /\ mishaps \subseteq mishaps'
         /\ \/ disk'["binary"] = disk["binary"]
            \/ \E p \in Processes : SwapBinary(p) \/ RollBack(p)
<1>1. ASSUME NEW p \in Processes, DriverStep(p)
      PROVE  disk'["binary"] = disk["binary"] /\ mishaps' = mishaps
  BY <1>1, DriverStepAlone DEF StageInv, DriverStep
<1>2. ASSUME NEW p \in Processes, SwapAddon(p)
      PROVE  disk'["binary"] = disk["binary"] /\ mishaps' = mishaps
  BY <1>2 DEF StageInv, TypeOK, Artifacts, SwapAddon
<1>3. ASSUME NEW p \in Processes, Crashes(p) \/ DiskFails(p) \/ Resolve(p)
      PROVE  disk' = disk /\ mishaps \subseteq mishaps'
  BY <1>3 DEF Crashes, DiskFails, Resolve, Mishap
<1>4. ASSUME NEW p \in Processes, SwapBinary(p) \/ RollBack(p)
      PROVE  mishaps \subseteq mishaps'
  BY <1>4 DEF SwapBinary, RollBack, Mishap
<1>5. ASSUME NEW p \in Processes,
             \/ UpdatesAtLaunch(p) \/ StartsAsIs(p) \/ FetchFails(p) \/ Finishes(p)
             \/ HandsOver(p) \/ UpdatesWhenIdle(p) \/ UpdatesOnCommand(p)
             \/ WorkChanges(p) \/ Launch(p) \/ Quits(p)
      PROVE  disk' = disk /\ mishaps' = mishaps
  BY <1>5 DEF UpdatesAtLaunch, StartsAsIs, FetchFails, Finishes, HandsOver, UpdatesWhenIdle,
     UpdatesOnCommand, WorkChanges, Launch, Quits
<1>6. CASE Publish \/ UNCHANGED vars
  BY <1>6 DEF Publish, vars
<1>. QED  BY <1>1, <1>2, <1>3, <1>4, <1>5, <1>6 DEF Next, Update

----------------------------------------------------------------------------
(* RollbackUndoes *)

\* There is always a binary, and what is kept beside it is another one.
BinaryInv == disk["binary"]["live"] # 0 /\ RollbackUndoes

\* What a swap and an exchange leave under the two names.
LEMMA SwappedFiles ==
  ASSUME TypeOK, NEW a \in Artifacts, NEW r \in 0 .. NumReleases
  PROVE  /\ Swapped(disk[a], r)["live"] = r
         /\ disk[a]["live"] # 0 => Swapped(disk[a], r)["previous"] = disk[a]["live"]
         /\ disk[a]["previous"] = 0 => Exchanged(disk[a]) = disk[a]
         /\ disk[a]["previous"] # 0 =>
              /\ Exchanged(disk[a])["live"] = disk[a]["previous"]
              /\ Exchanged(disk[a])["previous"] = disk[a]["live"]
  BY DEF TypeOK, Swapped, Exchanged, Names

LEMMA BinaryHolds == Spec => []BinaryInv
<1>1. Init => BinaryInv
  BY DEF Init, BinaryInv, RollbackUndoes, Artifacts, Names, NoFiles
<1>2. ASSUME StageInv, BinaryInv, [Next]_vars
      PROVE  BinaryInv'
  <2>. USE <1>2
  <2>1. ASSUME NEW p \in Processes, SwapBinary(p)
        PROVE  BinaryInv'
    <3>1. tag[p] \in 0 .. NumReleases /\ Says(image[p]) \in Releases /\ tag[p] > Says(image[p])
      BY <2>1, SaysType DEF SwapBinary, At, StageInv, TypeOK, UpdateIsNamed
    <3>2. disk'["binary"] = Swapped(disk["binary"], tag[p])
      BY <2>1 DEF SwapBinary, StageInv, TypeOK, Artifacts
    <3>3. /\ disk'["binary"]["live"] = tag[p]
          /\ disk'["binary"]["previous"] = disk["binary"]["live"]
      BY <3>1, <3>2, SwappedFiles DEF StageInv, BinaryInv, Artifacts
    <3>4. "reapplied" \in mishaps' \/ disk["binary"]["live"] = Says(image[p])
      BY <2>1 DEF SwapBinary
    <3>. QED  BY <3>1, <3>3, <3>4 DEF BinaryInv, RollbackUndoes, Undisturbed, Releases
  <2>2. ASSUME NEW p \in Processes, RollBack(p)
        PROVE  BinaryInv'
    <3>1. disk'["binary"] = Exchanged(disk["binary"]) /\ mishaps \subseteq mishaps'
      BY <2>2 DEF RollBack, Artifacts, RollbackTargets, Mishap
    <3>. QED  BY <3>1, SwappedFiles DEF StageInv, BinaryInv, RollbackUndoes, Undisturbed,
              Artifacts
  <2>. QED  BY <2>1, <2>2, OtherSteps DEF BinaryInv, RollbackUndoes, Undisturbed
<1>. QED  BY <1>1, <1>2, StagesHold, PTL DEF Spec

----------------------------------------------------------------------------
(* ReceiptAnswers *)

\* An update that is about to be recorded is not one of /update apply.
Recording(p)  == pc[p] \in Finishing /\ by[p] # "command"
Installing(p) == pc[p] \in OnDisk \/ Recording(p)
Installed(p)  == pc[p] \in Swapping \/ Recording(p)

\* One agent at a time installs, it installs what it was told of over what it
\* states, and its receipt is of that.
OneInstalls == \A p, q \in Processes : Installing(p) /\ Installing(q) => p = q
InstallsAsTold ==
    \A p \in Processes :
      /\ At(p, "downloading") => told[p] = tag[p]
      /\ Installed(p) => /\ disk["binary"]["live"] = told[p]
                         /\ disk["binary"]["previous"] = Says(image[p])
ReceiptIsOfThat ==
    \A p \in Processes :
      At(p, "handover") =>
        by[p] # "command" /\ receipt = <<disk["binary"]["previous"], disk["binary"]["live"]>>

AsOneWouldHope == Undisturbed({"partial", "failed"})
ReceiptInv == AsOneWouldHope => OneInstalls /\ InstallsAsTold /\ ReceiptIsOfThat

\* An update's end ends its claim on the installed files.
LEMMA EndsKeepsReceiptInv ==
  ASSUME StageInv, ReceiptInv, NEW p \in Processes, NEW stage \in {"off", "starting", "up"},
         Ends(p, stage), mishaps \subseteq mishaps', UNCHANGED diskVars,
         \A q \in Processes \ {p} : image'[q] = image[q]
  PROVE  ReceiptInv'
<1>1. stage \notin {"downloading", "handover"} \cup Finishing \cup Swapping \cup OnDisk
  BY DEF Finishing, OnDisk, Swapping, Rolling
<1>2. /\ ~Installing(p)' /\ ~Installed(p)' /\ ~At(p, "downloading")' /\ ~At(p, "handover")'
      /\ \A q \in Processes \ {p} :
           UNCHANGED <<pc[q], by[q], told[q], tag[q], image[q]>>
  BY <1>1 DEF Ends, Goto, StageInv, TypeOK, Installing, Installed, Recording, At
<1>3. \A q \in Processes \ {p} :
        /\ Installing(q)' <=> Installing(q)
        /\ Installed(q)' <=> Installed(q)
  BY <1>2 DEF Installing, Installed, Recording
<1>4. AsOneWouldHope' => AsOneWouldHope
  BY DEF AsOneWouldHope, Undisturbed
<1>. QED  BY <1>2, <1>3, <1>4 DEF ReceiptInv, OneInstalls, InstallsAsTold, ReceiptIsOfThat, At, Says

\* A step that installs nothing, and of a process that keeps its claim or has none.
LEMMA StepKeepsReceiptInv ==
  ASSUME StageInv, ReceiptInv, NEW p \in Processes, mishaps \subseteq mishaps',
         \A q \in Processes \ {p} : UNCHANGED <<pc[q], by[q], told[q], tag[q], image[q]>>,
         UNCHANGED <<disk["binary"], receipt>>,
         \/ /\ Installing(p)' => Installing(p)
            /\ Installed(p)' => Installed(p)
            /\ UNCHANGED <<by[p], told[p], tag[p], image[p]>>
         \/ ~Installing(p)' /\ ~Installed(p)',
         ~At(p, "handover")' /\ ~At(p, "downloading")'
  PROVE  ReceiptInv'
<1>1. \A q \in Processes \ {p} :
        /\ Installing(q)' <=> Installing(q)
        /\ Installed(q)' <=> Installed(q)
  BY DEF Installing, Installed, Recording
<1>2. AsOneWouldHope' => AsOneWouldHope
  BY DEF AsOneWouldHope, Undisturbed
<1>. QED  BY <1>1, <1>2 DEF ReceiptInv, OneInstalls, InstallsAsTold, ReceiptIsOfThat, At, Says

LEMMA ReceiptHolds ==
  ASSUME Prebuilt = TRUE
  PROVE  Spec => []ReceiptInv
<1>1. Init => ReceiptInv
  BY DEF Init, ReceiptInv, OneInstalls, InstallsAsTold, ReceiptIsOfThat, Installing, Installed,
     Recording, At, Swapping, Rolling, OnDisk, Finishing
<1>2. ASSUME StageInv, BinaryInv, ReceiptInv, [Next]_vars
      PROVE  ReceiptInv'
  <2>. USE <1>2
  <2>1. mishaps \subseteq mishaps'
    BY OtherSteps
  <2>2. AsOneWouldHope' => AsOneWouldHope
    BY <2>1 DEF AsOneWouldHope, Undisturbed
  <2>3. CASE Publish \/ UNCHANGED vars
    BY <2>3 DEF Publish, vars, ReceiptInv, OneInstalls, InstallsAsTold, ReceiptIsOfThat, At,
       Installing, Installed, Recording, AsOneWouldHope, Undisturbed, Says
  <2>4. ASSUME NEW p \in Processes, WorkChanges(p)
        PROVE  ReceiptInv'
    BY <2>4 DEF WorkChanges, ReceiptInv, OneInstalls, InstallsAsTold, ReceiptIsOfThat, At,
       Installing, Installed, Recording, AsOneWouldHope, Undisturbed, Says
  <2>5. ASSUME NEW p \in Processes, Launch(p) \/ StartsAsIs(p)
        PROVE  ReceiptInv'
    <3>1. {"starting", "up"} \cap ({"downloading", "handover"} \cup Finishing \cup Swapping \cup OnDisk) = {}
      BY DEF Finishing, OnDisk, Swapping, Rolling
    <3>2. pc'[p] \in {"starting", "up"}
      BY <2>5 DEF Launch, StartsAsIs, Goto, StageInv, TypeOK
    <3>3. ~Installing(p)' /\ ~Installed(p)' /\ ~At(p, "handover")' /\ ~At(p, "downloading")'
      BY <3>1, <3>2 DEF Installing, Installed, Recording, At
    <3>4. \A q \in Processes \ {p} : UNCHANGED <<pc[q], by[q], told[q], tag[q], image[q]>>
      BY <2>5 DEF Launch, StartsAsIs, Goto, StageInv, TypeOK
    <3>. QED  BY <2>1, <2>5, <3>3, <3>4, StepKeepsReceiptInv DEF Launch, StartsAsIs
  <2>6. ASSUME NEW p \in Processes, Quits(p) \/ Crashes(p) \/ FetchFails(p) \/ DiskFails(p)
        PROVE  ReceiptInv'
    BY <2>1, <2>6, EndsKeepsReceiptInv DEF Quits, Crashes, FetchFails, DiskFails
  <2>7. ASSUME NEW p \in Processes, UpdatesAtLaunch(p) \/ UpdatesWhenIdle(p) \/ UpdatesOnCommand(p)
        PROVE  ReceiptInv'
    <3>1. /\ pc' = [pc EXCEPT ![p] = "resolving"]
          /\ \A q \in Processes \ {p} : UNCHANGED <<pc[q], by[q], told[q], tag[q], image[q]>>
          /\ UNCHANGED diskVars
      BY <2>7 DEF UpdatesAtLaunch, UpdatesWhenIdle, UpdatesOnCommand, Applying, Goto, StageInv,
         TypeOK
    <3>2. pc'[p] = "resolving" /\ "resolving" \notin Finishing \cup Swapping \cup OnDisk
      BY <3>1 DEF StageInv, TypeOK, Finishing, OnDisk, Swapping, Rolling
    <3>3. ~Installing(p)' /\ ~Installed(p)' /\ ~At(p, "handover")' /\ ~At(p, "downloading")'
      BY <3>2 DEF Installing, Installed, Recording, At
    <3>. QED  BY <2>1, <3>1, <3>3, StepKeepsReceiptInv
  <2>8. ASSUME NEW p \in Processes, Resolve(p)
        PROVE  ReceiptInv'
    <3>1. CASE IsNewer(p)
      <4>1. /\ pc' = [pc EXCEPT ![p] = "downloading"] /\ tag' = [tag EXCEPT ![p] = latest]
            /\ UNCHANGED <<disk, receipt, by, told, image>>
            /\ "moved" \in mishaps' \/ latest = told[p]
        BY <2>8, <3>1 DEF Resolve, Goto, Mishap
      <4>2. "downloading" \notin Finishing \cup Swapping \cup OnDisk \cup {"handover"}
        BY DEF Finishing, OnDisk, Swapping, Rolling
      <4>3. /\ \A q \in Processes : Installing(q)' => Installing(q) /\ q # p
            /\ \A q \in Processes : Installed(q)' => Installed(q)
        BY <4>1, <4>2 DEF Installing, Installed, Recording, StageInv, TypeOK
      <4>4. AsOneWouldHope' => latest = told[p]
        BY <4>1 DEF AsOneWouldHope, Undisturbed
      <4>5. \A q \in Processes \ {p} : UNCHANGED <<pc[q], tag[q]>>
        BY <4>1
      <4>6. pc'[p] = "downloading" /\ tag'[p] = latest
        BY <4>1 DEF StageInv, TypeOK
      <4>. QED  BY <2>2, <4>1, <4>3, <4>4, <4>5, <4>6
                DEF ReceiptInv, OneInstalls, InstallsAsTold, ReceiptIsOfThat, At, Says
    <3>2. CASE ~IsNewer(p)
      <4>1. pc' = [pc EXCEPT ![p] = "applied"] /\ UNCHANGED <<disk, receipt, by, told, tag, image>>
        BY <2>8, <3>2 DEF Resolve, Goto
      <4>2. by[p] = "command"
        BY <2>8, <3>2 DEF Resolve, At, StageInv, TypeOK, UpdateIsNamed, AtWork
      <4>3. "applied" \notin Swapping \cup OnDisk
        BY DEF OnDisk, Swapping, Rolling
      <4>4. pc'[p] = "applied"
        BY <4>1 DEF StageInv, TypeOK
      <4>5. ~Installing(p)' /\ ~Installed(p)' /\ ~At(p, "handover")' /\ ~At(p, "downloading")'
        BY <4>1, <4>2, <4>3, <4>4 DEF Installing, Installed, Recording, At
      <4>. QED  BY <2>1, <4>1, <4>5, StepKeepsReceiptInv
    <3>. QED  BY <3>1, <3>2
  <2>9. ASSUME NEW p \in Processes, SwapBinary(p)
        PROVE  ReceiptInv'
    <3>. SUFFICES ASSUME AsOneWouldHope'
                  PROVE  OneInstalls' /\ InstallsAsTold' /\ ReceiptIsOfThat'
      BY DEF ReceiptInv
    <3>1. pc' = [pc EXCEPT ![p] = "addon"] /\ UNCHANGED <<receipt, by, told, tag, image>>
      BY <2>9 DEF SwapBinary, Goto
    <3>2. /\ ~Shared(p) /\ disk["binary"]["live"] = Says(image[p])
      BY <2>9 DEF SwapBinary, AsOneWouldHope, Undisturbed
    <3>3. \A q \in Processes \ {p} : ~Installing(q) /\ ~Installed(q) /\ pc[q] \notin Finishing
      BY <3>2 DEF Shared, Installing, Installed, Recording, OnDisk
    <3>4. \A q \in Processes \ {p} :
            ~Installing(q)' /\ ~Installed(q)' /\ pc'[q] = pc[q] /\ ~At(q, "handover")'
      BY <3>1, <3>3 DEF Installing, Installed, Recording, At, Finishing
    <3>5. told[p] = tag[p]
      BY <2>2, <2>9 DEF SwapBinary, ReceiptInv, InstallsAsTold
    <3>6. /\ disk'["binary"]["live"] = tag[p]
          /\ disk'["binary"]["previous"] = disk["binary"]["live"]
      <4>1. disk'["binary"] = Swapped(disk["binary"], tag[p])
        BY <2>9 DEF SwapBinary, StageInv, TypeOK, Artifacts
      <4>. QED  BY <4>1, SwappedFiles DEF StageInv, TypeOK, BinaryInv, Artifacts
    <3>7. pc'[p] = "addon" /\ ~At(p, "handover")' /\ ~At(p, "downloading")'
      BY <3>1 DEF StageInv, TypeOK, At
    <3>8. OneInstalls' /\ ReceiptIsOfThat'
      BY <3>4, <3>7 DEF OneInstalls, ReceiptIsOfThat
    <3>9. InstallsAsTold'
      BY <2>2, <3>1, <3>2, <3>4, <3>5, <3>6, <3>7 DEF InstallsAsTold, ReceiptInv, At, Says
    <3>. QED  BY <3>8, <3>9
  <2>10. ASSUME NEW p \in Processes, SwapAddon(p) \/ DriverStep(p)
         PROVE  ReceiptInv'
    <3>1. /\ UNCHANGED <<receipt, by, told, tag, image>>
          /\ \A q \in Processes \ {p} : pc'[q] = pc[q]
          /\ disk'["binary"] = disk["binary"]
      <4>1. \E stage : Goto(p, stage)
        BY <2>10, DriverStepType DEF SwapAddon, StageInv
      <4>. QED  BY <2>10, <4>1, DriverStepAlone DEF SwapAddon, DriverStep, StageInv, TypeOK,
                Artifacts, Goto
    <3>2. \/ pc[p] \in Swapping /\ pc'[p] \in Swapping \cup {"applied"}
          \/ pc[p] \in Rolling /\ pc'[p] \in Rolling \cup {"up"}
      BY <2>10, DriverStepType DEF SwapAddon, At, Goto, StageInv, TypeOK, Swapping, Rolling
    <3>3. ~At(p, "handover")' /\ ~At(p, "downloading")'
      BY <3>2 DEF At, Swapping, Rolling
    <3>4. (Installing(p)' => Installing(p)) /\ (Installed(p)' => Installed(p))
      BY <3>1, <3>2 DEF Installing, Installed, Recording, OnDisk, Swapping, Rolling, Finishing
    <3>. QED  BY <2>1, <3>1, <3>3, <3>4, StepKeepsReceiptInv
  <2>11. ASSUME NEW p \in Processes, RollBack(p)
         PROVE  ReceiptInv'
    <3>. SUFFICES ASSUME AsOneWouldHope'
                  PROVE  OneInstalls' /\ InstallsAsTold' /\ ReceiptIsOfThat'
      BY DEF ReceiptInv
    <3>1. pc' = [pc EXCEPT ![p] = "driverBack"] /\ UNCHANGED <<receipt, by, told, tag, image>>
      BY <2>11 DEF RollBack, Goto
    <3>2. ~Shared(p)
      BY <2>11 DEF RollBack, Mishap, AsOneWouldHope, Undisturbed
    <3>3. \A q \in Processes \ {p} :
            /\ ~Installing(q)' /\ ~Installed(q)' /\ pc'[q] = pc[q] /\ ~At(q, "handover")'
      BY <3>1, <3>2 DEF Shared, Installing, Installed, Recording, OnDisk, At, Finishing
    <3>4. pc'[p] = "driverBack" /\ "driverBack" \notin Swapping \cup Finishing
      BY <3>1 DEF StageInv, TypeOK, Swapping, Finishing
    <3>5. ~Installed(p)' /\ ~At(p, "handover")' /\ ~At(p, "downloading")'
      BY <3>4 DEF Installed, Recording, At
    <3>. QED  BY <2>2, <3>1, <3>3, <3>5
              DEF OneInstalls, InstallsAsTold, ReceiptIsOfThat, ReceiptInv, At
  <2>12. ASSUME NEW p \in Processes, Finishes(p)
         PROVE  ReceiptInv'
    <3>1. CASE by[p] = "command"
      BY <2>1, <2>12, <3>1, EndsKeepsReceiptInv DEF Finishes
    <3>2. CASE by[p] # "command"
      <4>1. /\ receipt' = <<Says(image[p]), told[p]>>
            /\ pc' = [pc EXCEPT ![p] = "handover"]
            /\ UNCHANGED <<disk, by, told, tag, image>>
        BY <2>12, <3>2 DEF Finishes, Recorded, Goto
      <4>2. Installing(p) /\ Installed(p) /\ "handover" \in Finishing \ (Swapping \cup OnDisk)
        BY <2>12, <3>2 DEF Finishes, Installing, Installed, Recording, At, Finishing, OnDisk,
           Swapping, Rolling
      <4>3. /\ \A q \in Processes : Installing(q)' => Installing(q)
            /\ \A q \in Processes : Installed(q)' => Installed(q)
        BY <4>1, <4>2 DEF Installing, Installed, Recording, StageInv, TypeOK
      <4>4. /\ pc'[p] = "handover"
            /\ \A q \in Processes \ {p} : pc'[q] = pc[q]
        BY <4>1 DEF StageInv, TypeOK
      <4>5. \A q \in Processes : At(q, "handover") => q = p \/ ~AsOneWouldHope
        BY <4>2 DEF ReceiptInv, ReceiptIsOfThat, OneInstalls, Installing, Recording, At, Finishing
      <4>. QED  BY <2>2, <3>2, <4>1, <4>2, <4>3, <4>4, <4>5
                DEF ReceiptInv, OneInstalls, InstallsAsTold, ReceiptIsOfThat, At, Says
    <3>. QED  BY <3>1, <3>2
  <2>13. ASSUME NEW p \in Processes, HandsOver(p)
         PROVE  ReceiptInv'
    BY <2>1, <2>13, EndsKeepsReceiptInv DEF HandsOver, StageInv, TypeOK
  <2>. QED
    BY <2>3, <2>4, <2>5, <2>6, <2>7, <2>8, <2>9, <2>10, <2>11, <2>12, <2>13 DEF Next, Update
<1>. QED  BY <1>1, <1>2, StagesHold, BinaryHolds, PTL DEF Spec

\* Where a prebuilt binary is published: the kept binary is another than the live
\* one, and the receipt at a hand-over names both, whatever else goes on.
THEOREM UpdatesAccountedFor ==
  ASSUME Prebuilt = TRUE
  PROVE  Spec => []UpdateIsAccounted
<1>1. BinaryInv /\ ReceiptInv => UpdateIsAccounted
  BY DEF BinaryInv, ReceiptInv, UpdateIsAccounted, ReceiptAnswers, AsOneWouldHope, ReceiptIsOfThat
<1>. QED  BY <1>1, BinaryHolds, ReceiptHolds, PTL

----------------------------------------------------------------------------
(* InstallIsWhole *)

\* Nobody's work on the disk meets another's, unless that is known.
OneOnDisk ==
    "overlapped" \notin mishaps =>
      \A p, q \in Processes : pc[p] \in OnDisk /\ pc[q] \in OnDisk => p = q

\* The stages a step takes its process to, and whom it leaves where they are.
LEMMA StepMoves ==
  ASSUME StageInv, [Next]_vars
  PROVE  \/ \E p \in Processes :
              /\ SwapBinary(p) \/ RollBack(p) \/ SwapAddon(p) \/ DriverStep(p)
              /\ \A q \in Processes \ {p} : pc'[q] = pc[q] /\ tag'[q] = tag[q]
              /\ tag'[p] = tag[p]
         \/ /\ UNCHANGED disk
            /\ \A q \in Processes :
                 \/ pc'[q] = pc[q] /\ tag'[q] = tag[q]
                 \/ pc[q] \notin OnDisk /\ pc'[q] \notin OnDisk
                 \/ "failed" \in mishaps' /\ pc'[q] \notin OnDisk
<1>1. ASSUME NEW p \in Processes,
             SwapBinary(p) \/ RollBack(p) \/ SwapAddon(p) \/ DriverStep(p)
      PROVE  \A q \in Processes : (q # p => pc'[q] = pc[q]) /\ tag'[q] = tag[q]
  <2>1. \E stage : Goto(p, stage)
    BY <1>1, DriverStepType DEF SwapBinary, RollBack, SwapAddon, StageInv
  <2>. QED  BY <1>1, <2>1 DEF SwapBinary, RollBack, SwapAddon, DriverStep, Goto, StageInv, TypeOK
<1>2. ASSUME NEW p \in Processes, NEW stage \in {"off", "starting", "up"}, Ends(p, stage)
      PROVE  /\ \A q \in Processes \ {p} : pc'[q] = pc[q] /\ tag'[q] = tag[q]
             /\ pc'[p] \notin OnDisk
  BY <1>2 DEF Ends, Goto, StageInv, TypeOK, OnDisk, Swapping, Rolling
<1>3. ASSUME NEW p \in Processes, Crashes(p) \/ DiskFails(p)
      PROVE  /\ "failed" \in mishaps' /\ disk' = disk
             /\ Ends(p, "off") \/ Ends(p, "up")
  BY <1>3 DEF Crashes, DiskFails, Mishap
<1>4. ASSUME NEW p \in Processes, Quits(p) \/ FetchFails(p) \/ HandsOver(p)
      PROVE  /\ pc[p] \notin OnDisk /\ disk' = disk
             /\ Ends(p, "off") \/ Ends(p, "up") \/ Ends(p, "starting")
  BY <1>4 DEF Quits, FetchFails, HandsOver, At, OnDisk, Swapping, Rolling
<1>5. ASSUME NEW p \in Processes,
             \/ UpdatesAtLaunch(p) \/ UpdatesWhenIdle(p) \/ UpdatesOnCommand(p)
             \/ StartsAsIs(p) \/ Launch(p) \/ Resolve(p)
      PROVE  /\ pc[p] \notin OnDisk /\ pc'[p] \notin OnDisk /\ disk' = disk
             /\ \A q \in Processes \ {p} : pc'[q] = pc[q] /\ tag'[q] = tag[q]
  <2>1. PICK stage \in {"resolving", "up", "starting", "downloading", "applied"} :
          Goto(p, stage)
    BY <1>5 DEF UpdatesAtLaunch, UpdatesWhenIdle, UpdatesOnCommand, Applying, StartsAsIs, Launch,
       Resolve
  <2>2. pc'[p] \notin OnDisk /\ \A q \in Processes \ {p} : pc'[q] = pc[q]
    BY <2>1 DEF Goto, StageInv, TypeOK, OnDisk, Swapping, Rolling
  <2>3. pc[p] \in {"off", "starting", "up", "resolving"} /\ disk' = disk
    BY <1>5 DEF UpdatesAtLaunch, UpdatesWhenIdle, UpdatesOnCommand, StartsAsIs, Launch, Resolve, At
  <2>4. \A q \in Processes \ {p} : tag'[q] = tag[q]
    BY <1>5 DEF UpdatesAtLaunch, UpdatesWhenIdle, UpdatesOnCommand, Applying, StartsAsIs, Launch,
       Resolve, StageInv, TypeOK
  <2>. QED  BY <2>2, <2>3, <2>4 DEF OnDisk, Swapping, Rolling
<1>6. ASSUME NEW p \in Processes, Finishes(p)
      PROVE  /\ pc[p] \notin OnDisk /\ pc'[p] \notin OnDisk /\ disk' = disk
             /\ \A q \in Processes \ {p} : pc'[q] = pc[q] /\ tag'[q] = tag[q]
  <2>1. CASE by[p] = "command"
    BY <1>2, <1>6, <2>1 DEF Finishes, At, OnDisk, Swapping, Rolling
  <2>2. CASE by[p] # "command"
    BY <1>6, <2>2 DEF Finishes, At, Goto, StageInv, TypeOK, OnDisk, Swapping, Rolling
  <2>. QED  BY <2>1, <2>2
<1>7. CASE Publish \/ (\E p \in Processes : WorkChanges(p)) \/ UNCHANGED vars
  BY <1>7 DEF Publish, WorkChanges, vars
<1>. QED  BY <1>1, <1>2, <1>3, <1>4, <1>5, <1>6, <1>7 DEF Next, Update

\* Who goes to work on the disk, or stays at it, was at it before or found no one there.
LEMMA OneOnDiskKept ==
  ASSUME StageInv, OneOnDisk, [Next]_vars
  PROVE  OneOnDisk'
<1>1. mishaps \subseteq mishaps'
  BY OtherSteps
<1>2. ASSUME NEW p \in Processes, SwapBinary(p) \/ RollBack(p)
      PROVE  "overlapped" \in mishaps' \/ \A q \in Processes \ {p} : pc[q] \notin OnDisk
  BY <1>2 DEF SwapBinary, RollBack, Mishap, Shared
<1>3. ASSUME NEW p \in Processes, SwapAddon(p) \/ DriverStep(p)
      PROVE  pc[p] \in OnDisk
  BY <1>3, DriverStepType DEF SwapAddon, StageInv, At, OnDisk, Swapping
<1>. QED  BY <1>1, <1>2, <1>3, StepMoves DEF OneOnDisk

\* The names a driver's step may move, and what it finds and leaves under them.
LEMMA DriverStepFiles ==
  ASSUME StageInv, NEW p \in Processes, DriverStep(p)
  PROVE  \/ /\ pc[p] = "extract" /\ Goto(p, IF Driver["live"] # 0 THEN "clear" ELSE "promote")
            /\ disk'["driver"] = [Driver EXCEPT !["incoming"] = tag[p]]
         \/ /\ pc[p] = "clear" /\ Goto(p, "park")
            /\ disk'["driver"] = [Driver EXCEPT !["previous"] = 0]
         \/ /\ pc[p] = "park" /\ Goto(p, "promote")
            /\ disk'["driver"] = [Driver EXCEPT !["previous"] = Driver["live"], !["live"] = 0]
         \/ /\ pc[p] = "promote" /\ Driver["incoming"] # 0 /\ Goto(p, "applied")
            /\ disk'["driver"] = [Driver EXCEPT !["live"] = Driver["incoming"], !["incoming"] = 0]
         \/ /\ pc[p] = "driverBack" /\ Driver["previous"] = 0 /\ Goto(p, "up")
            /\ disk'["driver"] = Driver
         \/ /\ pc[p] = "driverBack" /\ Driver["previous"] # 0
            /\ Goto(p, IF Driver["live"] # 0 THEN "setAside" ELSE "restore")
            /\ disk'["driver"] = [Driver EXCEPT !["rolling"] = 0]
         \/ /\ pc[p] = "setAside" /\ Goto(p, "restore")
            /\ disk'["driver"] = [Driver EXCEPT !["rolling"] = Driver["live"], !["live"] = 0]
         \/ /\ pc[p] = "restore" /\ Driver["previous"] # 0
            /\ Goto(p, IF Driver["rolling"] # 0 THEN "keep" ELSE "up")
            /\ disk'["driver"] = [Driver EXCEPT !["live"] = Driver["previous"], !["previous"] = 0]
         \/ /\ pc[p] = "keep" /\ Driver["rolling"] # 0 /\ Goto(p, "up")
            /\ disk'["driver"] = [Driver EXCEPT !["previous"] = Driver["rolling"], !["rolling"] = 0]
<1>1. "driver" \in Artifacts /\ Driver \in [Names -> 0 .. NumReleases]
  BY DEF StageInv, TypeOK, Driver, Artifacts, Extras
<1>2. ASSUME NEW from \in Names, NEW to \in Names, Rename(from, to)
      PROVE  disk'["driver"] = [Driver EXCEPT ![to] = Driver[from], ![from] = 0]
  BY <1>1, <1>2 DEF Rename, Driver, StageInv, TypeOK
<1>3. ASSUME NEW n \in Names, RemoveTree(n)
      PROVE  disk'["driver"] = [Driver EXCEPT ![n] = 0]
  BY <1>1, <1>3 DEF RemoveTree, Driver, StageInv, TypeOK
<1>4. Names = {"live", "previous", "incoming", "rolling"}
  BY DEF Names
<1>5. CASE Extract(p)
  BY <1>1, <1>5 DEF Extract, Driver, At, StageInv, TypeOK
<1>6. CASE ClearKept(p) \/ ParkDriver(p) \/ Promote(p)
  BY <1>2, <1>3, <1>4, <1>6 DEF ClearKept, ParkDriver, Promote, At, CanRename
<1>7. CASE DriverBack(p)
  BY <1>3, <1>4, <1>7 DEF DriverBack, At, Driver
<1>8. CASE SetAside(p) \/ Restore(p) \/ Keep(p)
  BY <1>2, <1>4, <1>8 DEF SetAside, Restore, Keep, At, CanRename
<1>. QED  BY <1>5, <1>6, <1>7, <1>8 DEF DriverStep

\* Where the driver's swap or rollback stands, a copy of the driver is in reach.
DriverInReach ==
    "driver" \in Ships[1] /\ "overlapped" \notin mishaps =>
      /\ Driver["live"] # 0 \/ Driver["previous"] # 0
      /\ \A p \in Processes :
           /\ pc[p] \in {"clear", "park"} => Driver["live"] # 0
           /\ pc[p] \in {"setAside", "restore"} => Driver["previous"] # 0

DriverInv == OneOnDisk /\ DriverInReach

LEMMA DriverHolds == Spec => []DriverInv
<1>1. Init => DriverInv
  BY DEF Init, DriverInv, OneOnDisk, DriverInReach, Driver, OnDisk, Swapping, Rolling, Artifacts,
     Extras, Names, NoFiles
<1>2. ASSUME StageInv, DriverInv, [Next]_vars
      PROVE  DriverInv'
  <2>. USE <1>2
  <2>1. OneOnDisk'
    BY OneOnDiskKept DEF DriverInv
  <2>. SUFFICES ASSUME "driver" \in Ships[1], "overlapped" \notin mishaps'
                PROVE  /\ (Driver["live"] # 0 \/ Driver["previous"] # 0)'
                       /\ \A q \in Processes :
                            /\ pc'[q] \in {"clear", "park"} => Driver["live"]' # 0
                            /\ pc'[q] \in {"setAside", "restore"} => Driver["previous"]' # 0
    BY <2>1 DEF DriverInv, DriverInReach
  <2>2. /\ Driver["live"] # 0 \/ Driver["previous"] # 0
        /\ \A q \in Processes :
             /\ pc[q] \in {"clear", "park"} => Driver["live"] # 0
             /\ pc[q] \in {"setAside", "restore"} => Driver["previous"] # 0
    BY OtherSteps DEF DriverInv, DriverInReach
  <2>3. {"clear", "park", "setAside", "restore"} \subseteq OnDisk
    BY DEF OnDisk, Swapping, Rolling
  <2>4. ASSUME NEW p \in Processes, DriverStep(p),
               \A q \in Processes \ {p} : pc'[q] = pc[q]
        PROVE  /\ (Driver["live"] # 0 \/ Driver["previous"] # 0)'
               /\ \A q \in Processes :
                    /\ pc'[q] \in {"clear", "park"} => Driver["live"]' # 0
                    /\ pc'[q] \in {"setAside", "restore"} => Driver["previous"]' # 0
    <3>1. pc[p] \in OnDisk
      BY <2>4, DriverStepType DEF StageInv, OnDisk
    <3>2. \A q \in Processes \ {p} : pc'[q] \notin OnDisk
      BY <2>4, <3>1, OtherSteps DEF DriverInv, OneOnDisk
    <3>3. /\ (Driver["live"] # 0 \/ Driver["previous"] # 0)'
          /\ pc'[p] \in {"clear", "park"} => Driver["live"]' # 0
          /\ pc'[p] \in {"setAside", "restore"} => Driver["previous"]' # 0
      <4>1. Driver \in [{"live", "previous", "incoming", "rolling"} -> 0 .. NumReleases]
        BY DEF StageInv, TypeOK, Driver, Artifacts, Extras, Names
      <4>2. \A stage : Goto(p, stage) => pc'[p] = stage
        BY DEF Goto, StageInv, TypeOK
      <4>3. CASE pc[p] \in Swapping
        BY <2>2, <2>4, <4>1, <4>2, <4>3, DriverStepFiles DEF Driver, Swapping
      <4>4. CASE pc[p] \in Rolling
        BY <2>2, <2>4, <4>1, <4>2, <4>4, DriverStepFiles DEF Driver, Rolling
      <4>. QED  BY <3>1, <4>3, <4>4 DEF OnDisk
    <3>. QED  BY <2>3, <3>2, <3>3
  <2>5. ASSUME NEW p \in Processes, SwapBinary(p) \/ RollBack(p) \/ SwapAddon(p),
               \A q \in Processes \ {p} : pc'[q] = pc[q]
        PROVE  /\ (Driver["live"] # 0 \/ Driver["previous"] # 0)'
               /\ \A q \in Processes :
                    /\ pc'[q] \in {"clear", "park"} => Driver["live"]' # 0
                    /\ pc'[q] \in {"setAside", "restore"} => Driver["previous"]' # 0
    <3>1. disk'["driver"] = disk["driver"]
      BY <2>5 DEF SwapBinary, RollBack, SwapAddon, StageInv, TypeOK, Artifacts, Extras,
         RollbackTargets
    <3>2. pc'[p] \in {"addon", "driverBack", "extract", "applied"}
      BY <2>5 DEF SwapBinary, RollBack, SwapAddon, Goto, StageInv, TypeOK
    <3>. QED  BY <2>2, <2>5, <3>1, <3>2 DEF Driver
  <2>6. CASE UNCHANGED disk /\ \A q \in Processes : pc'[q] = pc[q] \/ pc'[q] \notin OnDisk
    BY <2>2, <2>3, <2>6 DEF Driver
  <2>. QED  BY <2>4, <2>5, <2>6, StepMoves
<1>. QED  BY <1>1, <1>2, StagesHold, PTL DEF Spec

\* Between the first step of an update or a rollback and its last, what the binary
\* is, what is still as it was, and what is half way.
Binary == disk["binary"]
Addon  == disk["addon"]
Same(f, g) == f["live"] = g["live"] /\ f["previous"] = g["previous"]
Crossed(f, g) == f["live"] = g["previous"] /\ f["previous"] = g["live"]

HalfWay(p) ==
    /\ pc[p] \in Swapping =>
         Binary["live"] = tag[p] /\ Binary["previous"] # 0 /\ Ships[tag[p]] = Extras
    /\ pc[p] = "addon" => Same(Addon, Driver) /\ Addon["live"] = Binary["previous"]
    /\ pc[p] \in OnDisk \ {"addon"} => Same(Addon, Binary)
    /\ pc[p] \in {"extract", "clear"} => Driver["live"] = Binary["previous"]
    /\ pc[p] \in {"clear", "park", "promote"} => Driver["incoming"] = tag[p]
    /\ pc[p] = "park" => Driver["previous"] = 0 /\ Driver["live"] = Binary["previous"]
    /\ pc[p] = "promote" => Driver["live"] = 0 /\ Driver["previous"] = Binary["previous"]
    /\ pc[p] = "driverBack" =>
         \/ Driver["previous"] = 0 /\ Same(Driver, Binary)
         \/ Driver["previous"] # 0 /\ Crossed(Driver, Binary) /\ Driver["live"] # 0
    /\ pc[p] = "setAside" =>
         Driver["rolling"] = 0 /\ Crossed(Driver, Binary) /\ Driver["live"] # 0
    /\ pc[p] = "restore" =>
         /\ Driver["rolling"] = Binary["previous"] /\ Driver["rolling"] # 0
         /\ Driver["live"] = 0 /\ Driver["previous"] = Binary["live"]
    /\ pc[p] = "keep" =>
         /\ Driver["rolling"] = Binary["previous"]
         /\ Driver["live"] = Binary["live"] /\ Driver["previous"] = 0

\* When all goes well the three artifacts are the same two releases, kept and live,
\* while nobody is at work on them, and otherwise as far as the one at work has come.
Whole == Same(Addon, Binary) /\ Same(Driver, Binary)
AllIsWell == Undisturbed({"moved", "reapplied"})
LockInv == AllIsWell => (Untouched => Whole) /\ \A p \in Processes : HalfWay(p)

\* From one step of the driver's swap or rollback to the next, or to the end.
LEMMA DriverStepLock ==
  ASSUME StageInv, BinaryInv, NEW p \in Processes, DriverStep(p), HalfWay(p)
  PROVE  HalfWay(p)' /\ (pc'[p] \in OnDisk \/ Whole')
<1>1. /\ Binary' = Binary /\ Addon' = Addon
      /\ tag'[p] = tag[p] /\ tag[p] \in 0 .. NumReleases
      /\ Binary["live"] # 0 /\ (pc[p] \in Swapping => tag[p] # 0)
  <2>1. Binary' = Binary /\ Addon' = Addon /\ tag' = tag /\ Binary["live"] # 0
    BY DriverStepAlone DEF StageInv, BinaryInv, DriverStep, Binary, Addon
  <2>2. tag[p] \in 0 .. NumReleases /\ Says(image[p]) \in Releases
    BY SaysType DEF StageInv, TypeOK
  <2>3. pc[p] \in Swapping => tag[p] > Says(image[p])
    BY DEF StageInv, UpdateIsNamed
  <2>. QED  BY <2>1, <2>2, <2>3 DEF Releases
<1>2. Driver \in [{"live", "previous", "incoming", "rolling"} -> 0 .. NumReleases]
  BY DEF StageInv, TypeOK, Driver, Artifacts, Extras, Names
<1>3. \A stage : Goto(p, stage) => pc'[p] = stage
  BY DEF Goto, StageInv, TypeOK
<1>4. Driver' = disk'["driver"]
  BY DEF Driver
<1>. HIDE DEF Driver
<1>5. CASE pc[p] \in {"extract", "clear"}
  BY <1>1, <1>2, <1>3, <1>4, <1>5, DriverStepFiles
  DEF HalfWay, Same, Swapping, Rolling, OnDisk
<1>6. CASE pc[p] \in {"park", "promote"}
  BY <1>1, <1>2, <1>3, <1>4, <1>6, DriverStepFiles
  DEF HalfWay, Same, Whole, Swapping, Rolling, OnDisk
<1>7. CASE pc[p] = "driverBack"
  BY <1>1, <1>2, <1>3, <1>4, <1>7, DriverStepFiles
  DEF HalfWay, Same, Crossed, Whole, Swapping, Rolling, OnDisk
<1>8. CASE pc[p] \in {"setAside", "restore", "keep"}
  BY <1>1, <1>2, <1>3, <1>4, <1>8, DriverStepFiles
  DEF HalfWay, Same, Crossed, Whole, Swapping, Rolling, OnDisk
<1>. QED
  BY <1>5, <1>6, <1>7, <1>8, DriverStepFiles

LEMMA LockHolds == Spec => []LockInv
<1>1. Init => LockInv
  <2>1. ASSUME Init, AllIsWell
        PROVE  Whole
    <3>1. Ships[1] = Extras
      BY <2>1 DEF Init, AllIsWell, Undisturbed
    <3>. QED  BY <2>1, <3>1 DEF Init, Whole, Same, Binary, Addon, Driver, Artifacts, Extras
  <2>2. Init => \A p \in Processes : HalfWay(p)
    BY DEF Init, HalfWay, OnDisk, Swapping, Rolling
  <2>. QED  BY <2>1, <2>2 DEF LockInv
<1>2. ASSUME StageInv, BinaryInv, OneOnDisk, OneOnDisk', LockInv, [Next]_vars
      PROVE  LockInv'
  <2>. USE <1>2
  <2>. SUFFICES ASSUME AllIsWell'
                PROVE  (Untouched' => Whole') /\ \A q \in Processes : HalfWay(q)'
    BY DEF LockInv
  <2>1. /\ Untouched => Whole
        /\ \A q \in Processes : HalfWay(q)
        /\ {"failed", "overlapped", "partial"} \cap mishaps' = {}
        /\ {"overlapped"} \cap mishaps = {}
    BY OtherSteps DEF LockInv, AllIsWell, Undisturbed
  <2>2. ASSUME NEW q \in Processes, pc'[q] \notin OnDisk
        PROVE  HalfWay(q)'
    BY <2>2 DEF HalfWay, OnDisk, Swapping, Rolling
  <2>3. CASE /\ UNCHANGED disk
             /\ \A q \in Processes :
                  \/ pc'[q] = pc[q] /\ tag'[q] = tag[q]
                  \/ pc[q] \notin OnDisk /\ pc'[q] \notin OnDisk
                  \/ "failed" \in mishaps' /\ pc'[q] \notin OnDisk
    <3>1. Untouched' => Untouched
      BY <2>1, <2>3 DEF Untouched
    <3>2. \A q \in Processes : HalfWay(q)'
      BY <2>1, <2>2, <2>3 DEF HalfWay, Binary, Addon, Driver
    <3>. QED  BY <2>1, <2>3, <3>1, <3>2 DEF Whole, Binary, Addon, Driver
  <2>4. ASSUME NEW p \in Processes, HalfWay(p)', pc'[p] \in OnDisk \/ Whole',
               pc[p] \in OnDisk \/ pc'[p] \in OnDisk,
               \A q \in Processes \ {p} : pc'[q] = pc[q] /\ tag'[q] = tag[q]
        PROVE  (Untouched' => Whole') /\ \A q \in Processes : HalfWay(q)'
    <3>1. \A q \in Processes \ {p} : pc'[q] \notin OnDisk
      BY <2>1, <2>4 DEF OneOnDisk
    <3>. QED  BY <2>2, <2>4, <3>1 DEF Untouched
  <2>5. ASSUME NEW p \in Processes, SwapBinary(p) \/ RollBack(p),
               \A q \in Processes \ {p} : pc'[q] = pc[q] /\ tag'[q] = tag[q], tag'[p] = tag[p]
        PROVE  (Untouched' => Whole') /\ \A q \in Processes : HalfWay(q)'
    <3>1. Whole
      <4>1. pc[p] \notin OnDisk
        BY <2>5 DEF SwapBinary, RollBack, At, OnDisk, Swapping, Rolling
      <4>2. ~Shared(p)
        BY <2>1, <2>5 DEF SwapBinary, RollBack, Mishap
      <4>. QED  BY <2>1, <4>1, <4>2 DEF Untouched, Shared
    <3>2. CASE SwapBinary(p)
      <4>1. /\ pc'[p] = "addon" /\ "addon" \in OnDisk /\ Ships[tag[p]] = Extras
            /\ Binary' = Swapped(Binary, tag[p]) /\ Addon' = Addon /\ Driver' = Driver
        <5>1. pc'[p] = "addon" /\ "addon" \in OnDisk
          BY <3>2 DEF SwapBinary, Goto, StageInv, TypeOK, OnDisk, Swapping
        <5>2. Ships[tag[p]] = Extras
          BY <2>1, <3>2 DEF SwapBinary
        <5>. QED  BY <3>2, <5>1, <5>2 DEF SwapBinary, StageInv, TypeOK, Artifacts, Extras, Binary,
                  Addon, Driver
      <4>2. Binary'["live"] = tag[p] /\ Binary'["previous"] = Binary["live"] /\ Binary["live"] # 0
        BY <4>1, SwappedFiles DEF StageInv, TypeOK, BinaryInv, Artifacts, Binary
      <4>3. HalfWay(p)'
        BY <2>5, <3>1, <4>1, <4>2 DEF HalfWay, Whole, Same
      <4>. QED  BY <2>4, <2>5, <4>1, <4>3
    <3>3. CASE RollBack(p)
      <4>1. /\ pc'[p] = "driverBack" /\ "driverBack" \in OnDisk \ Swapping
            /\ Binary' = Exchanged(Binary) /\ Addon' = Exchanged(Addon) /\ Driver' = Driver
        <5>1. pc'[p] = "driverBack" /\ "driverBack" \in OnDisk \ Swapping
          BY <3>3 DEF RollBack, Goto, StageInv, TypeOK, OnDisk, Swapping, Rolling
        <5>. QED  BY <3>3, <5>1 DEF RollBack, RollbackTargets, StageInv, TypeOK, Artifacts, Extras,
                  Binary, Addon, Driver
      <4>2. /\ Binary["previous"] = 0 => Binary' = Binary /\ Addon' = Addon
            /\ Binary["previous"] # 0 => Crossed(Binary', Binary) /\ Crossed(Addon', Addon)
        BY <3>1, <4>1, SwappedFiles
        DEF StageInv, TypeOK, Artifacts, Extras, Binary, Addon, Whole, Same, Crossed
      <4>3. HalfWay(p)'
        BY <3>1, <4>1, <4>2 DEF HalfWay, Whole, Same, Crossed, BinaryInv, Binary
      <4>. QED  BY <2>4, <2>5, <4>1, <4>3
    <3>. QED  BY <2>5, <3>2, <3>3
  <2>6. ASSUME NEW p \in Processes, SwapAddon(p),
               \A q \in Processes \ {p} : pc'[q] = pc[q] /\ tag'[q] = tag[q], tag'[p] = tag[p]
        PROVE  (Untouched' => Whole') /\ \A q \in Processes : HalfWay(q)'
    <3>1. pc[p] = "addon" /\ "addon" \in OnDisk \cap Swapping /\ "extract" \in OnDisk \cap Swapping
      BY <2>6 DEF SwapAddon, At, OnDisk, Swapping
    <3>2. /\ Ships[tag[p]] = Extras /\ Binary["live"] = tag[p] /\ Binary["previous"] # 0
          /\ Same(Addon, Driver) /\ Addon["live"] = Binary["previous"]
      BY <2>1, <3>1 DEF HalfWay
    <3>3. /\ Addon' = Swapped(Addon, tag[p]) /\ Binary' = Binary /\ Driver' = Driver
          /\ pc'[p] = "extract"
      BY <2>6, <3>2 DEF SwapAddon, Provides, Goto, StageInv, TypeOK, Artifacts, Extras, Binary,
         Addon, Driver
    <3>4. Addon'["live"] = tag[p] /\ Addon'["previous"] = Addon["live"]
      BY <3>2, <3>3, SwappedFiles DEF StageInv, TypeOK, Artifacts, Extras, Addon
    <3>5. HalfWay(p)'
      BY <2>6, <3>1, <3>2, <3>3, <3>4 DEF HalfWay, Same
    <3>. QED  BY <2>4, <2>6, <3>1, <3>3, <3>5
  <2>7. ASSUME NEW p \in Processes, DriverStep(p),
               \A q \in Processes \ {p} : pc'[q] = pc[q] /\ tag'[q] = tag[q]
        PROVE  (Untouched' => Whole') /\ \A q \in Processes : HalfWay(q)'
    <3>1. pc[p] \in OnDisk
      BY <2>7, DriverStepType DEF StageInv, OnDisk
    <3>. QED  BY <2>1, <2>4, <2>7, <3>1, DriverStepLock
  <2>. QED  BY <2>3, <2>5, <2>6, <2>7, StepMoves
<1>3. Spec => []OneOnDisk
  BY DriverHolds, PTL DEF DriverInv
<1>. QED  BY <1>1, <1>2, <1>3, StagesHold, BinaryHolds, PTL DEF Spec

\* While every release publishes all of it, agents take their turns and nothing
\* fails, binary, addon and driver are of one release, forward and back; and a
\* driver that was installed is never out of reach, whatever fails.
THEOREM InstallStaysWhole == Spec => []InstallIsWhole
<1>1. LockInv /\ DriverInv => InstallIsWhole
  <2>1. LockInv => Lockstep
    BY DEF LockInv, AllIsWell, Lockstep, Whole, Same, Binary, Addon, Driver, Extras
  <2>2. DriverInv => DriverSurvives
    BY DEF DriverInv, DriverInReach, DriverSurvives
  <2>. QED  BY <2>1, <2>2 DEF InstallIsWhole
<1>. QED  BY <1>1, LockHolds, DriverHolds, PTL
============================================================================
