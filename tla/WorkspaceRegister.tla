------------------------- MODULE WorkspaceRegister -------------------------
(***************************************************************************)
(* Which workspaces may have automatic checkpoints:                        *)
(* config/workspace-registration.ts.  One file is the register of all      *)
(* products on the machine; the agent's own older list is migrated into it *)
(* once, and its entries are marked as the owner's choice once, each       *)
(* remembered by a receipt.  Launches of the agent and the `workspaces`    *)
(* command are processes of their own: another may step, and this one die, *)
(* between any read and any write.                                         *)
(***************************************************************************)
EXTENDS Integers

CONSTANTS
    Roots,
    Slots,         \* bound: processes of the agent beside each other
    MaxLaunches    \* bound: processes in all

Jobs     == {"none", "boot", "register", "unregister"}
Entries  == {"absent", "plain", "eligible"}
Receipts == {"absent", "complete", "damaged"}

VARIABLES
    legacy,      \* roots of the agent's older list, which is never deleted; {} if it has none
    register,    \* the shared register
    migration,   \* receipt of the import
    backfill,    \* receipt of the marking
    launches,    \* processes so far
    job, root,   \* what the process in each slot was started for
    stage,       \* the step it is at
    snap,        \* the register as it last read it
    stale,       \* has another process written since it last looked? (history)
    crossed,     \* did a launch ever write over such a change? (history)
    word         \* the owner's last word on each root (history)

files == <<legacy, register, migration, backfill>>
vars  == <<files, launches, job, root, stage, snap, stale, crossed, word>>

Stages == {"idle", "importing", "merging", "imported", "marking", "stamping", "marked",
           "loading", "saving"}
Nothing    == [r \in Roots |-> "absent"]
Running(l) == stage[l] # "idle"

TypeOK ==
    /\ legacy \subseteq Roots
    /\ register \in [Roots -> Entries] /\ snap \in [Slots -> [Roots -> Entries]]
    /\ launches \in 0..MaxLaunches
    /\ {migration, backfill} \subseteq Receipts
    /\ job \in [Slots -> Jobs] /\ root \in [Slots -> SUBSET Roots]
    /\ stage \in [Slots -> Stages]
    /\ stale \in [Slots -> BOOLEAN] /\ crossed \in BOOLEAN
    /\ word \in [Roots -> {"none", "in", "out", "seen"}]

\* Either nothing was imported yet, or a build did it whose receipts were not verifiable
\* and after which the owner may have removed a root.
NotYetImported ==
    /\ migration = "absent" /\ backfill = "absent"
    /\ \A r \in Roots : /\ register[r] # "eligible"
                        /\ word[r] = IF r \in legacy THEN "in"
                                     ELSE IF register[r] = "plain" THEN "seen" ELSE "none"
ImportedBefore ==
    /\ migration = "damaged" /\ backfill \in {"absent", "damaged"} /\ legacy # {}
    /\ \A r \in Roots :
         \/ r \in legacy /\ word[r] = "in"  /\ register[r] \in {"plain", "eligible"}
         \/ r \in legacy /\ word[r] = "out" /\ register[r] = "absent"
         \/ r \notin legacy /\ word[r] = "none" /\ register[r] = "absent"

Init ==
    /\ legacy \in SUBSET Roots
    /\ register \in [Roots -> Entries] /\ word \in [Roots -> {"none", "in", "out", "seen"}]
    /\ migration \in {"absent", "damaged"} /\ backfill \in {"absent", "damaged"}
    /\ NotYetImported \/ ImportedBefore
    /\ launches = 0
    /\ job = [l \in Slots |-> "none"] /\ root = [l \in Slots |-> {}]
    /\ stage = [l \in Slots |-> "idle"] /\ snap = [l \in Slots |-> Nothing]
    /\ stale = [l \in Slots |-> FALSE] /\ crossed = FALSE

GoTo(l, s) == stage' = [stage EXCEPT ![l] = s] /\ UNCHANGED <<launches, job, root>>
Reads(l)   == snap' = [snap EXCEPT ![l] = register]
Forgets(l) == snap' = [snap EXCEPT ![l] = Nothing]

\* The process is over; its slot is free for another.
Ends(l) ==
    /\ stage' = [stage EXCEPT ![l] = "idle"] /\ job' = [job EXCEPT ![l] = "none"]
    /\ root' = [root EXCEPT ![l] = {}] /\ Forgets(l)
    /\ UNCHANGED launches

\* What a launch decides on from here, it has just read.
Looks(l)  == stale' = [stale EXCEPT ![l] = FALSE]
Writes(l) ==
    /\ crossed' = (crossed \/ stale[l])
    /\ stale' = [k \in Slots |-> k # l /\ Running(k)]

AfterImport(j) == IF j = "boot" THEN "marking" ELSE "loading"

\* readReceipt() of migrateLegacyWorkspaceRegistryIfNeeded(): a damaged one counts as done.
ImportIsDue_Damaged == migration # "complete" /\ legacy # {}   \* Variant: or is run again.
ImportIsDue == migration = "absent" /\ legacy # {}

\* createRuntimeServices() and the status command boot, `workspaces` does what it was asked.
Launch(l) ==
    /\ ~Running(l) /\ launches < MaxLaunches /\ launches' = launches + 1
    /\ \/ job' = [job EXCEPT ![l] = "boot"] /\ UNCHANGED root
       \/ \E j \in {"register", "unregister"}, r \in Roots :
            job' = [job EXCEPT ![l] = j] /\ root' = [root EXCEPT ![l] = {r}]
    /\ stage' = [stage EXCEPT ![l] = IF ImportIsDue THEN "importing" ELSE AfterImport(job'[l])]
    /\ Looks(l)
    /\ UNCHANGED <<files, snap, crossed, word>>

ReadToImport(l) ==
    /\ stage[l] = "importing" /\ GoTo(l, "merging") /\ Reads(l)
    /\ UNCHANGED <<files, stale, crossed, word>>

\* Roots the register does not know come in as the older list had them, unmarked.
Merged(reg) == [r \in Roots |-> IF r \in legacy /\ reg[r] = "absent" THEN "plain" ELSE reg[r]]

WriteMerged(l) ==
    /\ stage[l] = "merging" /\ GoTo(l, "imported") /\ Forgets(l)
    /\ IF Merged(snap[l]) = snap[l]
         THEN UNCHANGED <<register, stale, crossed>>
         ELSE register' = Merged(snap[l]) /\ Writes(l)
    /\ UNCHANGED <<legacy, migration, backfill, word>>

WriteImportReceipt(l) ==
    /\ stage[l] = "imported" /\ GoTo(l, AfterImport(job[l]))
    /\ migration' = "complete" /\ Looks(l)
    /\ UNCHANGED <<legacy, register, backfill, snap, crossed, word>>

\* backfillCheckpointEligibilityIfNeeded(), at a boot alone: a damaged receipt runs it again.
ReadToMark(l) ==
    /\ stage[l] = "marking" /\ Looks(l)
    /\ IF backfill # "complete" /\ legacy # {} THEN GoTo(l, "stamping") /\ Reads(l) ELSE Ends(l)
    /\ UNCHANGED <<files, crossed, word>>

Stamped(reg) == [r \in Roots |-> IF r \in legacy /\ reg[r] = "plain" THEN "eligible" ELSE reg[r]]

WriteStamped(l) ==
    /\ stage[l] = "stamping" /\ GoTo(l, "marked") /\ Forgets(l)
    /\ IF Stamped(snap[l]) = snap[l]
         THEN UNCHANGED <<register, stale, crossed>>
         ELSE register' = Stamped(snap[l]) /\ Writes(l)
    /\ UNCHANGED <<legacy, migration, backfill, word>>

WriteMarkReceipt(l) ==
    /\ stage[l] = "marked" /\ Ends(l) /\ backfill' = "complete" /\ Looks(l)
    /\ UNCHANGED <<legacy, register, migration, crossed, word>>

\* WorkspaceRegistrationStore.add() and remove(): the SDK loads, changes and writes the file.
Load(l) ==
    /\ stage[l] = "loading" /\ GoTo(l, "saving") /\ Looks(l) /\ Reads(l)
    /\ UNCHANGED <<files, crossed, word>>

\* registerWorkspaceForCheckpoints() adds with the mark.
Save(l) ==
    /\ stage[l] = "saving" /\ Ends(l) /\ Writes(l)
    /\ LET adds == job[l] = "register"
       IN  /\ register' = [r \in Roots |-> IF r \notin root[l] THEN snap[l][r]
                                           ELSE IF adds THEN "eligible" ELSE "absent"]
           /\ word' = [r \in Roots |-> IF r \notin root[l] THEN word[r]
                                       ELSE IF adds THEN "in" ELSE "out"]
    /\ UNCHANGED <<legacy, migration, backfill>>

Crash(l) ==
    /\ Running(l) /\ Ends(l) /\ Looks(l)
    /\ UNCHANGED <<files, crossed, word>>

\* Another product notes a directory that was opened there, without a mark (external).
OpenedElsewhere(r) ==
    /\ register[r] = "absent"
    /\ register' = [register EXCEPT ![r] = "plain"]
    /\ word' = [word EXCEPT ![r] = IF @ = "in" THEN @ ELSE "seen"]
    /\ stale' = [k \in Slots |-> Running(k)]
    /\ UNCHANGED <<legacy, migration, backfill, launches, job, root, stage, snap, crossed>>

\* A receipt is torn by something outside this code.
ReceiptDamaged ==
    /\ \/ migration = "complete" /\ migration' = "damaged" /\ UNCHANGED backfill
       \/ backfill = "complete" /\ backfill' = "damaged" /\ UNCHANGED migration
    /\ UNCHANGED <<legacy, register, launches, job, root, stage, snap, stale, crossed, word>>

Step(l) ==
    \/ Launch(l) \/ ReadToImport(l) \/ WriteMerged(l) \/ WriteImportReceipt(l)
    \/ ReadToMark(l) \/ WriteStamped(l) \/ WriteMarkReceipt(l)
    \/ Load(l) \/ Save(l) \/ Crash(l)

Next == (\E l \in Slots : Step(l)) \/ (\E r \in Roots : OpenedElsewhere(r)) \/ ReceiptDamaged

Spec == Init /\ [][Next]_vars

----------------------------------------------------------------------------
(* Stated while no launch wrote over what another had changed meanwhile.    *)

\* A root the owner removed stays out until somebody registers or opens it again, over
\* crashes, damaged receipts and every later start ("a migrated-then-removed root must
\* not come back on the next start", workspace-registration.ts).
RemovedStaysRemoved == ~crossed => \A r \in Roots : word[r] = "out" => register[r] = "absent"

\* The checkpoint boundary is never silently widened: an eligible root is one the owner
\* chose.  Left out: a root of the older list that was removed and then opened elsewhere,
\* which a late or repeated backfill marks again.
BoundaryIsExplicit ==
    ~crossed => \A r \in Roots : register[r] = "eligible" =>
                  word[r] = "in" \/ (word[r] = "seen" /\ r \in legacy)

\* No choice the owner made before the marks existed is lost: once the backfill says it is
\* done, each is marked, whichever steps crashed on the way.
OptInsKept ==
    backfill = "complete" /\ ~crossed =>
       \A r \in Roots : word[r] = "in" => register[r] = "eligible"

RegisterIsTheOwners == RemovedStaysRemoved /\ BoundaryIsExplicit /\ OptInsKept
============================================================================
