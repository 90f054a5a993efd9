---------------------------- MODULE TextfilePublish ----------------------------
(***************************************************************************)
(* The life of a run of the helper scripts of openwrt/scripts, of the cron *)
(* lines and the installer that start them, and of the files they leave:   *)
(* each script stages its metrics in a file named after its pid and        *)
(* renames it over <name>.prom, which the exporter's textfile collector    *)
(* reads.  No lock keeps two runs of one script apart: crond does not      *)
(* start a line whose last run is still going, but the installer starts    *)
(* every helper once more by hand.                                         *)
(***************************************************************************)
EXTENDS Naturals, Sequences, FiniteSets, Functions

CONSTANTS
  Helpers,      \* the helper scripts
  Discipline,   \* Discipline[h]: how script h stages and cleans up (HelperCatalog)
  Installs,     \* the helper sequences the installer may be told to set up
  Pids,         \* process ids; the system reuses them
  None,         \* "no such file", "no such process"
  Partial,      \* the content of a file that is still being written
  MaxEpoch,     \* bound: changes of the world
  MaxFaults,    \* bound: aborts, kills and reboots
  MaxSetups     \* bound: runs of setup.sh

Launchers == {"cron", "setup"}

ASSUME DisciplineAssumption ==
  Discipline \in [Helpers -> [stageInOutdir : BOOLEAN, sweep : BOOLEAN,
                              trap : BOOLEAN, scratch : BOOLEAN,
                              rmScratch : BOOLEAN, reports : BOOLEAN]]

(* No script both stages where it sweeps and sweeps: the sweep's glob      *)
(* <name>.prom.[0-9]* would take the staging file of another live run.     *)
ASSUME SweepAssumption ==
  \A h \in Helpers : ~(Discipline[h].stageInOutdir /\ Discipline[h].sweep)

(* A script that has scratch files removes them at its end.                *)
ASSUME ScratchAssumption ==
  \A h \in Helpers :
    Discipline[h].scratch => Discipline[h].trap \/ Discipline[h].rmScratch

ASSUME InstallsAssumption == Installs \subseteq Seq(Helpers)

ASSUME BoundAssumption ==
  MaxEpoch \in Nat \ {0} /\ MaxFaults \in Nat /\ MaxSetups \in Nat

Snapshots == [epoch : 1..MaxEpoch, up : BOOLEAN]

ASSUME SentinelAssumption ==
  /\ None \notin Snapshots
  /\ Partial \notin Snapshots
  /\ None # Partial
  /\ None \notin Pids

VARIABLES
  install,    \* the helpers the chosen profiles need, in setup.sh's order
  world,      \* the source's history: world[e] says whether it answered in epoch e
  outfile,    \* outfile[h]: content of <name>.prom
  stage,      \* stage[h][p]: content of the staging file of pid p
  scratch,    \* scratch[h]: pids whose scratch files exist
  litter,     \* litter[h]: <name>.prom.<pid> files left by an older version
  pc,         \* pc[h][l]: where the run of h that l started stands
  pid,        \* pid[h][l]: its process id
  setup,      \* where setup.sh stands, and which helper it runs next
  scheduled,  \* have the cron lines been installed?
  rounds,     \* runs of setup.sh so far
  faults,     \* aborts, kills, reboots and deaths of setup.sh so far
  unclean     \* history: unclean[h]: runs of h that died without removing their files,
              \* since the last reboot

files == <<outfile, stage, scratch, litter>>
vars == <<install, world, files, pc, pid, setup, scheduled, rounds, faults, unclean>>

Board == INSTANCE SnapshotBoard WITH board <- outfile

Steps == {"idle", "armed", "staged", "collected", "published"}
SetupSteps == {"idle", "cleared", "running", "done", "failed"}
Contents == Snapshots \cup {None, Partial}

TypeOK ==
  /\ install \in Installs
  /\ world \in Seq(BOOLEAN) /\ Len(world) \in 1..MaxEpoch
  /\ outfile \in [Helpers -> Contents]
  /\ stage \in [Helpers -> [Pids -> Contents]]
  /\ scratch \in [Helpers -> SUBSET Pids]
  /\ litter \in [Helpers -> SUBSET Pids]
  /\ pc \in [Helpers -> [Launchers -> Steps]]
  /\ pid \in [Helpers -> [Launchers -> Pids \cup {None}]]
  /\ setup \in [step : SetupSteps, next : Nat]
  /\ scheduled \in BOOLEAN
  /\ rounds \in 0..MaxSetups
  /\ faults \in 0..MaxFaults
  /\ unclean \in [Helpers -> Nat]

Up == world[Len(world)]
Now == Board!SnapshotOf(world, Len(world))
NoFiles == [h \in Helpers |-> [p \in Pids |-> None]]

Init ==
  /\ install \in Installs
  /\ world \in {<<b>> : b \in BOOLEAN}
  /\ outfile = [h \in Helpers |-> None]
  /\ stage = NoFiles
  /\ scratch = [h \in Helpers |-> {}]
  \* An older version of a script staged in /var/prometheus and leaked.
  /\ litter \in [Helpers -> {{}, Pids}]
  /\ \A h \in Helpers : ~Discipline[h].sweep => litter[h] = {}
  /\ pc = [h \in Helpers |-> [l \in Launchers |-> "idle"]]
  /\ pid = [h \in Helpers |-> [l \in Launchers |-> None]]
  /\ setup = [step |-> "idle", next |-> 1]
  /\ scheduled \in BOOLEAN
  /\ rounds = 0
  /\ faults = 0
  /\ unclean = [h \in Helpers |-> 0]

--------------------------------------------------------------------------------
(* A run of a helper script.                                               *)

At(h, l, step) == pc[h][l] = step
Goto(h, l, step) == pc' = [pc EXCEPT ![h][l] = step]

(* Slips that the properties below are known to catch are kept beside the  *)
(* definitions they corrupt, as operators named Slip...; no specification  *)
(* uses them.                                                              *)

(* The sweep also takes the staging files of live runs.                    *)
SlipSweepTakesStaging(h, l) ==
  /\ At(h, l, "idle")
  /\ \E p \in Pids :
        /\ \A g \in Helpers, m \in Launchers : pid[g][m] # p
        /\ pid' = [pid EXCEPT ![h][l] = p]
  /\ Goto(h, l, "armed")
  /\ litter' = [litter EXCEPT ![h] = {}]
  /\ stage' = [stage EXCEPT ![h] = [p \in Pids |-> None]]
  /\ UNCHANGED <<install, world, outfile, scratch, setup, scheduled, rounds, faults, unclean>>

(* The sweep is forgotten.                                                 *)
SlipNoSweep(h, l) ==
  /\ At(h, l, "idle")
  /\ \E p \in Pids :
        /\ \A g \in Helpers, m \in Launchers : pid[g][m] # p
        /\ pid' = [pid EXCEPT ![h][l] = p]
  /\ Goto(h, l, "armed")
  /\ UNCHANGED <<install, world, files, setup, scheduled, rounds, faults, unclean>>

(* A launched run gets a free pid and prepares at once: mkdir -p,          *)
(* rm -f "$OUTFILE".[0-9]*, trap ... EXIT.                                 *)
Launch(h, l) ==
  /\ At(h, l, "idle")
  /\ \E p \in Pids :
        /\ \A g \in Helpers, m \in Launchers : pid[g][m] # p
        /\ pid' = [pid EXCEPT ![h][l] = p]
  /\ Goto(h, l, "armed")
  /\ IF Discipline[h].sweep
     THEN /\ litter' = [litter EXCEPT ![h] = {}]
          /\ IF Discipline[h].stageInOutdir
             THEN /\ stage' = [stage EXCEPT ![h] = [p \in Pids |-> None]]
                  /\ scratch' = [scratch EXCEPT ![h] = {}]
             ELSE UNCHANGED <<stage, scratch>>
     ELSE UNCHANGED <<litter, stage, scratch>>
  /\ UNCHANGED <<install, world, outfile, setup, scheduled, rounds, faults, unclean>>

(* crond starts a line unless its previous run is still going.             *)
CronLaunches(h) ==
  /\ scheduled
  /\ h \in Range(install)
  /\ Launch(h, "cron")

SetupLaunches(h) ==
  /\ setup.step = "running"
  /\ setup.next \in DOMAIN install
  /\ install[setup.next] = h
  /\ Launch(h, "setup")

(* The script writes straight into the .prom file.                         *)
SlipStageInPlace(h, l) ==
  /\ At(h, l, "armed")
  /\ Goto(h, l, "staged")
  /\ stage' = [stage EXCEPT ![h][pid[h][l]] = Partial]
  /\ outfile' = [outfile EXCEPT ![h] = Partial]
  /\ UNCHANGED <<install, world, scratch, litter, pid, setup, scheduled, rounds, faults, unclean>>

(* The script appends to, and so resumes, a dead run's staging file.       *)
SlipResumeStage(h, l) ==
  /\ At(h, l, "armed")
  /\ LET old == stage[h][pid[h][l]] IN
       /\ Goto(h, l, IF old \in Snapshots THEN "collected" ELSE "staged")
       /\ stage' = [stage EXCEPT ![h][pid[h][l]] = IF old = None THEN Partial ELSE old]
  /\ UNCHANGED <<install, world, outfile, scratch, litter, pid>>
  /\ UNCHANGED <<setup, scheduled, rounds, faults, unclean>>

(* { headers ... } > "$TMPFILE" truncates whatever a dead run with the     *)
(* same pid left there.                                                    *)
OpenStage(h, l) ==
  /\ At(h, l, "armed")
  /\ Goto(h, l, "staged")
  /\ stage' = [stage EXCEPT ![h][pid[h][l]] = Partial]
  /\ scratch' = [scratch EXCEPT ![h] =
                   IF Discipline[h].scratch THEN @ \cup {pid[h][l]} ELSE @]
  /\ UNCHANGED <<install, world, outfile, litter, pid, setup, scheduled, rounds, faults, unclean>>

(* The script has looked at its source and written the last line.  An      *)
(* unlinked staging file stays unlinked.                                   *)
Collect(h, l) ==
  /\ At(h, l, "staged")
  /\ Up \/ Discipline[h].reports
  /\ Goto(h, l, "collected")
  /\ stage' = [stage EXCEPT ![h][pid[h][l]] = IF @ = None THEN None ELSE Now]
  /\ UNCHANGED <<install, world, outfile, scratch, litter, pid>>
  /\ UNCHANGED <<setup, scheduled, rounds, faults, unclean>>

(* mv "$TMPFILE" "$OUTFILE".                                               *)
Publish(h, l) ==
  /\ At(h, l, "collected")
  /\ stage[h][pid[h][l]] # None
  /\ Goto(h, l, "published")
  /\ outfile' = [outfile EXCEPT ![h] = stage[h][pid[h][l]]]
  /\ stage' = [stage EXCEPT ![h][pid[h][l]] = None]
  /\ UNCHANGED <<install, world, scratch, litter, pid, setup, scheduled, rounds, faults, unclean>>

(* The script's end: its exit trap, or its own last rm, takes the scratch  *)
(* files; the installer goes on to its next helper.                        *)
Finish(h, l) ==
  /\ At(h, l, "published")
  /\ Goto(h, l, "idle")
  /\ pid' = [pid EXCEPT ![h][l] = None]
  /\ scratch' = [scratch EXCEPT ![h] =
                   IF Discipline[h].trap \/ Discipline[h].rmScratch
                   THEN @ \ {pid[h][l]} ELSE @]
  /\ setup' = IF l = "setup" THEN [setup EXCEPT !.next = @ + 1] ELSE setup
  /\ UNCHANGED <<install, world, outfile, stage, litter, scheduled, rounds, faults, unclean>>

(* History: a run that ends without its trap may leave its files.          *)
CountsEnd(h, cleansUp) ==
  unclean' = IF cleansUp THEN unclean ELSE [unclean EXCEPT ![h] = @ + 1]

(* The installer goes on although a helper failed.                         *)
SlipIgnoreFailure(h, l, cleansUp) ==
  /\ Goto(h, l, "idle")
  /\ CountsEnd(h, cleansUp)
  /\ pid' = [pid EXCEPT ![h][l] = None]
  /\ setup' = IF l = "setup" THEN [setup EXCEPT !.next = @ + 1] ELSE setup
  /\ UNCHANGED <<install, world, files, scheduled, rounds>>

(* A dead run's bookkeeping takes the other launcher's with it.            *)
SlipForgetRow(h, l, cleansUp) ==
  /\ Goto(h, l, "idle")
  /\ CountsEnd(h, cleansUp)
  /\ pid' = [pid EXCEPT ![h] = None]
  /\ UNCHANGED <<install, world, files, setup, scheduled, rounds>>

(* The exit trap is forgotten: a dead run's files stay.                    *)
SlipForgetTrap(h, l, cleansUp) ==
  /\ Goto(h, l, "idle")
  /\ CountsEnd(h, cleansUp)
  /\ pid' = [pid EXCEPT ![h][l] = None]
  /\ setup' = IF l = "setup" THEN [setup EXCEPT !.step = "failed"] ELSE setup
  /\ UNCHANGED <<install, world, files, scheduled, rounds>>

(* The run is over before its mv.  setup.sh runs under set -e, so it dies  *)
(* with the helper it was waiting for.                                     *)
Dies(h, l, cleansUp) ==
  /\ Goto(h, l, "idle")
  /\ CountsEnd(h, cleansUp)
  /\ pid' = [pid EXCEPT ![h][l] = None]
  /\ setup' = IF l = "setup" THEN [setup EXCEPT !.step = "failed"] ELSE setup
  /\ IF cleansUp
     THEN /\ stage' = [stage EXCEPT ![h][pid[h][l]] = None]
          /\ scratch' = [scratch EXCEPT ![h] = @ \ {pid[h][l]}]
     ELSE UNCHANGED <<stage, scratch>>
  /\ UNCHANGED <<install, world, outfile, litter, scheduled, rounds>>

(* A script that should publish "unavailable" lets set -e end it instead.  *)
SlipNotFailClosed(h, l) ==
  /\ At(h, l, "staged")
  /\ ~Up
  /\ Dies(h, l, Discipline[h].trap)
  /\ UNCHANGED faults

(* The source does not answer and a command's failure escapes to set -e.   *)
CollectAborts(h, l) ==
  /\ At(h, l, "staged")
  /\ ~Up /\ ~Discipline[h].reports
  /\ Dies(h, l, Discipline[h].trap)
  /\ UNCHANGED faults

(* Any other command fails (a full /tmp, a missing tool): set -e, and the  *)
(* exit trap if the run has armed one.                                     *)
Abort(h, l) ==
  /\ pc[h][l] \in {"armed", "staged", "collected"}
  /\ faults < MaxFaults
  /\ faults' = faults + 1
  /\ Dies(h, l, Discipline[h].trap)

(* killall or the OOM killer: no trap runs.                                *)
Kill(h, l) ==
  /\ pc[h][l] # "idle"
  /\ faults < MaxFaults
  /\ faults' = faults + 1
  /\ Dies(h, l, FALSE)

--------------------------------------------------------------------------------
(* setup.sh, as far as it touches the helpers' files.                      *)

(* rm -f /var/prometheus/*.prom                                            *)
SetupClears ==
  /\ setup.step \in {"idle", "done", "failed"}
  /\ rounds < MaxSetups
  /\ rounds' = rounds + 1
  /\ setup' = [step |-> "cleared", next |-> 1]
  /\ outfile' = [h \in Helpers |-> None]
  /\ UNCHANGED <<install, world, stage, scratch, litter, pc, pid, scheduled, faults, unclean>>

SetupSchedules ==
  /\ setup.step = "cleared"
  /\ setup' = [setup EXCEPT !.step = "running"]
  /\ scheduled' = TRUE
  /\ UNCHANGED <<install, world, files, pc, pid, rounds, faults, unclean>>

SetupFinishes ==
  /\ setup.step = "running"
  /\ setup.next = Len(install) + 1
  /\ setup' = [setup EXCEPT !.step = "done"]
  /\ UNCHANGED <<install, world, files, pc, pid, scheduled, rounds, faults, unclean>>

(* The installer itself dies (its ssh session drops, an init script it     *)
(* calls fails) between two helpers.                                       *)
SetupDies ==
  /\ setup.step \in {"cleared", "running"}
  /\ \A h \in Helpers : At(h, "setup", "idle")
  /\ faults < MaxFaults
  /\ faults' = faults + 1
  /\ setup' = [setup EXCEPT !.step = "failed"]
  /\ UNCHANGED <<install, world, files, pc, pid, scheduled, rounds, unclean>>

(* /tmp and /var are one tmpfs; the crontab is on flash.                   *)
Reboot ==
  /\ faults < MaxFaults
  /\ faults' = faults + 1
  /\ unclean' = [h \in Helpers |-> 0]
  /\ outfile' = [h \in Helpers |-> None]
  /\ stage' = NoFiles
  /\ scratch' = [h \in Helpers |-> {}]
  /\ litter' = [h \in Helpers |-> {}]
  /\ pc' = [h \in Helpers |-> [l \in Launchers |-> "idle"]]
  /\ pid' = [h \in Helpers |-> [l \in Launchers |-> None]]
  /\ setup' = [step |-> "idle", next |-> 1]
  /\ UNCHANGED <<install, world, scheduled, rounds>>

WorldChanges ==
  /\ Len(world) < MaxEpoch
  /\ \E b \in BOOLEAN : world' = Append(world, b)
  /\ UNCHANGED <<install, files, pc, pid, setup, scheduled, rounds, faults, unclean>>

RunStep(h, l) ==
  \/ OpenStage(h, l)
  \/ Collect(h, l)
  \/ CollectAborts(h, l)
  \/ Publish(h, l)
  \/ Finish(h, l)

Next ==
  \/ \E h \in Helpers : CronLaunches(h) \/ SetupLaunches(h)
  \/ \E h \in Helpers, l \in Launchers : RunStep(h, l) \/ Abort(h, l) \/ Kill(h, l)
  \/ SetupClears
  \/ SetupSchedules
  \/ SetupFinishes
  \/ SetupDies
  \/ Reboot
  \/ WorldChanges

Spec == Init /\ [][Next]_vars

(* crond keeps starting the lines it has, and a started run keeps running. *)
(* Nobody is bound to start the installer, and nothing has to fail.        *)
Fairness ==
  /\ \A h \in Helpers : WF_vars(CronLaunches(h))
  /\ \A h \in Helpers, l \in Launchers : WF_vars(RunStep(h, l))

FairSpec == Spec /\ Fairness

--------------------------------------------------------------------------------
(* Properties.                                                             *)

(* c is what a run saw that looked at its source in some epoch up to now.  *)
Seen(c) == \E e \in 1..Len(world) : c = Board!SnapshotOf(world, e)

StagingIntact(h, l) ==
  /\ At(h, l, "staged") => stage[h][pid[h][l]] = Partial
  /\ At(h, l, "collected") => Seen(stage[h][pid[h][l]])

(* The staging file of a run that has opened it is still there when the    *)
(* run wants to rename it, and holds only what a run wrote after looking   *)
(* at its source: neither the sweep of an overlapping run nor the          *)
(* leftovers of a dead one with the same pid get in between.               *)
LiveStagingIntact == \A h \in Helpers, l \in Launchers : StagingIntact(h, l)

(* setup.sh:604-606 calls clearing /var/prometheus safe because it runs    *)
(* every helper once afterwards: when it reports success, whatever cron    *)
(* did meanwhile, every helper it ran has a file on display.               *)
ClearingIsSafe ==
  setup.step = "done" =>
    \A i \in DOMAIN install : outfile[install[i]] # None

(* As long as only cron starts the helpers, what a file shows never goes   *)
(* back to an earlier observation.                                         *)
CronNeverGoesBack ==
  [][rounds' = 0 =>
       \A h \in Helpers :
         (outfile[h] # None /\ outfile'[h] # None) => outfile'[h].epoch >= outfile[h].epoch]_vars

(* Staging and scratch files that belong to no live run.                   *)
LeftBehind(h) ==
  ({p \in Pids : stage[h][p] # None} \cup scratch[h]) \ {pid[h][l] : l \in Launchers}

(* Every script cleans up after itself in every order of failures,         *)
(* overlaps and reused pids: what lies about under its name, in /tmp or    *)
(* beside its .prom file, are the files of at most as many pids as runs of *)
(* it died without a trap since the last reboot.  dhcp-pool.sh has none,   *)
(* so for it that is any run that fails, for the others one that is killed.*)
LeftoversArePaidFor ==
  \A h \in Helpers : Cardinality(LeftBehind(h)) <= unclean[h]

(* Names in /var/prometheus that are neither a .prom file nor a staging    *)
(* file of a live run.                                                     *)
Orphans(h) == litter[h] \cup (IF Discipline[h].stageInOutdir THEN LeftBehind(h) ELSE {})

Cronned == IF scheduled THEN Range(install) ELSE {}

(* wan-quality.sh:30-32: routers that ran an older version heal.  For good *)
(* is nothing left in the scraped directory but what a script that stages  *)
(* there dropped when it died (docs/advanced-profiles.md:353-356 says that *)
(* there is none, dhcp-pool.sh:8 is one), and of that no more than its     *)
(* runs that died without cleaning up; no sweep ever takes it.             *)
TextfileDirHeals ==
  <>[](\A h \in Cronned :
         Cardinality(Orphans(h)) <= IF Discipline[h].stageInOutdir THEN unclean[h] ELSE 0)

(* Whatever dies on the way and however runs overlap, once the world       *)
(* stands still the file on display says how it stands: the last answer of *)
(* a source that answers, and for a script that reports a silent source    *)
(* also that.                                                              *)
EventuallyCurrent ==
  <>[](\A h \in Cronned : (Up \/ Discipline[h].reports) => outfile[h] = Now)

(* The help text of wan-quality.sh:156, "Whether the probe succeeded", and *)
(* of every other helper's state gauge: a source that stays silent is not  *)
(* for ever displayed as one that answers.                                 *)
OutageIsShown == <>[](\A h \in Cronned : ~Up => (outfile[h] = None \/ ~outfile[h].up))

(* The scraper's view: every change of a .prom file is one atomic post of  *)
(* a true snapshot, or the board being taken down.                         *)
ImplementsBoard == Board!BoardSpec

================================================================================
