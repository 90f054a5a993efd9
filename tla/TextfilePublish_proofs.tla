------------------------ MODULE TextfilePublish_proofs -------------------------
(***************************************************************************)
(* Proofs about TextfilePublish, for every set of helpers, pids and        *)
(* installations and every bound.                                          *)
(***************************************************************************)
EXTENDS TextfilePublish, SequenceTheorems, FiniteSetTheorems, TLAPS

USE DEF Launchers, files

--------------------------------------------------------------------------------
(* The inductive invariant.  A run has a pid exactly while it lives, and   *)
(* two live runs of one helper have different ones; so a staging file in   *)
(* /tmp has one writer, no sweep reaches it, and its content is what       *)
(* LiveStagingIntact says.  Only such content is ever renamed, so every    *)
(* file on display is a snapshot of some epoch of the world.               *)

RunsHavePids ==
  \A h \in Helpers, l \in Launchers : pc[h][l] = "idle" <=> pid[h][l] = None

OwnPids ==
  \A h \in Helpers, l, m \in Launchers :
    (l # m /\ pid[h][l] # None) => pid[h][l] # pid[h][m]

OutfilesTrue == \A h \in Helpers : outfile[h] = None \/ Seen(outfile[h])

PidInv == TypeOK /\ RunsHavePids /\ OwnPids

IInv == PidInv /\ LiveStagingIntact /\ OutfilesTrue

--------------------------------------------------------------------------------
(* The history of the world only grows.                                    *)

LEMMA HistoryGrows ==
  ASSUME NEW w \in Seq(BOOLEAN), NEW b \in BOOLEAN
  PROVE  /\ Append(w, b) \in Seq(BOOLEAN)
         /\ Len(Append(w, b)) = Len(w) + 1
         /\ \A e \in 1..Len(w) : Append(w, b)[e] = w[e]
  BY AppendProperties

(* A run that looks at its source sees a snapshot of the present.          *)
LEMMA NowIsSnapshot ==
  ASSUME TypeOK
  PROVE  /\ Now \in Snapshots
         /\ Len(world) \in 1..Len(world)
  <1>1. Len(world) \in 1..MaxEpoch /\ world[Len(world)] \in BOOLEAN
    BY DEF TypeOK
  <1> QED
    BY <1>1, BoundAssumption DEF Now, Board!SnapshotOf, Snapshots

LEMMA InitTypeOK == Init => TypeOK
  <1> SUFFICES ASSUME Init PROVE TypeOK
    OBVIOUS
  <1>1. world \in Seq(BOOLEAN) /\ Len(world) \in 1..MaxEpoch
    <2>1. PICK b \in BOOLEAN : world = <<b>>
      BY DEF Init
    <2> QED
      BY <2>1, BoundAssumption
  <1>2. stage \in [Helpers -> [Pids -> Contents]]
    BY DEF Init, NoFiles, Contents
  <1>3. litter \in [Helpers -> SUBSET Pids]
    BY DEF Init
  <1>4. pid \in [Helpers -> [Launchers -> Pids \cup {None}]]
    BY DEF Init
  <1>5. pc \in [Helpers -> [Launchers -> Steps]]
    BY DEF Init, Steps
  <1>6. setup \in [step : SetupSteps, next : Nat]
    BY DEF Init, SetupSteps
  <1>7. outfile \in [Helpers -> Contents] /\ scratch \in [Helpers -> SUBSET Pids]
    BY DEF Init, Contents
  <1>8. rounds \in 0..MaxSetups /\ faults \in 0..MaxFaults
    BY BoundAssumption DEF Init
  <1> QED
    BY <1>1, <1>2, <1>3, <1>4, <1>5, <1>6, <1>7, <1>8 DEF Init, TypeOK

LEMMA GotoTypeOK ==
  ASSUME TypeOK, NEW h \in Helpers, NEW l \in Launchers, NEW step \in Steps,
         Goto(h, l, step)
  PROVE  pc' \in [Helpers -> [Launchers -> Steps]]
  BY DEF TypeOK, Goto

LEMMA LaunchTypeOK ==
  ASSUME TypeOK, NEW h \in Helpers, NEW l \in Launchers, Launch(h, l)
  PROVE  TypeOK'
  <1>1. pc' \in [Helpers -> [Launchers -> Steps]]
    BY GotoTypeOK DEF Launch, Steps
  <1>2. pid' \in [Helpers -> [Launchers -> Pids \cup {None}]]
    BY DEF Launch, TypeOK
  <1>3. stage' \in [Helpers -> [Pids -> Contents]]
    <2>1. [p \in Pids |-> None] \in [Pids -> Contents]
      BY DEF Contents
    <2>2. CASE stage' = stage
      BY <2>2 DEF TypeOK
    <2>3. CASE stage' = [stage EXCEPT ![h] = [p \in Pids |-> None]]
      BY <2>1, <2>3 DEF TypeOK
    <2> QED
      BY <2>2, <2>3 DEF Launch
  <1>4. scratch' \in [Helpers -> SUBSET Pids] /\ litter' \in [Helpers -> SUBSET Pids]
    BY DEF Launch, TypeOK
  <1> QED
    BY <1>1, <1>2, <1>3, <1>4 DEF Launch, TypeOK

LEMMA DiesTypeOK ==
  ASSUME TypeOK, NEW h \in Helpers, NEW l \in Launchers, NEW c \in BOOLEAN,
         Dies(h, l, c), faults' \in 0..MaxFaults
  PROVE  TypeOK'
  <1>1. pc' \in [Helpers -> [Launchers -> Steps]]
    BY GotoTypeOK DEF Dies, Steps
  <1>2. pid' \in [Helpers -> [Launchers -> Pids \cup {None}]]
    BY DEF Dies, TypeOK
  <1>3. stage' \in [Helpers -> [Pids -> Contents]]
    <2>1. CASE stage' = stage
      BY <2>1 DEF TypeOK
    <2>2. CASE stage' = [stage EXCEPT ![h][pid[h][l]] = None]
      <3>1. None \in Contents
        BY DEF Contents
      <3> QED
        BY <2>2, <3>1 DEF TypeOK
    <2> QED
      BY <2>1, <2>2 DEF Dies
  <1>4. scratch' \in [Helpers -> SUBSET Pids]
    <2>1. scratch' = scratch \/ scratch' = [scratch EXCEPT ![h] = @ \ {pid[h][l]}]
      BY DEF Dies
    <2> QED
      BY <2>1 DEF TypeOK
  <1>5. setup' \in [step : SetupSteps, next : Nat]
    BY DEF Dies, TypeOK, SetupSteps
  <1>6. unclean' \in [Helpers -> Nat]
    BY DEF Dies, CountsEnd, TypeOK
  <1> QED
    BY <1>1, <1>2, <1>3, <1>4, <1>5, <1>6 DEF Dies, TypeOK

LEMMA StagingTypeOK ==
  ASSUME TypeOK, NEW h \in Helpers, NEW q, NEW c \in Contents,
         stage' = [stage EXCEPT ![h][q] = c]
  PROVE  stage' \in [Helpers -> [Pids -> Contents]]
  BY DEF TypeOK

LEMMA LivePid ==
  ASSUME PidInv, NEW h \in Helpers, NEW l \in Launchers, pc[h][l] # "idle"
  PROVE  pid[h][l] \in Pids
  BY DEF PidInv, TypeOK, RunsHavePids

LEMMA OpenStageTypeOK ==
  ASSUME PidInv, NEW h \in Helpers, NEW l \in Launchers, OpenStage(h, l)
  PROVE  TypeOK'
  <1> USE DEF PidInv
  <1>1. pc' \in [Helpers -> [Launchers -> Steps]]
    BY GotoTypeOK DEF OpenStage, Steps
  <1>2. stage' \in [Helpers -> [Pids -> Contents]]
    BY StagingTypeOK DEF OpenStage, Contents
  <1>3. scratch' \in [Helpers -> SUBSET Pids]
    BY LivePid DEF OpenStage, TypeOK, At
  <1> QED
    BY <1>1, <1>2, <1>3 DEF OpenStage, TypeOK

LEMMA CollectTypeOK ==
  ASSUME PidInv, NEW h \in Helpers, NEW l \in Launchers, Collect(h, l)
  PROVE  TypeOK'
  <1> USE DEF PidInv
  <1>1. pc' \in [Helpers -> [Launchers -> Steps]]
    BY GotoTypeOK DEF Collect, Steps
  <1>2. stage' \in [Helpers -> [Pids -> Contents]]
    <2> DEFINE c == IF stage[h][pid[h][l]] = None THEN None ELSE Now
    <2>1. c \in Contents
      BY NowIsSnapshot DEF Contents
    <2>2. stage' = [stage EXCEPT ![h][pid[h][l]] = c]
      BY DEF Collect
    <2> HIDE DEF c
    <2> QED
      BY <2>1, <2>2, StagingTypeOK
  <1> QED
    BY <1>1, <1>2 DEF Collect, TypeOK

LEMMA PublishTypeOK ==
  ASSUME PidInv, NEW h \in Helpers, NEW l \in Launchers, Publish(h, l)
  PROVE  TypeOK'
  <1> USE DEF PidInv
  <1>1. pc' \in [Helpers -> [Launchers -> Steps]]
    BY GotoTypeOK DEF Publish, Steps
  <1>2. stage' \in [Helpers -> [Pids -> Contents]]
    BY StagingTypeOK DEF Publish, Contents
  <1>3. outfile' \in [Helpers -> Contents]
    <2>1. stage[h][pid[h][l]] \in Contents
      BY LivePid DEF Publish, TypeOK, At
    <2> QED
      BY <2>1 DEF Publish, TypeOK
  <1> QED
    BY <1>1, <1>2, <1>3 DEF Publish, TypeOK

LEMMA FinishTypeOK ==
  ASSUME TypeOK, NEW h \in Helpers, NEW l \in Launchers, Finish(h, l)
  PROVE  TypeOK'
  <1>1. pc' \in [Helpers -> [Launchers -> Steps]]
    BY GotoTypeOK DEF Finish, Steps
  <1>2. pid' \in [Helpers -> [Launchers -> Pids \cup {None}]]
    BY DEF Finish, TypeOK
  <1>3. scratch' \in [Helpers -> SUBSET Pids]
    <2> DEFINE left == IF Discipline[h].trap \/ Discipline[h].rmScratch
                       THEN scratch[h] \ {pid[h][l]} ELSE scratch[h]
    <2>1. left \in SUBSET Pids
      BY DEF TypeOK
    <2>2. scratch' = [scratch EXCEPT ![h] = left]
      BY DEF Finish, TypeOK
    <2> HIDE DEF left
    <2> QED
      BY <2>1, <2>2 DEF TypeOK
  <1>4. setup' \in [step : SetupSteps, next : Nat]
    <2>1. setup \in [step : SetupSteps, next : Nat] /\ setup.next + 1 \in Nat
      BY DEF TypeOK
    <2>2. CASE setup' = setup
      BY <2>1, <2>2
    <2>3. CASE setup' = [setup EXCEPT !.next = @ + 1]
      BY <2>1, <2>3
    <2> QED
      BY <2>2, <2>3 DEF Finish
  <1> QED
    BY <1>1, <1>2, <1>3, <1>4 DEF Finish, TypeOK

LEMMA RebootTypeOK == TypeOK /\ Reboot => TypeOK'
  <1> SUFFICES ASSUME TypeOK, Reboot PROVE TypeOK'
    OBVIOUS
  <1>1. stage' \in [Helpers -> [Pids -> Contents]]
    BY DEF Reboot, NoFiles, Contents
  <1>2. /\ outfile' \in [Helpers -> Contents]
        /\ scratch' \in [Helpers -> SUBSET Pids]
        /\ litter' \in [Helpers -> SUBSET Pids]
    BY DEF Reboot, Contents
  <1>3. pc' \in [Helpers -> [Launchers -> Steps]]
    BY DEF Reboot, Steps
  <1>4. pid' \in [Helpers -> [Launchers -> Pids \cup {None}]]
    BY DEF Reboot
  <1>5. setup' \in [step : SetupSteps, next : Nat]
    BY DEF Reboot, SetupSteps
  <1>6. faults' \in 0..MaxFaults
    BY BoundAssumption DEF Reboot, TypeOK
  <1> QED
    BY <1>1, <1>2, <1>3, <1>4, <1>5, <1>6 DEF Reboot, TypeOK

LEMMA SetupTypeOK ==
  TypeOK /\ (SetupClears \/ SetupSchedules \/ SetupFinishes \/ SetupDies) => TypeOK'
  <1>1. ASSUME TypeOK, SetupClears PROVE TypeOK'
    <2>1. outfile' \in [Helpers -> Contents]
      BY <1>1 DEF SetupClears, Contents
    <2>2. setup' \in [step : SetupSteps, next : Nat] /\ rounds' \in 0..MaxSetups
      BY <1>1, BoundAssumption DEF SetupClears, SetupSteps, TypeOK
    <2> QED
      BY <1>1, <2>1, <2>2 DEF SetupClears, TypeOK
  <1>2. ASSUME TypeOK, SetupSchedules PROVE TypeOK'
    BY <1>2 DEF SetupSchedules, SetupSteps, TypeOK
  <1>3. ASSUME TypeOK, SetupFinishes PROVE TypeOK'
    BY <1>3 DEF SetupFinishes, SetupSteps, TypeOK
  <1>4. ASSUME TypeOK, SetupDies PROVE TypeOK'
    <2>1. faults' \in 0..MaxFaults
      BY <1>4, BoundAssumption DEF SetupDies, TypeOK
    <2>2. setup' \in [step : SetupSteps, next : Nat]
      BY <1>4 DEF SetupDies, SetupSteps, TypeOK
    <2> QED
      BY <1>4, <2>1, <2>2 DEF SetupDies, TypeOK
  <1> QED
    BY <1>1, <1>2, <1>3, <1>4

LEMMA WorldTypeOK == TypeOK /\ WorldChanges => TypeOK'
  <1> SUFFICES ASSUME TypeOK, WorldChanges PROVE TypeOK'
    OBVIOUS
  <1>1. PICK b \in BOOLEAN : world' = Append(world, b)
    BY DEF WorldChanges
  <1>2. world' \in Seq(BOOLEAN) /\ Len(world') = Len(world) + 1
    BY <1>1, HistoryGrows DEF TypeOK
  <1>3. Len(world') \in 1..MaxEpoch
    BY <1>2, BoundAssumption DEF WorldChanges, TypeOK
  <1> QED
    BY <1>2, <1>3 DEF WorldChanges, TypeOK

(* The three ways a run can die are steps of Dies that may use up a fault. *)
DiesSomehow(h, l) == \E c \in BOOLEAN : Dies(h, l, c)

LEMMA DeathsDie ==
  ASSUME TypeOK, NEW h \in Helpers, NEW l \in Launchers,
         CollectAborts(h, l) \/ Abort(h, l) \/ Kill(h, l)
  PROVE  DiesSomehow(h, l) /\ faults' \in 0..MaxFaults
  <1>1. Discipline[h].trap \in BOOLEAN
    BY DisciplineAssumption
  <1>2. faults' \in 0..MaxFaults
    <2>1. faults \in Nat /\ faults <= MaxFaults /\ MaxFaults \in Nat
      BY BoundAssumption DEF TypeOK
    <2>2. faults' = faults \/ (faults < MaxFaults /\ faults' = faults + 1)
      BY DEF CollectAborts, Abort, Kill
    <2> QED
      BY <2>1, <2>2
  <1> QED
    BY <1>1, <1>2 DEF CollectAborts, Abort, Kill, DiesSomehow

LEMMA NextTypeOK == PidInv /\ [Next]_vars => TypeOK'
  <1> SUFFICES ASSUME PidInv, [Next]_vars PROVE TypeOK'
    OBVIOUS
  <1> USE DEF PidInv
  <1>1. ASSUME NEW h \in Helpers, CronLaunches(h) \/ SetupLaunches(h)
        PROVE  TypeOK'
    BY <1>1, LaunchTypeOK DEF CronLaunches, SetupLaunches
  <1>2. ASSUME NEW h \in Helpers, NEW l \in Launchers,
               RunStep(h, l) \/ Abort(h, l) \/ Kill(h, l)
        PROVE  TypeOK'
    <2>1. CASE CollectAborts(h, l) \/ Abort(h, l) \/ Kill(h, l)
      BY <2>1, DeathsDie, DiesTypeOK DEF DiesSomehow
    <2> QED
      BY <1>2, <2>1, OpenStageTypeOK, CollectTypeOK, PublishTypeOK, FinishTypeOK
         DEF RunStep
  <1>3. CASE UNCHANGED vars
    BY <1>3 DEF vars, TypeOK
  <1> QED
    BY <1>1, <1>2, <1>3, SetupTypeOK, RebootTypeOK, WorldTypeOK DEF Next

--------------------------------------------------------------------------------
(* Pids: the part of the invariant that keeps live runs apart.             *)

LEMMA InitPidInv == Init => PidInv
  BY InitTypeOK DEF Init, PidInv, RunsHavePids, OwnPids

(* A step either gives one idle run a pid nobody has, or takes the pids of *)
(* runs that become idle, or leaves all pids alone.                        *)
LEMMA NextPids ==
  ASSUME PidInv, Next
  PROVE  RunsHavePids' /\ OwnPids'
  <1> USE DEF PidInv, RunsHavePids, OwnPids
  <1>1. ASSUME NEW h \in Helpers, NEW l \in Launchers, Launch(h, l)
        PROVE  RunsHavePids' /\ OwnPids'
    <2>1. PICK p \in Pids :
             /\ \A g \in Helpers, m \in Launchers : pid[g][m] # p
             /\ pid' = [pid EXCEPT ![h][l] = p]
      BY <1>1 DEF Launch
    <2>2. p # None
      BY SentinelAssumption
    <2> QED
      BY <1>1, <2>1, <2>2 DEF Launch, Goto, TypeOK
  <1>2. ASSUME NEW h \in Helpers, NEW l \in Launchers,
               OpenStage(h, l) \/ Collect(h, l) \/ Publish(h, l)
        PROVE  RunsHavePids' /\ OwnPids'
    <2>1. pid' = pid /\ pc[h][l] # "idle"
      BY <1>2 DEF OpenStage, Collect, Publish, At
    <2>2. PICK step \in Steps \ {"idle"} : pc' = [pc EXCEPT ![h][l] = step]
      BY <1>2 DEF OpenStage, Collect, Publish, Goto, Steps
    <2> QED
      BY <2>1, <2>2 DEF TypeOK
  <1>3. ASSUME NEW h \in Helpers, NEW l \in Launchers,
               Finish(h, l) \/ DiesSomehow(h, l)
        PROVE  RunsHavePids' /\ OwnPids'
    <2>1. /\ pc' = [pc EXCEPT ![h][l] = "idle"]
          /\ pid' = [pid EXCEPT ![h][l] = None]
      BY <1>3 DEF Finish, DiesSomehow, Dies, Goto
    <2> QED
      BY <2>1 DEF TypeOK
  <1>4. ASSUME Reboot PROVE RunsHavePids' /\ OwnPids'
    BY <1>4 DEF Reboot
  <1>5. CASE UNCHANGED <<pc, pid>>
    BY <1>5
  <1> QED
    BY <1>1, <1>2, <1>3, <1>4, <1>5, DeathsDie
       DEF Next, CronLaunches, SetupLaunches, RunStep, SetupClears, SetupSchedules,
           SetupFinishes, SetupDies, WorldChanges

LEMMA NextPidInv == PidInv /\ [Next]_vars => PidInv'
  <1>1. CASE UNCHANGED vars
    BY <1>1, NextTypeOK DEF PidInv, RunsHavePids, OwnPids, vars
  <1> QED
    BY <1>1, NextTypeOK, NextPids DEF PidInv

(* Every variable keeps its type, whatever the bounds.                     *)
THEOREM TypeCorrect == Spec => []TypeOK
  <1>1. PidInv => TypeOK
    BY DEF PidInv
  <1> QED
    BY <1>1, InitPidInv, NextPidInv, PTL DEF Spec

--------------------------------------------------------------------------------
(* Staging files and the files on display.                                 *)

(* What has been seen stays seen.                                          *)
LEMMA SeenGrows ==
  ASSUME TypeOK, WorldChanges, NEW c, Seen(c)
  PROVE  Seen(c)'
  <1>1. PICK b \in BOOLEAN : world' = Append(world, b)
    BY DEF WorldChanges
  <1>2. PICK e \in 1..Len(world) : c = Board!SnapshotOf(world, e)
    BY DEF Seen
  <1>3. /\ e \in 1..Len(world')
        /\ world'[e] = world[e]
    BY <1>1, HistoryGrows DEF TypeOK
  <1> QED
    BY <1>2, <1>3 DEF Seen, Board!SnapshotOf

LEMMA NowIsSeen == TypeOK => Seen(Now)
  BY NowIsSnapshot DEF Seen, Now

(* A present snapshot is neither an absent nor a partial file.             *)
LEMMA SeenIsContent ==
  ASSUME TypeOK, NEW c, Seen(c)
  PROVE  c # None /\ c # Partial
  <1>1. PICK e \in 1..Len(world) : c = Board!SnapshotOf(world, e)
    BY DEF Seen
  <1>2. e \in 1..MaxEpoch /\ world[e] \in BOOLEAN
    BY BoundAssumption DEF TypeOK
  <1> QED
    BY <1>1, <1>2, SentinelAssumption DEF Board!SnapshotOf, Snapshots

LEMMA InitIInv == Init => IInv
  BY InitPidInv DEF Init, IInv, LiveStagingIntact, StagingIntact, OutfilesTrue, At

(* Only the run that owns a staging file writes it: a step of another run  *)
(* of the same helper names another pid.                                   *)
LEMMA LaunchStaging ==
  ASSUME IInv, NEW h \in Helpers, NEW l \in Launchers, Launch(h, l)
  PROVE  LiveStagingIntact' /\ OutfilesTrue'
  <1> USE DEF IInv, PidInv
  <1>1. stage' = stage /\ world' = world /\ outfile' = outfile
    BY SweepAssumption DEF Launch
  <1>2. pc' = [pc EXCEPT ![h][l] = "armed"]
    BY DEF Launch, Goto
  <1>3. \A g \in Helpers, m \in Launchers :
           pc[g][m] \in {"staged", "collected"} => pid'[g][m] = pid[g][m]
    BY DEF Launch, At, TypeOK
  <1> QED
    BY <1>1, <1>2, <1>3
       DEF LiveStagingIntact, StagingIntact, OutfilesTrue, At, Seen, TypeOK

(* A step of the run of h that l started, which writes at most its own     *)
(* staging file, keeps the staging files of all other runs as they are.    *)
OthersKeep(h, l) ==
  /\ pc[h][l] # "idle"
  /\ world' = world
  /\ \A g \in Helpers, m \in Launchers :
        (g # h \/ m # l) => pc'[g][m] = pc[g][m] /\ pid'[g][m] = pid[g][m]
  /\ stage' = stage \/ \E c : stage' = [stage EXCEPT ![h][pid[h][l]] = c]

LEMMA OthersFiles ==
  ASSUME PidInv, NEW h \in Helpers, NEW l \in Launchers, OthersKeep(h, l),
         NEW g \in Helpers, NEW m \in Launchers, g # h \/ m # l, pc[g][m] # "idle"
  PROVE  stage'[g][pid[g][m]] = stage[g][pid[g][m]]
  <1>1. CASE stage' = stage
    BY <1>1
  <1>2. CASE \E c : stage' = [stage EXCEPT ![h][pid[h][l]] = c]
    <2>1. PICK c : stage' = [stage EXCEPT ![h][pid[h][l]] = c]
      BY <1>2
    <2>2. pid[h][l] \in Pids /\ pid[g][m] \in Pids
      BY LivePid DEF OthersKeep
    <2>3. g = h => pid[g][m] # pid[h][l]
      BY <2>2, SentinelAssumption DEF PidInv, OwnPids
    <2>4. stage \in [Helpers -> [Pids -> Contents]]
      BY DEF PidInv, TypeOK
    <2> QED
      BY <2>1, <2>2, <2>3, <2>4
  <1> QED
    BY <1>1, <1>2 DEF OthersKeep

LEMMA OthersStaging ==
  ASSUME IInv, NEW h \in Helpers, NEW l \in Launchers, OthersKeep(h, l),
         StagingIntact(h, l)'
  PROVE  LiveStagingIntact'
  <1> SUFFICES ASSUME NEW g \in Helpers, NEW m \in Launchers, g # h \/ m # l
               PROVE  StagingIntact(g, m)'
    BY DEF LiveStagingIntact
  <1>1. /\ pc'[g][m] = pc[g][m] /\ pid'[g][m] = pid[g][m]
        /\ world' = world /\ pc[h][l] # "idle"
    BY DEF OthersKeep
  <1>2. pc[g][m] # "idle" => stage'[g][pid[g][m]] = stage[g][pid[g][m]]
    BY OthersFiles DEF IInv
  <1>3. StagingIntact(g, m)
    BY DEF IInv, LiveStagingIntact
  <1> QED
    BY <1>1, <1>2, <1>3 DEF StagingIntact, At, Seen

LEMMA OwnStaging ==
  ASSUME PidInv, NEW h \in Helpers, NEW l \in Launchers, pc[h][l] # "idle",
         NEW c, stage' = [stage EXCEPT ![h][pid[h][l]] = c]
  PROVE  stage'[h][pid[h][l]] = c
  BY LivePid DEF PidInv, TypeOK

(* What a Goto does to pc.                                                 *)
LEMMA GotoPc ==
  ASSUME TypeOK, NEW h \in Helpers, NEW l \in Launchers, NEW step, Goto(h, l, step)
  PROVE  /\ pc'[h][l] = step
         /\ \A g \in Helpers, m \in Launchers :
              (g # h \/ m # l) => pc'[g][m] = pc[g][m]
  BY DEF Goto, TypeOK

LEMMA OpenStaging ==
  ASSUME IInv, NEW h \in Helpers, NEW l \in Launchers, OpenStage(h, l)
  PROVE  LiveStagingIntact' /\ OutfilesTrue'
  <1> USE DEF IInv, PidInv
  <1>1. /\ world' = world /\ outfile' = outfile /\ pid' = pid
        /\ pc[h][l] # "idle"
        /\ stage' = [stage EXCEPT ![h][pid[h][l]] = Partial]
        /\ Goto(h, l, "staged")
    BY DEF OpenStage, At
  <1>2. OutfilesTrue'
    BY <1>1 DEF OutfilesTrue, Seen
  <1>3. stage'[h][pid[h][l]] = Partial
    BY <1>1, OwnStaging
  <1>4. OthersKeep(h, l) /\ pc'[h][l] = "staged"
    <2>1. /\ pc'[h][l] = "staged"
          /\ \A g \in Helpers, m \in Launchers :
               (g # h \/ m # l) => pc'[g][m] = pc[g][m]
      BY <1>1, GotoPc
    <2>2. \E c : stage' = [stage EXCEPT ![h][pid[h][l]] = c]
      BY <1>1, Zenon
    <2> QED
      BY <1>1, <2>1, <2>2 DEF OthersKeep
  <1>5. StagingIntact(h, l)'
    BY <1>1, <1>3, <1>4 DEF StagingIntact, At
  <1> QED
    BY <1>2, <1>4, <1>5, OthersStaging

LEMMA CollectStaging ==
  ASSUME IInv, NEW h \in Helpers, NEW l \in Launchers, Collect(h, l)
  PROVE  LiveStagingIntact' /\ OutfilesTrue'
  <1> USE DEF IInv, PidInv
  <1>1. /\ world' = world /\ outfile' = outfile /\ pid' = pid
        /\ pc[h][l] = "staged"
        /\ Goto(h, l, "collected")
    BY DEF Collect, At
  <1>2. OutfilesTrue'
    BY <1>1 DEF OutfilesTrue, Seen
  <1>3. stage[h][pid[h][l]] = Partial
    BY <1>1 DEF LiveStagingIntact, StagingIntact, At
  <1>4. stage' = [stage EXCEPT ![h][pid[h][l]] = Now]
    <2>1. stage[h][pid[h][l]] # None
      BY <1>3, SentinelAssumption
    <2>2. pid[h][l] \in Pids
      BY <1>1, LivePid
    <2> QED
      BY <2>1, <2>2 DEF Collect, TypeOK
  <1>5. stage'[h][pid[h][l]] = Now
    BY <1>1, <1>4, OwnStaging
  <1>6. Seen(Now)'
    BY <1>1, NowIsSeen DEF Seen, Now
  <1>7. OthersKeep(h, l) /\ pc'[h][l] = "collected"
    <2>1. /\ pc'[h][l] = "collected"
          /\ \A g \in Helpers, m \in Launchers :
               (g # h \/ m # l) => pc'[g][m] = pc[g][m]
      BY <1>1, GotoPc
    <2>2. \E c : stage' = [stage EXCEPT ![h][pid[h][l]] = c]
      BY <1>1, <1>4, Zenon
    <2> QED
      BY <1>1, <2>1, <2>2 DEF OthersKeep
  <1>8. StagingIntact(h, l)'
    BY <1>1, <1>5, <1>6, <1>7 DEF StagingIntact, At, Seen, Now
  <1> QED
    BY <1>2, <1>7, <1>8, OthersStaging

LEMMA PublishStaging ==
  ASSUME IInv, NEW h \in Helpers, NEW l \in Launchers, Publish(h, l)
  PROVE  /\ LiveStagingIntact' /\ OutfilesTrue'
         /\ Seen(stage[h][pid[h][l]])
  <1> USE DEF IInv, PidInv
  <1>1. /\ world' = world /\ pid' = pid /\ pc[h][l] = "collected"
        /\ Goto(h, l, "published")
        /\ stage' = [stage EXCEPT ![h][pid[h][l]] = None]
        /\ outfile' = [outfile EXCEPT ![h] = stage[h][pid[h][l]]]
    BY DEF Publish, At
  <1>2. Seen(stage[h][pid[h][l]])
    BY <1>1 DEF LiveStagingIntact, StagingIntact, At
  <1>3. OutfilesTrue'
    BY <1>1, <1>2 DEF OutfilesTrue, Seen, TypeOK
  <1>4. OthersKeep(h, l) /\ pc'[h][l] = "published"
    <2>1. /\ pc'[h][l] = "published"
          /\ \A g \in Helpers, m \in Launchers :
               (g # h \/ m # l) => pc'[g][m] = pc[g][m]
      BY <1>1, GotoPc
    <2>2. \E c : stage' = [stage EXCEPT ![h][pid[h][l]] = c]
      BY <1>1, Zenon
    <2> QED
      BY <1>1, <2>1, <2>2 DEF OthersKeep
  <1>5. StagingIntact(h, l)'
    BY <1>4 DEF StagingIntact, At
  <1> QED
    BY <1>2, <1>3, <1>4, <1>5, OthersStaging

(* A run that ends, well or not, at most removes its own staging file.     *)
LEMMA EndStaging ==
  ASSUME IInv, NEW h \in Helpers, NEW l \in Launchers, pc[h][l] # "idle",
         Finish(h, l) \/ DiesSomehow(h, l)
  PROVE  LiveStagingIntact' /\ OutfilesTrue'
  <1> USE DEF IInv, PidInv
  <1>1. /\ world' = world /\ outfile' = outfile
        /\ Goto(h, l, "idle")
        /\ pid' = [pid EXCEPT ![h][l] = None]
        /\ stage' = stage \/ stage' = [stage EXCEPT ![h][pid[h][l]] = None]
    BY DEF Finish, DiesSomehow, Dies
  <1>2. OutfilesTrue'
    BY <1>1 DEF OutfilesTrue, Seen
  <1>3. \A g \in Helpers, m \in Launchers :
           (g # h \/ m # l) => pid'[g][m] = pid[g][m]
    BY <1>1 DEF TypeOK
  <1>4. OthersKeep(h, l) /\ pc'[h][l] = "idle"
    BY <1>1, <1>3, GotoPc DEF OthersKeep
  <1>5. StagingIntact(h, l)'
    BY <1>4 DEF StagingIntact, At
  <1> QED
    BY <1>2, <1>4, <1>5, OthersStaging

LEMMA NextIInv == IInv /\ [Next]_vars => IInv'
  <1> SUFFICES ASSUME IInv, [Next]_vars PROVE IInv'
    OBVIOUS
  <1> USE DEF IInv
  <1>1. PidInv'
    BY NextPidInv
  <1>2. ASSUME NEW h \in Helpers, CronLaunches(h) \/ SetupLaunches(h)
        PROVE  LiveStagingIntact' /\ OutfilesTrue'
    BY <1>2, LaunchStaging DEF CronLaunches, SetupLaunches
  <1>3. ASSUME NEW h \in Helpers, NEW l \in Launchers,
               RunStep(h, l) \/ Abort(h, l) \/ Kill(h, l)
        PROVE  LiveStagingIntact' /\ OutfilesTrue'
    <2>1. CASE CollectAborts(h, l) \/ Abort(h, l) \/ Kill(h, l)
      <3>1. pc[h][l] # "idle"
        BY <2>1 DEF CollectAborts, Abort, Kill, At
      <3> QED
        BY <2>1, <3>1, DeathsDie, EndStaging DEF PidInv
    <2>2. CASE Finish(h, l)
      <3>1. pc[h][l] # "idle"
        BY <2>2 DEF Finish, At
      <3> QED
        BY <2>2, <3>1, EndStaging
    <2> QED
      BY <1>3, <2>1, <2>2, OpenStaging, CollectStaging, PublishStaging DEF RunStep
  <1>4. CASE WorldChanges
    <2>1. UNCHANGED <<stage, outfile, pc, pid>>
      BY <1>4 DEF WorldChanges
    <2>2. ASSUME NEW c, Seen(c) PROVE Seen(c)'
      BY <1>4, <2>2, SeenGrows DEF PidInv
    <2>3. ASSUME NEW h \in Helpers, NEW l \in Launchers PROVE StagingIntact(h, l)'
      BY <2>1, <2>2 DEF LiveStagingIntact, StagingIntact, At
    <2>4. OutfilesTrue'
      BY <2>1, <2>2 DEF OutfilesTrue
    <2> QED
      BY <1>1, <2>3, <2>4 DEF LiveStagingIntact
  <1>5. CASE SetupClears
    <2>1. UNCHANGED <<stage, pc, pid, world>> /\ outfile' = [h \in Helpers |-> None]
      BY <1>5 DEF SetupClears
    <2>2. LiveStagingIntact'
      BY <2>1 DEF LiveStagingIntact, StagingIntact, Seen, At
    <2> QED
      BY <1>1, <2>1, <2>2 DEF OutfilesTrue
  <1>6. CASE Reboot
    <2>1. /\ pc' = [h \in Helpers |-> [l \in Launchers |-> "idle"]]
          /\ outfile' = [h \in Helpers |-> None]
      BY <1>6 DEF Reboot
    <2> QED
      BY <1>1, <2>1 DEF LiveStagingIntact, StagingIntact, OutfilesTrue, At
  <1>7. CASE UNCHANGED <<stage, outfile, pc, pid, world>>
    BY <1>1, <1>7 DEF LiveStagingIntact, StagingIntact, OutfilesTrue, Seen, At
  <1> QED
    BY <1>1, <1>2, <1>3, <1>4, <1>5, <1>6, <1>7
       DEF Next, vars, SetupSchedules, SetupFinishes, SetupDies

(* No sweep and no leftover gets between a run and its staging file.       *)
THEOREM StagingIsIntact == Spec => []LiveStagingIntact
  <1>1. IInv => LiveStagingIntact
    BY DEF IInv
  <1> QED
    BY <1>1, InitIInv, NextIInv, PTL DEF Spec

--------------------------------------------------------------------------------
(* The scraper's view: TextfilePublish implements SnapshotBoard.           *)

LEMMA InitBoard == Init => Board!BoardInit
  BY DEF Init, Board!BoardInit

LEMMA NextBoard == IInv /\ [Next]_vars => [Board!BoardNext]_(Board!boardVars)
  <1> SUFFICES ASSUME IInv, [Next]_vars
               PROVE  Board!BoardNext \/ UNCHANGED <<world, outfile>>
    BY DEF Board!boardVars
  <1>1. ASSUME NEW h \in Helpers, CronLaunches(h) \/ SetupLaunches(h)
        PROVE  UNCHANGED <<world, outfile>>
    BY <1>1 DEF CronLaunches, SetupLaunches, Launch
  <1>2. ASSUME NEW h \in Helpers, NEW l \in Launchers, Publish(h, l)
        PROVE  Board!Post(h)
    BY <1>2, PublishStaging DEF Seen, Publish, Board!Post
  <1>3. ASSUME NEW h \in Helpers, NEW l \in Launchers,
               RunStep(h, l) \/ Abort(h, l) \/ Kill(h, l), ~Publish(h, l)
        PROVE  UNCHANGED <<world, outfile>>
    BY <1>3 DEF RunStep, OpenStage, Collect, CollectAborts, Finish, Abort, Kill, Dies
  <1>4. CASE WorldChanges
    BY <1>4 DEF WorldChanges, Board!WorldChanges, Board!BoardNext
  <1>5. CASE SetupClears \/ Reboot
    BY <1>5 DEF SetupClears, Reboot, Board!TakeDown, Board!BoardNext
  <1>6. CASE SetupSchedules \/ SetupFinishes \/ SetupDies \/ UNCHANGED vars
    BY <1>6 DEF SetupSchedules, SetupFinishes, SetupDies, vars
  <1> QED
    BY <1>1, <1>2, <1>3, <1>4, <1>5, <1>6 DEF Next, Board!BoardNext

(* Whatever overlaps, dies or is swept, a scrape of /var/prometheus finds  *)
(* whole snapshots of what the sources really were, posted in one step.    *)
THEOREM Implementation == Spec => ImplementsBoard
  <1> QED
    BY InitIInv, NextIInv, InitBoard, NextBoard, PTL
       DEF Spec, ImplementsBoard, Board!BoardSpec

--------------------------------------------------------------------------------
(* The installer and the files it clears.  It waits for each helper it     *)
(* runs and dies with it, so a run it started is that of its next helper,  *)
(* and no clearing falls between that run's publication and its end.       *)

SetupRunsNext ==
  \A h \in Helpers :
    pc[h]["setup"] # "idle" =>
      /\ setup.step = "running"
      /\ setup.next \in DOMAIN install /\ install[setup.next] = h

SetupPublished ==
  \A h \in Helpers : pc[h]["setup"] = "published" => outfile[h] # None

PassedAreShown ==
  setup.step \in {"running", "done"} =>
    \A i \in DOMAIN install : i < setup.next => outfile[install[i]] # None

SetupInv ==
  /\ SetupRunsNext /\ SetupPublished /\ PassedAreShown
  /\ setup.step = "cleared" => setup.next = 1
  /\ setup.step = "done" => setup.next = Len(install) + 1

LEMMA InstallShape ==
  ASSUME TypeOK
  PROVE  /\ DOMAIN install = 1..Len(install) /\ Len(install) \in Nat
         /\ \A i \in DOMAIN install : install[i] \in Helpers
  <1>1. install \in Seq(Helpers)
    BY InstallsAssumption DEF TypeOK
  <1> QED
    BY <1>1

(* A step that takes no file down and moves neither the installer nor its  *)
(* runs.                                                                   *)
LEMMA SetupUntouched ==
  ASSUME TypeOK, SetupInv, UNCHANGED <<install, setup>>,
         \A h \in Helpers : pc'[h]["setup"] = pc[h]["setup"],
         \A h \in Helpers : outfile[h] # None => outfile'[h] # None
  PROVE  SetupInv'
  BY InstallShape DEF SetupInv, SetupRunsNext, SetupPublished, PassedAreShown

LEMMA InitSetupInv == Init => SetupInv
  BY DEF Init, SetupInv, SetupRunsNext, SetupPublished, PassedAreShown

(* The installer starts its next helper, or one of its runs goes on.       *)
LEMMA SetupRunGoesOn ==
  ASSUME TypeOK, SetupInv, NEW h \in Helpers, NEW step \in Steps,
         UNCHANGED <<install, setup>>,
         pc' = [pc EXCEPT ![h]["setup"] = step],
         setup.step = "running", setup.next \in DOMAIN install,
         install[setup.next] = h,
         \A g \in Helpers : outfile[g] # None => outfile'[g] # None,
         step = "published" => outfile'[h] # None
  PROVE  SetupInv'
  <1>1. /\ pc'[h]["setup"] = step
        /\ \A g \in Helpers : g # h => pc'[g]["setup"] = pc[g]["setup"]
    BY DEF TypeOK
  <1>2. SetupRunsNext'
    BY <1>1 DEF SetupInv, SetupRunsNext
  <1>3. SetupPublished'
    BY <1>1 DEF SetupInv, SetupPublished
  <1>4. PassedAreShown'
    BY InstallShape DEF SetupInv, PassedAreShown
  <1> QED
    BY <1>2, <1>3, <1>4 DEF SetupInv

(* No step of a run takes a file down.                                     *)
LEMMA RunStepsSetup ==
  ASSUME TypeOK, SetupInv, NEW h \in Helpers, NEW l \in Launchers,
         OpenStage(h, l) \/ Collect(h, l) \/ Publish(h, l)
  PROVE  SetupInv'
  <1>1. PICK step \in Steps : Goto(h, l, step) /\ (step = "published" => Publish(h, l))
    BY DEF OpenStage, Collect, Publish, Steps
  <1>2. UNCHANGED <<install, setup>> /\ pc[h][l] # "idle"
    BY DEF OpenStage, Collect, Publish, At
  <1>3. /\ \A g \in Helpers : outfile[g] # None => outfile'[g] # None
        /\ Publish(h, l) => outfile'[h] # None
    BY DEF OpenStage, Collect, Publish, TypeOK
  <1>4. CASE l = "setup"
    <2>1. /\ setup.step = "running" /\ setup.next \in DOMAIN install
          /\ install[setup.next] = h
      BY <1>2, <1>4 DEF SetupInv, SetupRunsNext
    <2>2. pc' = [pc EXCEPT ![h]["setup"] = step]
      BY <1>1, <1>4 DEF Goto
    <2> QED
      BY <1>1, <1>2, <1>3, <2>1, <2>2, SetupRunGoesOn
  <1>5. CASE l = "cron"
    <2>1. \A g \in Helpers : pc'[g]["setup"] = pc[g]["setup"]
      BY <1>1, <1>5 DEF Goto, TypeOK
    <2> QED
      BY <1>2, <1>3, <2>1, SetupUntouched
  <1> QED
    BY <1>4, <1>5

LEMMA LaunchSetup ==
  ASSUME TypeOK, SetupInv, NEW h \in Helpers, CronLaunches(h) \/ SetupLaunches(h)
  PROVE  SetupInv'
  <1>1. CASE CronLaunches(h)
    <2>1. /\ UNCHANGED <<install, setup, outfile>>
          /\ pc' = [pc EXCEPT ![h]["cron"] = "armed"]
      BY <1>1 DEF CronLaunches, Launch, Goto
    <2>2. \A g \in Helpers : pc'[g]["setup"] = pc[g]["setup"]
      BY <2>1 DEF TypeOK
    <2> QED
      BY <2>1, <2>2, SetupUntouched
  <1>2. CASE SetupLaunches(h)
    <2>1. /\ UNCHANGED <<install, setup, outfile>>
          /\ pc' = [pc EXCEPT ![h]["setup"] = "armed"]
          /\ setup.step = "running" /\ setup.next \in DOMAIN install
          /\ install[setup.next] = h
      BY <1>2 DEF SetupLaunches, Launch, Goto
    <2>2. "armed" \in Steps /\ "armed" # "published"
      BY DEF Steps
    <2> QED
      BY <2>1, <2>2, SetupRunGoesOn
  <1> QED
    BY <1>1, <1>2

(* A run that ends moves the installer on, or takes it down.               *)
LEMMA EndSetup ==
  ASSUME TypeOK, SetupInv, NEW h \in Helpers, NEW l \in Launchers, pc[h][l] # "idle",
         Finish(h, l) \/ DiesSomehow(h, l)
  PROVE  SetupInv'
  <1>1. /\ UNCHANGED <<install, outfile>>
        /\ pc' = [pc EXCEPT ![h][l] = "idle"]
    BY DEF Finish, DiesSomehow, Dies, Goto
  <1>2. CASE l = "cron"
    <2>1. setup' = setup
      BY <1>2 DEF Finish, DiesSomehow, Dies
    <2>2. \A g \in Helpers : pc'[g]["setup"] = pc[g]["setup"]
      BY <1>1, <1>2 DEF TypeOK
    <2> QED
      BY <1>1, <2>1, <2>2, SetupUntouched
  <1>3. CASE l = "setup"
    <2>1. \A g \in Helpers : pc'[g]["setup"] = "idle"
      BY <1>1, <1>3 DEF TypeOK, SetupInv, SetupRunsNext
    <2>2. /\ setup.step = "running" /\ setup.next \in DOMAIN install
          /\ install[setup.next] = h
      BY <1>3 DEF SetupInv, SetupRunsNext
    <2>3. CASE DiesSomehow(h, l)
      <3>1. setup'.step = "failed"
        BY <1>3, <2>3 DEF DiesSomehow, Dies, TypeOK
      <3> QED
        BY <2>1, <3>1 DEF SetupInv, SetupRunsNext, SetupPublished, PassedAreShown
    <2>4. CASE Finish(h, l)
      <3>1. /\ setup'.step = "running" /\ setup'.next = setup.next + 1
            /\ outfile[h] # None
        BY <1>3, <2>2, <2>4 DEF Finish, At, TypeOK, SetupInv, SetupPublished
      <3>2. PassedAreShown'
        BY <1>1, <2>2, <3>1, InstallShape DEF SetupInv, PassedAreShown
      <3> QED
        BY <2>1, <3>1, <3>2 DEF SetupInv, SetupRunsNext, SetupPublished
    <2> QED
      BY <2>3, <2>4
  <1> QED
    BY <1>2, <1>3

LEMMA InstallerSetup ==
  ASSUME TypeOK, SetupInv,
         SetupClears \/ SetupSchedules \/ SetupFinishes \/ SetupDies \/ Reboot
  PROVE  SetupInv'
  <1> USE DEF SetupInv, SetupRunsNext, SetupPublished, PassedAreShown
  <1>1. CASE SetupClears
    <2>1. \A h \in Helpers : pc'[h]["setup"] = "idle"
      BY <1>1 DEF SetupClears
    <2> QED
      BY <1>1, <2>1 DEF SetupClears
  <1>2. CASE SetupSchedules
    <2>1. setup'.step = "running" /\ setup'.next = 1
      BY <1>2 DEF SetupSchedules, TypeOK
    <2>2. \A h \in Helpers : pc'[h]["setup"] = "idle"
      BY <1>2 DEF SetupSchedules
    <2>3. \A i \in DOMAIN install' : ~(i < setup'.next)
      BY <1>2, <2>1, InstallShape DEF SetupSchedules
    <2> QED
      BY <2>1, <2>2, <2>3
  <1>3. CASE SetupFinishes
    <2>1. /\ setup'.step = "done" /\ setup'.next = Len(install) + 1
          /\ setup.step = "running" /\ setup.next = Len(install) + 1
          /\ UNCHANGED <<install, outfile, pc>>
      BY <1>3 DEF SetupFinishes, TypeOK
    <2>2. \A h \in Helpers : pc[h]["setup"] = "idle"
      BY <2>1, InstallShape
    <2> QED
      BY <2>1, <2>2
  <1>4. CASE SetupDies
    <2>1. setup'.step = "failed" /\ \A h \in Helpers : pc'[h]["setup"] = "idle"
      BY <1>4 DEF SetupDies, At, TypeOK
    <2> QED
      BY <2>1
  <1>5. CASE Reboot
    BY <1>5 DEF Reboot
  <1> QED
    BY <1>1, <1>2, <1>3, <1>4, <1>5

LEMMA NextSetupInv == TypeOK /\ SetupInv /\ [Next]_vars => SetupInv'
  <1> SUFFICES ASSUME TypeOK, SetupInv, [Next]_vars PROVE SetupInv'
    OBVIOUS
  <1>1. ASSUME NEW h \in Helpers, NEW l \in Launchers,
               RunStep(h, l) \/ Abort(h, l) \/ Kill(h, l)
        PROVE  SetupInv'
    <2>1. CASE CollectAborts(h, l) \/ Abort(h, l) \/ Kill(h, l)
      <3>1. pc[h][l] # "idle"
        BY <2>1 DEF CollectAborts, Abort, Kill, At
      <3> QED
        BY <2>1, <3>1, DeathsDie, EndSetup
    <2>2. CASE Finish(h, l)
      <3>1. pc[h][l] # "idle"
        BY <2>2 DEF Finish, At
      <3> QED
        BY <2>2, <3>1, EndSetup
    <2> QED
      BY <1>1, <2>1, <2>2, RunStepsSetup DEF RunStep
  <1>2. CASE WorldChanges \/ UNCHANGED vars
    <2>1. UNCHANGED <<install, setup, pc, outfile>>
      BY <1>2 DEF WorldChanges, vars
    <2> QED
      BY <2>1, SetupUntouched
  <1> QED
    BY <1>1, <1>2, LaunchSetup, InstallerSetup DEF Next

(* When the installer reports success, every helper it ran has a file on   *)
(* display, whatever cron, crashes and reruns did meanwhile.               *)
THEOREM ClearedIsShownAgain == Spec => []ClearingIsSafe
  <1>1. PidInv => TypeOK
    BY DEF PidInv
  <1>2. TypeOK /\ SetupInv => ClearingIsSafe
    <2> SUFFICES ASSUME TypeOK, SetupInv, setup.step = "done",
                        NEW i \in DOMAIN install
                 PROVE  outfile[install[i]] # None
      BY DEF ClearingIsSafe
    <2>1. i < setup.next
      BY InstallShape DEF SetupInv
    <2> QED
      BY <2>1 DEF SetupInv, PassedAreShown
  <1> QED
    BY <1>1, <1>2, InitPidInv, NextPidInv, InitSetupInv, NextSetupInv, PTL DEF Spec

--------------------------------------------------------------------------------
(* cron alone: nobody has started the installer, so each helper has one    *)
(* run at a time, and what it has collected is no older than what its last *)
(* run left on display.                                                    *)

CronOnly ==
  rounds = 0 =>
    /\ setup.step = "idle"
    /\ \A h \in Helpers :
         At(h, "cron", "collected") /\ outfile[h] # None =>
           stage[h][pid[h]["cron"]].epoch >= outfile[h].epoch

CronInv == IInv /\ SetupInv /\ CronOnly

LEMMA NoSetupRun ==
  ASSUME CronInv, rounds = 0, NEW h \in Helpers, NEW l \in Launchers, pc[h][l] # "idle"
  PROVE  l = "cron"
  BY DEF CronInv, CronOnly, SetupInv, SetupRunsNext

(* What a step of the run of h does not touch.                             *)
LEMMA OtherHelpers ==
  ASSUME IInv, NEW h \in Helpers, NEW l \in Launchers, NEW g \in Helpers, g # h,
         Launch(h, l) \/ OpenStage(h, l) \/ Collect(h, l) \/ Publish(h, l)
           \/ Finish(h, l) \/ DiesSomehow(h, l)
  PROVE  /\ pc'[g]["cron"] = pc[g]["cron"] /\ pid'[g]["cron"] = pid[g]["cron"]
         /\ stage'[g] = stage[g] /\ outfile'[g] = outfile[g]
  <1>1. pc'[g] = pc[g]
    BY DEF Launch, OpenStage, Collect, Publish, Finish, DiesSomehow, Dies, Goto,
           IInv, PidInv, TypeOK
  <1>2. pid'[g] = pid[g]
    BY DEF Launch, OpenStage, Collect, Publish, Finish, DiesSomehow, Dies,
           IInv, PidInv, TypeOK
  <1>3. stage'[g] = stage[g]
    BY SweepAssumption DEF Launch, OpenStage, Collect, Publish, Finish, DiesSomehow,
           Dies, IInv, PidInv, TypeOK
  <1>4. outfile'[g] = outfile[g]
    BY DEF Launch, OpenStage, Collect, Publish, Finish, DiesSomehow, Dies,
           IInv, PidInv, TypeOK
  <1> QED
    BY <1>1, <1>2, <1>3, <1>4

(* Only the installer's clearing counts a round.                           *)
LEMMA RoundsMove == [Next]_vars => rounds' = rounds \/ SetupClears
  <1> SUFFICES ASSUME [Next]_vars PROVE rounds' = rounds \/ SetupClears
    OBVIOUS
  <1> DEFINE Kept == rounds' = rounds
  <1>1. ASSUME NEW h \in Helpers, CronLaunches(h) \/ SetupLaunches(h) PROVE Kept
    BY <1>1 DEF CronLaunches, SetupLaunches, Launch
  <1>2. ASSUME NEW h \in Helpers, NEW l \in Launchers, RunStep(h, l) PROVE Kept
    BY <1>2 DEF RunStep, OpenStage, Collect, CollectAborts, Publish, Finish, Dies
  <1>3. ASSUME NEW h \in Helpers, NEW l \in Launchers, Abort(h, l) \/ Kill(h, l) PROVE Kept
    BY <1>3 DEF Abort, Kill, Dies
  <1>4. CASE SetupSchedules \/ SetupFinishes \/ SetupDies \/ Reboot \/ WorldChanges
    BY <1>4 DEF SetupSchedules, SetupFinishes, SetupDies, Reboot, WorldChanges
  <1>5. CASE UNCHANGED vars
    BY <1>5 DEF vars
  <1> HIDE DEF Kept
  <1> QED
    BY <1>1, <1>2, <1>3, <1>4, <1>5 DEF Next, Kept

(* A file on display changes only when a run publishes it and when all     *)
(* files are taken down.                                                   *)
LEMMA DisplayMoves ==
  ASSUME [Next]_vars
  PROVE  \/ \E g \in Helpers, l \in Launchers : Publish(g, l)
         \/ outfile' = outfile
         \/ outfile' = [g \in Helpers |-> None]
  <1> DEFINE Kept == outfile' = outfile
  <1>1. ASSUME NEW h \in Helpers, CronLaunches(h) \/ SetupLaunches(h) PROVE Kept
    BY <1>1 DEF CronLaunches, SetupLaunches, Launch
  <1>2. ASSUME NEW h \in Helpers, NEW l \in Launchers, RunStep(h, l), ~Publish(h, l) PROVE Kept
    BY <1>2 DEF RunStep, OpenStage, Collect, CollectAborts, Finish, Dies
  <1>3. ASSUME NEW h \in Helpers, NEW l \in Launchers, Abort(h, l) \/ Kill(h, l) PROVE Kept
    BY <1>3 DEF Abort, Kill, Dies
  <1>4. CASE SetupSchedules \/ SetupFinishes \/ SetupDies \/ WorldChanges
    BY <1>4 DEF SetupSchedules, SetupFinishes, SetupDies, WorldChanges, files
  <1>5. CASE UNCHANGED vars
    BY <1>5 DEF vars, files
  <1>6. SetupClears \/ Reboot => outfile' = [g \in Helpers |-> None]
    BY DEF SetupClears, Reboot
  <1> HIDE DEF Kept
  <1> QED
    BY <1>1, <1>2, <1>3, <1>4, <1>5, <1>6 DEF Next, Kept

(* What has been seen was seen at an epoch up to now.                      *)
LEMMA SeenEpoch ==
  ASSUME TypeOK, NEW c, Seen(c)
  PROVE  c.epoch \in Nat /\ c.epoch <= Len(world)
  BY DEF TypeOK, Seen, Board!SnapshotOf

LEMMA NextCronOnly == CronInv /\ [Next]_vars => CronOnly'
  <1> SUFFICES ASSUME CronInv, [Next]_vars, rounds' = 0
               PROVE  /\ setup'.step = "idle"
                      /\ \A h \in Helpers :
                           At(h, "cron", "collected")' /\ outfile'[h] # None =>
                             stage'[h][pid'[h]["cron"]].epoch >= outfile'[h].epoch
    BY DEF CronOnly
  <1>1. rounds = 0 /\ ~SetupClears
    <2>1. rounds \in Nat
      BY BoundAssumption DEF CronInv, IInv, PidInv, TypeOK
    <2>2. rounds' = rounds \/ SetupClears
      BY RoundsMove
    <2>3. SetupClears => rounds' = rounds + 1
      BY DEF SetupClears
    <2> QED
      BY <2>1, <2>2, <2>3
  <1>2. setup.step = "idle"
    BY <1>1 DEF CronInv, CronOnly
  <1>3. ASSUME NEW h \in Helpers,
               Launch(h, "cron") \/ OpenStage(h, "cron") \/ Collect(h, "cron")
                 \/ Publish(h, "cron") \/ Finish(h, "cron") \/ DiesSomehow(h, "cron")
        PROVE  /\ setup'.step = "idle"
               /\ \A g \in Helpers :
                    At(g, "cron", "collected")' /\ outfile'[g] # None =>
                      stage'[g][pid'[g]["cron"]].epoch >= outfile'[g].epoch
    <2>1. setup' = setup
      BY <1>3 DEF Launch, OpenStage, Collect, Publish, Finish, DiesSomehow, Dies
    <2>2. ASSUME NEW g \in Helpers, g # h
          PROVE  At(g, "cron", "collected")' /\ outfile'[g] # None =>
                   stage'[g][pid'[g]["cron"]].epoch >= outfile'[g].epoch
      BY <1>1, <1>3, <2>2, OtherHelpers DEF CronInv, CronOnly, At
    <2>3. pc'[h]["cron"] = "collected" => Collect(h, "cron")
      BY <1>3 DEF Launch, OpenStage, Publish, Finish, DiesSomehow, Dies, Goto,
                  CronInv, IInv, PidInv, TypeOK
    <2>4. ASSUME Collect(h, "cron"), outfile'[h] # None
          PROVE  stage'[h][pid'[h]["cron"]].epoch >= outfile'[h].epoch
      <3>1. /\ pc[h]["cron"] = "staged" /\ pid' = pid /\ outfile' = outfile
        BY <2>4 DEF Collect, At
      <3>2. stage[h][pid[h]["cron"]] = Partial /\ pid[h]["cron"] \in Pids
        BY <3>1, LivePid DEF CronInv, IInv, LiveStagingIntact, StagingIntact, At
      <3>3. stage'[h][pid'[h]["cron"]] = Now
        BY <2>4, <3>1, <3>2, SentinelAssumption DEF Collect, CronInv, IInv, PidInv, TypeOK
      <3>4. Now.epoch = Len(world)
        BY DEF Now, Board!SnapshotOf
      <3>5. Seen(outfile[h])
        BY <2>4, <3>1 DEF CronInv, IInv, OutfilesTrue
      <3>6. outfile[h].epoch \in Nat /\ outfile[h].epoch <= Len(world)
        BY <3>5, SeenEpoch DEF CronInv, IInv, PidInv
      <3>7. Len(world) \in Nat
        BY DEF CronInv, IInv, PidInv, TypeOK
      <3> QED
        BY <3>1, <3>3, <3>4, <3>6, <3>7
    <2> QED
      BY <1>2, <2>1, <2>2, <2>3, <2>4 DEF At
  <1>4. ASSUME NEW h \in Helpers, CronLaunches(h) \/ SetupLaunches(h)
        PROVE  Launch(h, "cron")
    BY <1>2, <1>4 DEF CronLaunches, SetupLaunches
  <1>5. ASSUME NEW h \in Helpers, NEW l \in Launchers,
               RunStep(h, l) \/ Abort(h, l) \/ Kill(h, l)
        PROVE  /\ l = "cron"
               /\ OpenStage(h, "cron") \/ Collect(h, "cron") \/ Publish(h, "cron")
                    \/ Finish(h, "cron") \/ DiesSomehow(h, "cron")
    <2>1. pc[h][l] # "idle"
      BY <1>5 DEF RunStep, OpenStage, Collect, CollectAborts, Publish, Finish, Abort,
                  Kill, At
    <2>2. l = "cron"
      BY <1>1, <2>1, NoSetupRun
    <2> QED
      BY <1>5, <2>2, DeathsDie DEF RunStep, CronInv, IInv, PidInv
  <1>6. CASE Reboot
    BY <1>6 DEF Reboot
  <1>7. CASE WorldChanges \/ UNCHANGED vars
    BY <1>1, <1>7 DEF WorldChanges, vars, CronInv, CronOnly, At
  <1>8. ~SetupSchedules /\ ~SetupFinishes /\ ~SetupDies
    BY <1>2 DEF SetupSchedules, SetupFinishes, SetupDies
  <1> QED
    BY <1>1, <1>3, <1>4, <1>5, <1>6, <1>7, <1>8 DEF Next

(* As long as nobody starts the installer, what a file shows never goes    *)
(* back to an earlier observation, whatever dies or reboots.               *)
THEOREM CronShowsProgress == Spec => CronNeverGoesBack
  <1> DEFINE Step == rounds' = 0 =>
               \A h \in Helpers :
                 (outfile[h] # None /\ outfile'[h] # None)
                   => outfile'[h].epoch >= outfile[h].epoch
  <1>1. Init => CronInv
    BY InitIInv, InitSetupInv DEF Init, CronInv, CronOnly, At
  <1>2. CronInv /\ [Next]_vars => CronInv'
    BY NextIInv, NextSetupInv, NextCronOnly DEF CronInv, IInv, PidInv
  <1>3. CronInv /\ [Next]_vars => [Step]_vars
    <2> SUFFICES ASSUME CronInv, Next, rounds' = 0, NEW h \in Helpers,
                        outfile[h] # None, outfile'[h] # None
                 PROVE  outfile'[h].epoch >= outfile[h].epoch
      OBVIOUS
    <2>1. rounds = 0
      <3>1. rounds \in Nat
        BY BoundAssumption DEF CronInv, IInv, PidInv, TypeOK
      <3>2. rounds' = rounds \/ rounds' = rounds + 1
        BY RoundsMove DEF SetupClears
      <3> QED
        BY <3>1, <3>2
    <2>2. ASSUME outfile'[h] = outfile[h]
          PROVE  outfile'[h].epoch >= outfile[h].epoch
      <3>1. outfile[h].epoch \in Nat
        BY SeenEpoch DEF CronInv, IInv, PidInv, OutfilesTrue
      <3> QED
        BY <2>2, <3>1
    <2>3. ASSUME NEW g \in Helpers, NEW l \in Launchers, Publish(g, l)
          PROVE  outfile'[h].epoch >= outfile[h].epoch
      <3>1. l = "cron" /\ At(g, l, "collected")
        BY <2>1, <2>3, NoSetupRun DEF Publish, At
      <3>2. CASE g = h
        BY <2>1, <2>3, <3>1, <3>2 DEF Publish, CronInv, CronOnly, IInv, PidInv, TypeOK
      <3>3. CASE g # h
        BY <2>2, <2>3, <3>3 DEF Publish, CronInv, IInv, PidInv, TypeOK
      <3> QED
        BY <3>2, <3>3
    <2>4. \/ \E g \in Helpers, l \in Launchers : Publish(g, l)
          \/ outfile' = outfile
          \/ outfile' = [g \in Helpers |-> None]
      BY DisplayMoves
    <2> QED
      BY <2>2, <2>3, <2>4
  <1> QED
    BY <1>1, <1>2, <1>3, PTL DEF Spec, CronNeverGoesBack

--------------------------------------------------------------------------------
(* What the scripts leave behind.  A run that has renamed its staging file *)
(* has none, so whatever ends a run other than a death without an exit     *)
(* trap, no file of it outlives it.                                        *)

PublishedIsGone ==
  \A h \in Helpers, l \in Launchers : At(h, l, "published") => stage[h][pid[h][l]] = None

NoStrayScratch == \A h \in Helpers : ~Discipline[h].scratch => scratch[h] = {}

CleanInv == IInv /\ PublishedIsGone /\ NoStrayScratch

Left(g, q) ==
  /\ stage[g][q] # None \/ q \in scratch[g]
  /\ \A m \in Launchers : pid[g][m] # q

LEMMA LeftIsMember ==
  ASSUME TypeOK, NEW g \in Helpers, NEW q \in Pids
  PROVE  Left(g, q) <=> q \in LeftBehind(g)
  BY DEF Left, LeftBehind, TypeOK

(* A step of a run leaves the files of the others alone.                   *)
LEMMA RunKeepsOthers ==
  ASSUME IInv, NEW h \in Helpers, NEW l \in Launchers, RunStep(h, l) \/ Abort(h, l) \/ Kill(h, l)
  PROVE  OthersKeep(h, l)
  <1> USE DEF IInv, PidInv
  <1>1. pc[h][l] # "idle" /\ world' = world
    BY DEF RunStep, OpenStage, Collect, CollectAborts, Publish, Finish, Abort, Kill, Dies, At
  <1>2. \E step \in Steps : Goto(h, l, step)
    BY DEF RunStep, OpenStage, Collect, CollectAborts, Publish, Finish, Abort, Kill, Dies, Steps
  <1>3. pid' = pid \/ pid' = [pid EXCEPT ![h][l] = None]
    BY DEF RunStep, OpenStage, Collect, CollectAborts, Publish, Finish, Abort, Kill, Dies
  <1>4. stage' = stage \/ \E c : stage' = [stage EXCEPT ![h][pid[h][l]] = c]
    <2>1. CASE OpenStage(h, l)
      BY <2>1, Zenon DEF OpenStage
    <2>2. CASE Collect(h, l)
      <3>1. stage' = [stage EXCEPT ![h][pid[h][l]] = IF stage[h][pid[h][l]] = None THEN None ELSE Now]
        BY <1>1, <2>2, LivePid DEF Collect, TypeOK
      <3> QED
        BY <3>1, Zenon
    <2>3. CASE Publish(h, l)
      BY <2>3, Zenon DEF Publish
    <2>4. CASE Finish(h, l)
      BY <2>4 DEF Finish
    <2>5. CASE DiesSomehow(h, l)
      <3>1. stage' = stage \/ stage' = [stage EXCEPT ![h][pid[h][l]] = None]
        BY <2>5 DEF DiesSomehow, Dies
      <3> QED
        BY <3>1, Zenon
    <2> QED
      BY <2>1, <2>2, <2>3, <2>4, <2>5, DeathsDie DEF RunStep
  <1>5. \A g \in Helpers, m \in Launchers :
           (g # h \/ m # l) => pc'[g][m] = pc[g][m] /\ pid'[g][m] = pid[g][m]
    BY <1>2, <1>3, GotoPc DEF TypeOK
  <1> QED
    BY <1>1, <1>4, <1>5 DEF OthersKeep

LEMMA NextPublishedIsGone ==
  ASSUME IInv, PublishedIsGone, [Next]_vars
  PROVE  PublishedIsGone'
  <1> USE DEF IInv, PidInv
  <1>1. ASSUME NEW h \in Helpers, NEW l \in Launchers, Launch(h, l)
        PROVE  PublishedIsGone'
    <2>1. stage' = stage
      BY <1>1, SweepAssumption DEF Launch
    <2>2. \A g \in Helpers, m \in Launchers :
             pc'[g][m] = "published" => pc[g][m] = "published" /\ pid'[g][m] = pid[g][m]
      BY <1>1 DEF Launch, Goto, At, TypeOK
    <2> QED
      BY <2>1, <2>2 DEF PublishedIsGone, At
  <1>2. ASSUME NEW h \in Helpers, NEW l \in Launchers, RunStep(h, l) \/ Abort(h, l) \/ Kill(h, l)
        PROVE  PublishedIsGone'
    <2>1. OthersKeep(h, l)
      BY <1>2, RunKeepsOthers
    <2>2. At(h, l, "published")' => stage'[h][pid'[h][l]] = None
      <3> SUFFICES ASSUME pc'[h][l] = "published" PROVE stage'[h][pid'[h][l]] = None
        BY DEF At
      <3>1. Publish(h, l)
        <4>1. CASE OpenStage(h, l)
          BY <4>1, GotoPc DEF OpenStage
        <4>2. CASE Collect(h, l)
          BY <4>2, GotoPc DEF Collect
        <4>3. CASE Finish(h, l)
          BY <4>3, GotoPc DEF Finish
        <4>4. CASE DiesSomehow(h, l)
          BY <4>4, GotoPc DEF DiesSomehow, Dies
        <4> QED
          BY <1>2, <4>1, <4>2, <4>3, <4>4, DeathsDie DEF RunStep
      <3>2. pid' = pid /\ pc[h][l] # "idle" /\ stage' = [stage EXCEPT ![h][pid[h][l]] = None]
        BY <3>1 DEF Publish, At
      <3> QED
        BY <3>2, OwnStaging
    <2>3. ASSUME NEW g \in Helpers, NEW m \in Launchers, g # h \/ m # l, At(g, m, "published")'
          PROVE  stage'[g][pid'[g][m]] = None
      <3>1. pc[g][m] = "published" /\ pid'[g][m] = pid[g][m]
        BY <2>1, <2>3 DEF OthersKeep, At
      <3>2. stage'[g][pid[g][m]] = stage[g][pid[g][m]]
        BY <2>1, <2>3, <3>1, OthersFiles
      <3> QED
        BY <3>1, <3>2 DEF PublishedIsGone, At
    <2> QED
      BY <2>2, <2>3 DEF PublishedIsGone
  <1>3. CASE Reboot
    BY <1>3 DEF Reboot, PublishedIsGone, At
  <1>4. CASE UNCHANGED <<stage, pc, pid>>
    BY <1>4 DEF PublishedIsGone, At
  <1> QED
    BY <1>1, <1>2, <1>3, <1>4
       DEF Next, vars, CronLaunches, SetupLaunches, SetupClears, SetupSchedules, SetupFinishes, SetupDies,
           WorldChanges

LEMMA NextNoStrayScratch ==
  ASSUME IInv, NoStrayScratch, [Next]_vars
  PROVE  NoStrayScratch'
  <1> USE DEF IInv, PidInv
  <1> SUFFICES ASSUME NEW g \in Helpers, ~Discipline[g].scratch PROVE scratch'[g] \subseteq scratch[g]
    BY DEF NoStrayScratch
  <1>1. ASSUME NEW h \in Helpers, NEW l \in Launchers, Launch(h, l)
        PROVE  scratch'[g] \subseteq scratch[g]
    BY <1>1, SweepAssumption DEF Launch
  <1>2. ASSUME NEW h \in Helpers, NEW l \in Launchers, OpenStage(h, l)
        PROVE  scratch'[g] \subseteq scratch[g]
    BY <1>2 DEF OpenStage, TypeOK
  <1>3. ASSUME NEW h \in Helpers, NEW l \in Launchers, Finish(h, l) \/ DiesSomehow(h, l)
        PROVE  scratch'[g] \subseteq scratch[g]
    <2>1. scratch' = scratch \/ scratch' = [scratch EXCEPT ![h] = scratch[h] \ {pid[h][l]}]
      BY <1>3 DEF Finish, DiesSomehow, Dies, TypeOK
    <2>2. scratch \in [Helpers -> SUBSET Pids]
      BY DEF TypeOK
    <2>3. CASE scratch' = [scratch EXCEPT ![h] = scratch[h] \ {pid[h][l]}] /\ g = h
      <3>1. scratch'[g] = scratch[g] \ {pid[h][l]}
        BY <2>2, <2>3
      <3> QED
        BY <3>1
    <2> QED
      BY <2>1, <2>2, <2>3
  <1>4. ASSUME NEW h \in Helpers, NEW l \in Launchers, Collect(h, l) \/ Publish(h, l)
        PROVE  scratch'[g] \subseteq scratch[g]
    BY <1>4 DEF Collect, Publish
  <1>5. CASE Reboot
    BY <1>5 DEF Reboot
  <1>6. CASE UNCHANGED scratch
    BY <1>6
  <1> QED
    BY <1>1, <1>2, <1>3, <1>4, <1>5, <1>6, DeathsDie
       DEF Next, RunStep, vars, files, CronLaunches, SetupLaunches, SetupClears, SetupSchedules,
           SetupFinishes, SetupDies, WorldChanges

(* What a step can add to the files left behind: the files of a run that   *)
(* dies without its trap, and nothing else.                                *)
LEMMA LaunchLeaves ==
  ASSUME IInv, NEW h \in Helpers, NEW l \in Launchers, Launch(h, l),
         NEW g \in Helpers, NEW q \in Pids, Left(g, q)'
  PROVE  Left(g, q)
  <1> USE DEF IInv, PidInv
  <1>1. stage' = stage /\ (q \in scratch'[g] => q \in scratch[g])
    BY SweepAssumption DEF Launch, TypeOK
  <1>2. ASSUME NEW m \in Launchers PROVE pid[g][m] # q
    <2>1. CASE g = h /\ m = l
      BY <2>1, SentinelAssumption DEF Launch, At, RunsHavePids
    <2>2. CASE ~(g = h /\ m = l)
      <3>1. pid'[g][m] = pid[g][m]
        BY <2>2 DEF Launch, TypeOK
      <3> QED
        BY <3>1 DEF Left
    <2> QED
      BY <2>1, <2>2
  <1> QED
    BY <1>1, <1>2 DEF Left

LEMMA WriteLeaves ==
  ASSUME IInv, NEW h \in Helpers, NEW l \in Launchers, OpenStage(h, l) \/ Collect(h, l) \/ Publish(h, l),
         NEW g \in Helpers, NEW q \in Pids, Left(g, q)'
  PROVE  Left(g, q)
  <1> USE DEF IInv, PidInv
  <1>1. pid' = pid /\ pc[h][l] # "idle"
    BY DEF OpenStage, Collect, Publish, At
  <1>2. pid[h][l] \in Pids /\ (g # h \/ q # pid[h][l])
    BY <1>1, LivePid DEF Left
  <1>3. stage'[g][q] = stage[g][q]
    <2>1. OthersKeep(h, l)
      BY RunKeepsOthers DEF RunStep
    <2>2. CASE stage' = stage
      BY <2>2
    <2>3. CASE \E c : stage' = [stage EXCEPT ![h][pid[h][l]] = c]
      BY <1>2, <2>3 DEF TypeOK
    <2> QED
      BY <2>1, <2>2, <2>3 DEF OthersKeep
  <1>4. q \in scratch'[g] => q \in scratch[g]
    BY <1>2 DEF OpenStage, Collect, Publish, TypeOK
  <1> QED
    BY <1>1, <1>3, <1>4 DEF Left

(* ... where the files of the run that ends are none of those left.        *)
LEMMA EndLeaves ==
  ASSUME IInv, NEW h \in Helpers, NEW l \in Launchers, Finish(h, l) \/ DiesSomehow(h, l),
         NEW g \in Helpers, NEW q \in Pids, Left(g, q)', g # h \/ q # pid[h][l]
  PROVE  Left(g, q)
  <1> USE DEF IInv, PidInv
  <1>1. /\ pid' = [pid EXCEPT ![h][l] = None]
        /\ stage' = stage \/ stage' = [stage EXCEPT ![h][pid[h][l]] = None]
        /\ \E gone : scratch' = [scratch EXCEPT ![h] = @ \ gone]
    <2>1. scratch' = scratch \/ scratch' = [scratch EXCEPT ![h] = @ \ {pid[h][l]}]
      BY DEF Finish, DiesSomehow, Dies, TypeOK
    <2>2. scratch = [scratch EXCEPT ![h] = @ \ {}]
      BY DEF TypeOK
    <2>3. /\ pid' = [pid EXCEPT ![h][l] = None]
          /\ stage' = stage \/ stage' = [stage EXCEPT ![h][pid[h][l]] = None]
      BY DEF Finish, DiesSomehow, Dies
    <2> QED
      BY <2>1, <2>2, <2>3, Zenon
  <1>2. stage'[g][q] # None => stage[g][q] # None
    BY <1>1 DEF TypeOK
  <1>3. q \in scratch'[g] => q \in scratch[g]
    BY <1>1 DEF TypeOK
  <1>4. ASSUME NEW m \in Launchers PROVE pid[g][m] # q
    <2>1. CASE g = h /\ m = l
      BY <2>1
    <2>2. CASE ~(g = h /\ m = l)
      <3>1. pid'[g][m] = pid[g][m]
        BY <1>1, <2>2 DEF TypeOK
      <3> QED
        BY <3>1 DEF Left
    <2> QED
      BY <2>1, <2>2
  <1> QED
    BY <1>2, <1>3, <1>4 DEF Left

(* The two ways a run ends with its files removed.                         *)
LEMMA EndCleans ==
  ASSUME CleanInv, NEW h \in Helpers, NEW l \in Launchers,
         Finish(h, l) \/ (pc[h][l] # "idle" /\ Dies(h, l, TRUE)), NEW q, q = pid[h][l]
  PROVE  ~Left(h, q)'
  <1> USE DEF CleanInv, IInv, PidInv
  <1> SUFFICES stage'[h][pid[h][l]] = None /\ pid[h][l] \notin scratch'[h]
    BY DEF Left
  <1>1. CASE Finish(h, l)
    <2>1. stage'[h][pid[h][l]] = None
      BY <1>1 DEF Finish, PublishedIsGone
    <2>2. CASE Discipline[h].trap \/ Discipline[h].rmScratch
      <3>1. scratch' = [scratch EXCEPT ![h] = @ \ {pid[h][l]}]
        BY <1>1, <2>2 DEF Finish
      <3>2. scratch \in [Helpers -> SUBSET Pids]
        BY DEF TypeOK
      <3>3. scratch'[h] = scratch[h] \ {pid[h][l]}
        BY <3>1, <3>2
      <3> QED
        BY <2>1, <3>3
    <2>3. CASE ~(Discipline[h].trap \/ Discipline[h].rmScratch)
      <3>1. scratch[h] = {}
        BY <2>3, ScratchAssumption DEF NoStrayScratch
      <3>2. scratch' = [scratch EXCEPT ![h] = @]
        BY <1>1, <2>3 DEF Finish
      <3>3. scratch \in [Helpers -> SUBSET Pids]
        BY DEF TypeOK
      <3>4. scratch'[h] = scratch[h]
        BY <3>2, <3>3
      <3> QED
        BY <2>1, <3>1, <3>4
    <2> QED
      BY <2>2, <2>3
  <1>2. CASE pc[h][l] # "idle" /\ Dies(h, l, TRUE)
    <2>1. /\ stage' = [stage EXCEPT ![h][pid[h][l]] = None]
          /\ scratch' = [scratch EXCEPT ![h] = @ \ {pid[h][l]}]
      BY <1>2 DEF Dies
    <2> QED
      BY <1>2, <2>1, OwnStaging DEF TypeOK
  <1> QED
    BY <1>1, <1>2

LEMMA DeathsAreCleanOrNot ==
  ASSUME NEW h \in Helpers, NEW l \in Launchers, CollectAborts(h, l) \/ Abort(h, l) \/ Kill(h, l)
  PROVE  pc[h][l] # "idle" /\ (Dies(h, l, TRUE) \/ Dies(h, l, FALSE))
  <1>1. Discipline[h].trap \in BOOLEAN
    BY DisciplineAssumption
  <1> QED
    BY <1>1 DEF CollectAborts, Abort, Kill, At

LEMMA NextLeaves ==
  ASSUME CleanInv, [Next]_vars, NEW g \in Helpers
  PROVE  \/ LeftBehind(g)' \subseteq LeftBehind(g) /\ unclean'[g] = unclean[g]
         \/ /\ \E x : LeftBehind(g)' \subseteq LeftBehind(g) \cup {x}
            /\ unclean'[g] = unclean[g] + 1
         \/ LeftBehind(g)' = {} /\ unclean'[g] = 0
  <1> USE DEF CleanInv, IInv, PidInv
  <1>t. TypeOK'
    BY NextTypeOK
  <1>p. LeftBehind(g)' \subseteq Pids
    BY <1>t DEF LeftBehind, TypeOK
  <1>s. ASSUME \A q \in Pids : Left(g, q)' => Left(g, q)
        PROVE  LeftBehind(g)' \subseteq LeftBehind(g)
    <2> SUFFICES ASSUME NEW q \in LeftBehind(g)' PROVE q \in LeftBehind(g)
      OBVIOUS
    <2>1. q \in Pids /\ Left(g, q)'
      BY <1>t, <1>p DEF Left, LeftBehind, TypeOK
    <2> QED
      BY <1>s, <2>1, LeftIsMember
  <1>1. ASSUME NEW h \in Helpers, CronLaunches(h) \/ SetupLaunches(h)
        PROVE  LeftBehind(g)' \subseteq LeftBehind(g) /\ unclean'[g] = unclean[g]
    <2>1. PICK l \in Launchers : Launch(h, l)
      BY <1>1 DEF CronLaunches, SetupLaunches, Launchers
    <2> QED
      BY <1>s, <2>1, LaunchLeaves DEF Launch
  <1>2. ASSUME NEW h \in Helpers, NEW l \in Launchers, OpenStage(h, l) \/ Collect(h, l) \/ Publish(h, l)
        PROVE  LeftBehind(g)' \subseteq LeftBehind(g) /\ unclean'[g] = unclean[g]
    BY <1>s, <1>2, WriteLeaves DEF OpenStage, Collect, Publish
  <1>3. ASSUME NEW h \in Helpers, NEW l \in Launchers,
               Finish(h, l) \/ (pc[h][l] # "idle" /\ Dies(h, l, TRUE))
        PROVE  LeftBehind(g)' \subseteq LeftBehind(g) /\ unclean'[g] = unclean[g]
    <2>1. ASSUME NEW q \in Pids, Left(g, q)' PROVE Left(g, q)
      <3>1. g # h \/ q # pid[h][l]
        BY <1>3, <2>1, EndCleans
      <3> QED
        BY <1>3, <2>1, <3>1, EndLeaves DEF DiesSomehow
    <2>2. unclean' = unclean
      BY <1>3 DEF Finish, Dies, CountsEnd
    <2> QED
      BY <1>s, <2>1, <2>2
  <1>4. ASSUME NEW h \in Helpers, NEW l \in Launchers, Dies(h, l, FALSE)
        PROVE  \/ LeftBehind(g)' \subseteq LeftBehind(g) /\ unclean'[g] = unclean[g]
               \/ /\ \E x : LeftBehind(g)' \subseteq LeftBehind(g) \cup {x}
                  /\ unclean'[g] = unclean[g] + 1
    <2>0. unclean' = [unclean EXCEPT ![h] = unclean[h] + 1] /\ DiesSomehow(h, l)
      BY <1>4 DEF Dies, CountsEnd, DiesSomehow
    <2>1. CASE g # h
      <3>1. unclean'[g] = unclean[g]
        BY <2>0, <2>1 DEF TypeOK
      <3> QED
        BY <1>s, <2>0, <2>1, <3>1, EndLeaves
    <2>2. CASE g = h
      <3>1. unclean'[g] = unclean[g] + 1
        BY <2>0, <2>2 DEF TypeOK
      <3>2. ASSUME NEW q \in LeftBehind(g)', q # pid[h][l] PROVE q \in LeftBehind(g)
        <4>1. q \in Pids /\ Left(g, q)'
          BY <1>t, <1>p, <3>2 DEF Left, LeftBehind, TypeOK
        <4>2. Left(g, q)
          BY <2>0, <3>2, <4>1, EndLeaves
        <4> QED
          BY <4>1, <4>2, LeftIsMember
      <3>3. LeftBehind(g)' \subseteq LeftBehind(g) \cup {pid[h][l]}
        BY <3>2
      <3> QED
        BY <3>1, <3>3
    <2> QED
      BY <2>1, <2>2
  <1>5. ASSUME Reboot PROVE LeftBehind(g)' = {} /\ unclean'[g] = 0
    BY <1>5 DEF Reboot, NoFiles, LeftBehind
  <1>6. ASSUME UNCHANGED <<stage, scratch, pid>> PROVE LeftBehind(g)' \subseteq LeftBehind(g)
    BY <1>6 DEF LeftBehind
  <1>7. ASSUME SetupClears \/ SetupSchedules \/ SetupFinishes \/ SetupDies \/ WorldChanges \/ UNCHANGED vars
        PROVE  UNCHANGED <<stage, scratch, pid>> /\ unclean' = unclean
    BY <1>7 DEF SetupClears, SetupSchedules, SetupFinishes, SetupDies, WorldChanges, vars, files
  <1> QED
    BY <1>1, <1>2, <1>3, <1>4, <1>5, <1>6, <1>7, DeathsAreCleanOrNot DEF Next, RunStep

(* However its runs overlap, die and reuse pids, a script leaves behind    *)
(* the files of one pid at most for each run of it that died without a     *)
(* trap since the last reboot.                                             *)
THEOREM TrapsCleanUp == Spec => []LeftoversArePaidFor
  <1> DEFINE Paid == \A g \in Helpers :
                       IsFiniteSet(LeftBehind(g)) /\ Cardinality(LeftBehind(g)) <= unclean[g]
             Inv == CleanInv /\ Paid
  <1>1. Init => Inv
    <2> SUFFICES ASSUME Init PROVE Inv
      OBVIOUS
    <2>1. \A g \in Helpers : LeftBehind(g) = {} /\ unclean[g] = 0
      BY DEF Init, NoFiles, LeftBehind
    <2>2. Paid
      BY <2>1, FS_EmptySet
    <2>3. PublishedIsGone /\ NoStrayScratch
      BY DEF Init, PublishedIsGone, NoStrayScratch, At
    <2> QED
      BY <2>2, <2>3, InitIInv DEF CleanInv
  <1>2. Inv /\ [Next]_vars => Inv'
    <2> SUFFICES ASSUME Inv, [Next]_vars PROVE Inv'
      OBVIOUS
    <2>1. CleanInv'
      BY NextIInv, NextPublishedIsGone, NextNoStrayScratch DEF CleanInv
    <2> SUFFICES ASSUME NEW g \in Helpers
                 PROVE  IsFiniteSet(LeftBehind(g)') /\ Cardinality(LeftBehind(g)') <= unclean'[g]
      BY <2>1
    <2>2. unclean[g] \in Nat /\ IsFiniteSet(LeftBehind(g)) /\ Cardinality(LeftBehind(g)) <= unclean[g]
      BY DEF CleanInv, IInv, PidInv, TypeOK
    <2>3. CASE LeftBehind(g)' \subseteq LeftBehind(g) /\ unclean'[g] = unclean[g]
      <3>1. IsFiniteSet(LeftBehind(g)') /\ Cardinality(LeftBehind(g)') <= Cardinality(LeftBehind(g))
        BY <2>2, <2>3, FS_Subset
      <3>2. Cardinality(LeftBehind(g)') \in Nat /\ Cardinality(LeftBehind(g)) \in Nat
        BY <2>2, <3>1, FS_CardinalityType
      <3> QED
        BY <2>2, <2>3, <3>1, <3>2
    <2>4. CASE (\E x : LeftBehind(g)' \subseteq LeftBehind(g) \cup {x}) /\ unclean'[g] = unclean[g] + 1
      <3>1. PICK x : LeftBehind(g)' \subseteq LeftBehind(g) \cup {x}
        BY <2>4
      <3>2. /\ IsFiniteSet(LeftBehind(g) \cup {x})
            /\ Cardinality(LeftBehind(g) \cup {x}) \in {Cardinality(LeftBehind(g)), Cardinality(LeftBehind(g)) + 1}
        BY <2>2, FS_AddElement
      <3>3. IsFiniteSet(LeftBehind(g)') /\ Cardinality(LeftBehind(g)') <= Cardinality(LeftBehind(g) \cup {x})
        BY <3>1, <3>2, FS_Subset
      <3>4. Cardinality(LeftBehind(g)') \in Nat /\ Cardinality(LeftBehind(g)) \in Nat
        BY <2>2, <3>3, FS_CardinalityType
      <3> QED
        BY <2>2, <2>4, <3>2, <3>3, <3>4
    <2>5. CASE LeftBehind(g)' = {} /\ unclean'[g] = 0
      BY <2>5, FS_EmptySet
    <2> QED
      BY <2>3, <2>4, <2>5, NextLeaves
  <1>3. Inv => LeftoversArePaidFor
    BY DEF LeftoversArePaidFor
  <1> HIDE DEF Inv
  <1> QED
    BY <1>1, <1>2, <1>3, PTL DEF Spec

================================================================================
