------------------------------ MODULE AssocEvents ------------------------------
(***************************************************************************)
(* How openwrt-monitor-client-conntrack.sh turns the router's log ring     *)
(* into a counter: every run reads the ring from its beginning again and   *)
(* must not count a line twice, so it keeps on flash the counters and the  *)
(* lines it has lately seen.  The runs of cron and of setup.sh share that  *)
(* file without a lock.  A log line is a number: history[f] is the         *)
(* interface line f is about.  The order of the lines in the state file is *)
(* all that their sequence numbers say, so seen[f] is the set of the lines *)
(* that stand behind f.                                                    *)
(***************************************************************************)
EXTENDS Naturals, Sequences, FiniteSets, Functions

CONSTANTS
  Ifaces,     \* hostapd interfaces
  SsidOf,     \* SsidOf[i]: the network interface i serves
  RingSize,   \* lines the log ring holds
  CacheSize,  \* lines the state file remembers: 512
  MaxEvents,  \* bound: association events
  MaxFaults   \* bound: vanishing or returning interfaces, failed commands, state
              \* files cut short, kills, reboots and runs started by setup.sh

Launchers == {"cron", "setup"}
Ssids == {SsidOf[i] : i \in Ifaces}
Lines == 1..MaxEvents

ASSUME BoundAssumption ==
  /\ {RingSize, CacheSize} \subseteq Nat \ {0}
  /\ {MaxEvents, MaxFaults} \subseteq Nat

VARIABLES
  history,  \* the association events so far, as the interfaces they are about
  ring,     \* the lines in the log ring, oldest first
  up,       \* the interfaces "network.wireless status" lists
  saved,    \* the state file: counters, and the lines seen
  run,      \* run[l]: the run that l started: where it stands, what it has read
  shown,    \* the .prom file: is the collector available, the last counters shown
  used      \* faults so far, and among them state files cut short and setup runs

vars == <<history, ring, up, saved, run, shown, used>>

Counters == [Ssids -> Nat]
Caches == UNION {[known -> SUBSET known] : known \in SUBSET Lines}
States == [counter : Counters, seen : Caches]
Zero == [s \in Ssids |-> 0]
Empty == [counter |-> Zero, seen |-> [f \in {} |-> {}]]
Idle == [at |-> "idle", ifs |-> {}, lines |-> <<>>, draft |-> Empty, out |-> Zero]

TypeOK ==
  /\ history \in Seq(Ifaces) /\ Len(history) <= MaxEvents
  /\ ring \in Seq(Lines) /\ Len(ring) <= RingSize
  /\ up \subseteq Ifaces
  /\ saved \in States /\ Cardinality(DOMAIN saved.seen) <= CacheSize
  /\ run \in [Launchers -> [at : {"idle", "armed", "ifaces", "read", "merged",
                                  "saved", "counted", "unavailable"},
                            ifs : SUBSET Ifaces, lines : Seq(Lines),
                            draft : States, out : Counters]]
  /\ shown \in [available : BOOLEAN, counter : Counters]
  /\ used \in [faults : 0..MaxFaults, losses : 0..MaxFaults, setups : 0..MaxFaults]

Init ==
  /\ history = <<>>
  /\ ring = <<>>
  /\ up \in SUBSET Ifaces
  /\ saved = Empty
  /\ run = [l \in Launchers |-> Idle]
  /\ shown = [available |-> FALSE, counter |-> Zero]
  /\ used = [faults |-> 0, losses |-> 0, setups |-> 0]

At(l, step) == run[l].at = step
Fault == used.faults < MaxFaults /\ used' = [used EXCEPT !.faults = @ + 1]

--------------------------------------------------------------------------------
(* The router around the script.                                           *)

Log(f) ==
  /\ ring' = Append(IF Len(ring) = RingSize THEN Tail(ring) ELSE ring, f)
  /\ UNCHANGED <<up, saved, run, shown, used>>

Associates(i) ==
  /\ Len(history) < MaxEvents
  /\ i \in up
  /\ history' = Append(history, i)
  /\ Log(Len(history) + 1)

(* A client that comes, goes and comes again within a second leaves the    *)
(* same line twice.                                                        *)
RepeatsLine ==
  LET newest == ring[Len(ring)] IN
    /\ ring # <<>> /\ history[newest] \in up
    /\ Cardinality({k \in DOMAIN ring : ring[k] = newest}) < 2
    /\ UNCHANGED history
    /\ Log(newest)

(* A radio is reconfigured: its interfaces leave the status and return.    *)
Flaps(i) ==
  /\ Fault
  /\ up' = IF i \in up THEN up \ {i} ELSE up \cup {i}
  /\ UNCHANGED <<history, ring, saved, run, shown>>

(* The state file lies in a tmpfs.                                         *)
SlipStateInTmpfs ==
  /\ Fault
  /\ ring' = <<>>
  /\ saved' = Empty
  /\ run' = [l \in Launchers |-> Idle]
  /\ shown' = [shown EXCEPT !.available = FALSE]
  /\ UNCHANGED <<history, up>>

(* The log ring and the .prom files are in memory, the state file is not.  *)
Reboot ==
  /\ Fault
  /\ ring' = <<>>
  /\ run' = [l \in Launchers |-> Idle]
  /\ shown' = [shown EXCEPT !.available = FALSE]
  /\ UNCHANGED <<history, up, saved>>

--------------------------------------------------------------------------------
(* emit_assoc_events, and the mv that ends the script.                     *)

Advance(l, change) == run' = [run EXCEPT ![l] = change]

Starts(l) ==
  /\ At(l, "idle")
  /\ Advance(l, [run[l] EXCEPT !.at = "armed"])
  /\ l = "setup" => used.faults < MaxFaults
  /\ used' = IF l = "setup" THEN [used EXCEPT !.faults = @ + 1, !.setups = @ + 1] ELSE used
  /\ UNCHANGED <<history, ring, up, saved, shown>>

ReadWireless(l) ==
  /\ At(l, "armed")
  /\ Advance(l, [run[l] EXCEPT !.at = IF up = {} THEN "unavailable" ELSE "ifaces",
                               !.ifs = up])
  /\ UNCHANGED <<history, ring, up, saved, shown, used>>

(* logread -l 1.                                                           *)
SlipReadNewest(l) ==
  /\ At(l, "ifaces")
  /\ Advance(l, [run[l] EXCEPT !.at = "read",
                               !.lines = SelectSeq(ring, LAMBDA f : f = ring[Len(ring)])])
  /\ UNCHANGED <<history, ring, up, saved, shown, used>>

ReadLog(l) ==
  /\ At(l, "ifaces")
  /\ Advance(l, [run[l] EXCEPT !.at = "read", !.lines = ring])
  /\ UNCHANGED <<history, ring, up, saved, shown, used>>

(* ubus, the JSON parser or touch fails: return 1.                         *)
GivesUp(l) ==
  /\ run[l].at \in {"armed", "ifaces", "read"}
  /\ Fault
  /\ Advance(l, [Idle EXCEPT !.at = "unavailable"])
  /\ UNCHANGED <<history, ring, up, saved, shown>>

(* logread fails at the head of its pipe: no lines, no error.              *)
ReadsNoLog(l) ==
  /\ At(l, "ifaces")
  /\ Fault
  /\ Advance(l, [run[l] EXCEPT !.at = "read", !.lines = <<>>])
  /\ UNCHANGED <<history, ring, up, saved, shown>>

(* The positions of the log lines about interfaces of the status: the awk  *)
(* program skips the others.                                               *)
Known(lines, ifs) == {k \in DOMAIN lines : history[lines[k]] \in ifs}

About(lines, known) == {lines[k] : k \in known}

(* The program numbers the lines of the state file in their order, then    *)
(* the known log lines, and a line keeps the last number it was given.     *)
(* Behind the last number of f come those of the log lines after it and,   *)
(* if f is not among them, of the lines that stood behind it before.       *)
Newer(f, lines, known) ==
  {k \in known : \A j \in known : lines[j] = f => j < k}

Older(f, old, lines, known) == IF f \in About(lines, known) THEN {} ELSE old[f]

(* One number too few is kept.                                             *)
SlipKeepOneLess(newer) == newer < CacheSize - 1

(* Of the numbers given, the last CacheSize are written back: those with   *)
(* fewer than CacheSize newer ones, superseded ones included.              *)
Remembered(newer) == newer < CacheSize

Renumbered(old, lines, known) ==
  LET kept == {f \in DOMAIN old \cup About(lines, known) :
                 Remembered(Cardinality(Newer(f, lines, known))
                              + Cardinality(Older(f, old, lines, known)))}
  IN [f \in kept |-> Older(f, old, lines, known)
                        \cup About(lines, Newer(f, lines, known))]

Counted(counter, fresh) ==
  [s \in Ssids |-> counter[s] + Cardinality({f \in fresh : SsidOf[history[f]] = s})]

(* The awk program: a line that was not seen before is counted.            *)
Merge(old, lines, ifs) ==
  LET known == Known(lines, ifs)
  IN [counter |-> Counted(old.counter, About(lines, known) \ DOMAIN old.seen),
      seen |-> Renumbered(old.seen, lines, known)]

MergeState(l) ==
  /\ At(l, "read")
  /\ Advance(l, [Idle EXCEPT !.at = "merged",
                             !.draft = Merge(saved, run[l].lines, run[l].ifs)])
  /\ UNCHANGED <<history, ring, up, saved, shown, used>>

(* The front of the lines of a state file: who stands before one of them   *)
(* is among them.                                                          *)
Fronts(seen) ==
  {front \in SUBSET DOMAIN seen :
     \A f \in DOMAIN seen : seen[f] \cap front # {} => f \in front}

(* A counter that is missing is missed from then on.                       *)
SlipCountersGone(whole, counters, front) ==
  [counter |-> [s \in counters |-> whole.counter[s]],
   seen |-> [f \in front |-> whole.seen[f] \cap front]]

(* A counter that is missing starts from zero again.                       *)
Part(whole, counters, front) ==
  [counter |-> [s \in Ssids |-> IF s \in counters THEN whole.counter[s] ELSE 0],
   seen |-> [f \in front |-> whole.seen[f] \cap front]]

(* The lines are written before the counters.                              *)
SlipLinesFirst(whole) ==
  {Part(whole, {}, front) : front \in Fronts(whole.seen)}
    \cup {Part(whole, counters, DOMAIN whole.seen) : counters \in SUBSET Ssids}

(* What there may be of awk's output: counters come before lines.          *)
Truncations(whole) ==
  {Part(whole, counters, {}) : counters \in SUBSET Ssids}
    \cup {Part(whole, Ssids, front) : front \in Fronts(whole.seen)}

(* The flash is full: awk's output ends anywhere.                          *)
MergeCutShort(l) ==
  /\ At(l, "read")
  /\ used.faults < MaxFaults
  /\ used' = [used EXCEPT !.faults = @ + 1, !.losses = @ + 1]
  /\ \E part \in Truncations(Merge(saved, run[l].lines, run[l].ifs)) :
       Advance(l, [Idle EXCEPT !.at = "merged", !.draft = part])
  /\ UNCHANGED <<history, ring, up, saved, shown>>

(* mv "$EVENTSTMP" "$EVENTSFILE": set -e is off inside the caller's if, so *)
(* this happens whatever became of awk.                                    *)
SaveState(l) ==
  /\ At(l, "merged")
  /\ saved' = run[l].draft
  /\ Advance(l, [Idle EXCEPT !.at = "saved"])
  /\ UNCHANGED <<history, ring, up, shown, used>>

(* The counters are printed from the state file as it is by now.           *)
PrintCounters(l) ==
  /\ At(l, "saved")
  /\ Advance(l, [run[l] EXCEPT !.at = "counted", !.out = saved.counter])
  /\ UNCHANGED <<history, ring, up, saved, shown, used>>

Publish(l) ==
  /\ run[l].at \in {"counted", "unavailable"}
  /\ shown' = IF At(l, "counted")
              THEN [available |-> TRUE, counter |-> run[l].out]
              ELSE [shown EXCEPT !.available = FALSE]
  /\ Advance(l, Idle)
  /\ UNCHANGED <<history, ring, up, saved, used>>

Killed(l) ==
  /\ ~At(l, "idle")
  /\ Fault
  /\ Advance(l, Idle)
  /\ UNCHANGED <<history, ring, up, saved, shown>>

RunStep(l) ==
  \/ ReadWireless(l)
  \/ ReadLog(l)
  \/ MergeState(l)
  \/ SaveState(l)
  \/ PrintCounters(l)
  \/ Publish(l)

Next ==
  \/ \E i \in Ifaces : Associates(i) \/ Flaps(i)
  \/ RepeatsLine
  \/ Reboot
  \/ \E l \in Launchers :
       \/ Starts(l) \/ RunStep(l)
       \/ GivesUp(l) \/ ReadsNoLog(l) \/ MergeCutShort(l) \/ Killed(l)

Spec == Init /\ [][Next]_vars

(* cron starts the script every minute, and a started run keeps running.   *)
Fairness == WF_vars(Starts("cron")) /\ \A l \in Launchers : WF_vars(RunStep(l))

FairSpec == Spec /\ Fairness

--------------------------------------------------------------------------------
(* Properties.                                                             *)

Logged(s) == {f \in DOMAIN history : SsidOf[history[f]] = s}

(* client-conntrack.sh:204: no minute's snapshot of the ring counts a line *)
(* again, whatever is killed or rebooted and although interfaces come and  *)
(* go.  A state file cut short may cost one more count of what it forgot.  *)
(* Needs CacheSize >= 3 * RingSize - 2: behind a line whose interface is   *)
(* away may stand those before it and after it in the ring, and the latter *)
(* are numbered twice.  It is what runs of cron alone achieve.             *)
NoRecount ==
  used.setups = 0 =>
    \A s \in Ssids : saved.counter[s] <= Cardinality(Logged(s)) * (1 + used.losses)

(* client-conntrack.sh:263-265: a line the state file remembers, which no  *)
(* run counts any more, has been counted, even if the file was cut short   *)
(* or runs overlap.                                                        *)
SeenIsCounted ==
  \A s \in Ssids :
    saved.counter[s] >= Cardinality({f \in DOMAIN saved.seen : SsidOf[history[f]] = s})

(* client-conntrack.sh:205, "counter semantics": as long as the flash is   *)
(* not full no scrape sees a counter smaller than one before it, not even  *)
(* across kills and reboots.  It is what runs of cron alone achieve.       *)
CounterNeverDecreases ==
  [][used'.losses = 0 /\ used'.setups = 0 =>
       \A s \in Ssids : shown'.counter[s] >= shown.counter[s]]_vars

(* A line that stays in the ring is counted in the end, even if its        *)
(* interface was missing from the status when it was first read or a run   *)
(* of setup.sh undid the count, and the count is shown.                    *)
EventuallyCounted ==
  <>[](up = Ifaces) =>
    <>[](/\ shown = [available |-> TRUE, counter |-> saved.counter]
         /\ used.losses = 0 =>
              \A s \in Ssids :
                saved.counter[s] >= Cardinality(Logged(s) \cap Range(ring)))

================================================================================
