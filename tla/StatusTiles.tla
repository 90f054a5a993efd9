----------------------------- MODULE StatusTiles -----------------------------
(***************************************************************************)
(* What the tiles that answer "is it healthy" and "can I trust it" say of  *)
(* several routers at once: Network Status and Textfile Freshness of       *)
(* Mission Control, the gate on per-client traffic of the Clients          *)
(* dashboard, Flow Data Complete of the NetFlow dashboard and the profile  *)
(* tiles of Advanced Monitoring.  Helpers publish files, collectors read   *)
(* what they can, Prometheus scrapes, and a tile aggregates the samples    *)
(* of the routers selected, which may be of different ages or missing.     *)
(*                                                                         *)
(* A query without labels is the set of its values: empty or a singleton.  *)
(***************************************************************************)
EXTENDS Integers, FiniteSetsExt

CONSTANTS Routers,
          Red,          \* age in cron periods from which Textfile Freshness is not green
          MaxChanges    \* bound: changes of the world, apart from scrapes that fail

ASSUME RouterAssumption == Routers # {}
ASSUME BoundAssumption == Red \in Nat \ {0} /\ MaxChanges \in Nat

Modes == {"sw", "hw"}
Directions == {"upload", "download"}     \* the two nftables sets
Collectors == {"device_traffic", "wifi_dethrash"}

\* What can fail: the two sets, an entry of a set or a radio whose reading
\* raises an error, the libraries of the mesh collector, the hosts of the
\* client inventory, its uci cursor, and nlbwmon.
Reads == Directions \cup {"entry", "radio", "iwinfo", "hosts", "uci", "nlbwmon"}

VARIABLES
    uplink,     \* per router: "good", "failing", or "gone" (no default gateway)
    offload,    \* per router and mode: the option of the firewall's defaults
    broken,     \* per router: what cannot be read at the moment
    probe,      \* the value in openwrt_wan_quality.prom, as a set, and its age
    seen,       \* per router: the samples of its last scrape
    recent,     \* routers with byte samples inside $__rate_interval
    was,        \* history, per router: the modes on when it last answered a scrape
    since,      \* history, per router: cron periods, up to Red, since its uplink was last good
    changes

world == <<uplink, offload, broken>>
prometheus == <<seen, recent, was>>
vars == <<world, probe, prometheus, since, changes>>

On(r) == {m \in Modes : offload[r][m] = "1"}

\* A failed scrape: up is 0 and every other series of the target goes stale.
Unreachable ==
    [up |-> {0}, probe |-> {}, age |-> {}, offload |-> {}, read |-> {}, traffic |-> {},
     flag |-> [c \in Collectors |-> {}], success |-> [c \in Collectors |-> {}], ended |-> {}]

-----------------------------------------------------------------------------
(* PromQL on values without labels *)

Highest(values) == IF values = {} THEN {} ELSE {Max(values)}
Lowest(values) == IF values = {} THEN {} ELSE {Min(values)}
Times(v, w) == {a * b : a \in v, b \in w}
Equal(v, n) == {a \in v : a = n}
EqualBool(v, n) == {IF a = n THEN 1 ELSE 0 : a \in v}
Or(v, w) == IF v = {} THEN w ELSE v
Unless(v, w) == IF w = {} THEN v ELSE {}

-----------------------------------------------------------------------------
(* Tiles, for a selection of routers *)

Up(sel) == UNION {seen[r].up : r \in sel}
Probes(sel) == UNION {seen[r].probe : r \in sel}
Ages(sel) == UNION {seen[r].age : r \in sel}
Offload(sel, modes) == UNION {{s.value : s \in {t \in seen[r].offload : t.mode \in modes}} : r \in sel}
Flags(sel, c) == UNION {seen[r].flag[c] : r \in sel}
Successes(sel, c) == UNION {seen[r].success[c] : r \in sel}

SlipBestRouter(sel) == Or(Times(Highest(Up(sel)), Highest(Probes(sel))), {0})
NetworkStatus(sel) == Or(Times(Lowest(Up(sel)), Lowest(Probes(sel))), {0})
Fresh(sel) == \A age \in Highest(Ages(sel)) : age < Red

SlipAnyRouter(sel) == Equal(Lowest(Offload(sel, Modes)), 1)
FlowOffloadEnabled(sel) == Equal(Highest(Offload(sel, Modes)), 1)

TrafficAvailable(sel) == Or(Highest(UNION {seen[r].traffic : r \in sel}), {0})
TrafficAccountingState(sel) ==
    Or(Or({1 : v \in Unless(Equal(TrafficAvailable(sel), 1), FlowOffloadEnabled(sel))},
          {2 : v \in FlowOffloadEnabled(sel)}),
       {0})

\* Routers whose rates the traffic panels show.
TrustedTraffic(sel) == Unless(recent \cap sel, FlowOffloadEnabled(sel))

FlowDataComplete(sel) == Or(EqualBool(Highest(Offload(sel, {"hw"})), 0), {0})

SlipFlagIsEnough(sel, c) == Or(Highest(Flags(sel, c)), {0})
Availability(sel, c) == Or(Times(Highest(Flags(sel, c)), Highest(Successes(sel, c))), {0})

-----------------------------------------------------------------------------
(* Routers *)

Init ==
    /\ uplink = [r \in Routers |-> "good"]
    /\ offload = [r \in Routers |-> [m \in Modes |-> "unset"]]
    /\ broken = [r \in Routers |-> {}]
    /\ probe = [r \in Routers |-> [value |-> {}, age |-> 0]]
    /\ seen = [r \in Routers |-> Unreachable]
    /\ recent = {}
    /\ was = [r \in Routers |-> {}]
    /\ since = [r \in Routers |-> 0]
    /\ changes = 0

Changes == changes < MaxChanges /\ changes' = changes + 1

UplinkChanges(r, u) ==
    /\ Changes
    /\ uplink' = [uplink EXCEPT ![r] = u]
    /\ since' = IF u = "good" THEN [since EXCEPT ![r] = 0] ELSE since
    /\ UNCHANGED <<offload, broken, probe, prometheus>>

OffloadChanges(r, m, v) ==
    /\ Changes
    /\ offload' = [offload EXCEPT ![r][m] = v]
    /\ UNCHANGED <<uplink, broken, probe, prometheus, since>>

ReadChanges(r, what) ==
    /\ Changes
    /\ broken' = [broken EXCEPT ![r] = IF what \in @ THEN @ \ {what} ELSE @ \cup {what}]
    /\ UNCHANGED <<uplink, offload, probe, prometheus, since>>

Reboots(r) ==
    /\ Changes
    /\ probe' = [probe EXCEPT ![r] = [value |-> {}, age |-> 0]]
    /\ UNCHANGED <<world, prometheus, since>>

\* wan-quality.sh; without a gateway it dies before its mv.
ProbeRuns(r) ==
    /\ uplink[r] # "gone"
    /\ probe' = [probe EXCEPT ![r] = [value |-> {IF uplink[r] = "good" THEN 1 ELSE 0}, age |-> 0]]
    /\ UNCHANGED <<world, prometheus, since, changes>>

Aged(age) == IF age < Red THEN age + 1 ELSE age

PeriodPasses ==
    /\ probe' = [r \in Routers |-> [probe[r] EXCEPT !.age = Aged(@)]]
    /\ seen' = [r \in Routers |-> [seen[r] EXCEPT !.age = {Aged(a) : a \in @}]]
    /\ since' = [r \in Routers |-> IF uplink[r] = "good" THEN 0 ELSE Aged(since[r])]
    /\ UNCHANGED <<world, recent, was, changes>>

-----------------------------------------------------------------------------
(* Scrapes *)

\* flow_offload_state, exported by a client inventory that completes
OffloadSeries(r) ==
    IF broken[r] \cap {"hosts", "uci"} # {} THEN {}
    ELSE {[mode |-> m, value |-> IF m \in On(r) THEN 1 ELSE 0] :
              m \in {n \in Modes : offload[r][n] # "unset"}}

\* client-traffic.sh, which publishes every minute whatever it finds
Traffic(r) == {IF "nlbwmon" \in broken[r] THEN 0 ELSE 1}

SlipAlwaysRead(r) == IF "hosts" \in broken[r] THEN {} ELSE {1}

ReadSuccess(r) ==
    IF "hosts" \in broken[r] THEN {} ELSE {IF "uci" \in broken[r] THEN 0 ELSE 1}

\* Whether the collector gets to its end.  An nftables entry of an unknown
\* shape, or a set that is not in the answer, is no error.
Ends(r, c) ==
    IF c = "device_traffic" THEN ~(Directions \subseteq broken[r]) /\ "entry" \notin broken[r]
    ELSE broken[r] \cap {"iwinfo", "radio"} = {}

\* device_traffic.lua reports what its collect came to, wifi_dethrash.lua that
\* its libraries are there, before it reads anything.
FlagOf(r, c) ==
    IF c = "device_traffic" THEN IF Ends(r, c) THEN 1 ELSE 0
    ELSE IF "iwinfo" \in broken[r] THEN 0 ELSE 1

\* The first catches its errors, so the exporter sees those of the second only.
SuccessOf(r, c) ==
    IF c = "wifi_dethrash" /\ "radio" \in broken[r] /\ "iwinfo" \notin broken[r] THEN 0 ELSE 1

Exposition(r) ==
    [up |-> {1}, probe |-> probe[r].value,
     age |-> IF probe[r].value = {} THEN {} ELSE {probe[r].age},
     offload |-> OffloadSeries(r), read |-> ReadSuccess(r), traffic |-> Traffic(r),
     flag |-> [c \in Collectors |-> {FlagOf(r, c)}],
     success |-> [c \in Collectors |-> {SuccessOf(r, c)}],
     ended |-> {c \in Collectors : Ends(r, c)}]

Scraped(r) ==
    /\ seen' = [seen EXCEPT ![r] = Exposition(r)]
    /\ recent' = IF Traffic(r) = {1} THEN recent \cup {r} ELSE recent
    /\ was' = [was EXCEPT ![r] = On(r)]
    /\ UNCHANGED <<world, probe, since, changes>>

Missed(r) ==
    /\ seen' = [seen EXCEPT ![r] = Unreachable]
    /\ UNCHANGED <<world, probe, recent, was, since, changes>>

\* The last byte samples of a router leave the interval of rate().
WindowPasses(r) ==
    /\ r \in recent /\ seen[r].traffic # {1}
    /\ recent' = recent \ {r}
    /\ UNCHANGED <<world, probe, seen, was, since, changes>>

RouterStep(r) ==
    \/ \E u \in {"good", "failing", "gone"} : UplinkChanges(r, u)
    \/ \E m \in Modes, v \in {"unset", "0", "1"} : OffloadChanges(r, m, v)
    \/ \E what \in Reads : ReadChanges(r, what)
    \/ Reboots(r) \/ ProbeRuns(r)
    \/ Scraped(r) \/ Missed(r) \/ WindowPasses(r)

Next == PeriodPasses \/ \E r \in Routers : RouterStep(r)

Spec == Init /\ [][Next]_vars

\* crond starts its lines, time passes, and Prometheus keeps scraping; a scrape
\* may always fail.
FairSpec ==
    /\ Spec /\ WF_vars(PeriodPasses)
    /\ \A r \in Routers : WF_vars(ProbeRuns(r)) /\ WF_vars(Scraped(r))

-----------------------------------------------------------------------------
(* Properties *)

Selections == (SUBSET Routers) \ {{}}

TypeOK ==
    /\ uplink \in [Routers -> {"good", "failing", "gone"}]
    /\ offload \in [Routers -> [Modes -> {"unset", "0", "1"}]]
    /\ broken \in [Routers -> SUBSET Reads]
    /\ probe \in [Routers -> [value : SUBSET {0, 1}, age : 0 .. Red]]
    /\ seen \in [Routers -> [up : SUBSET {0, 1}, probe : SUBSET {0, 1}, age : SUBSET (0 .. Red),
                             offload : SUBSET [mode : Modes, value : {0, 1}],
                             read : SUBSET {0, 1}, traffic : SUBSET {0, 1},
                             flag : [Collectors -> SUBSET {0, 1}],
                             success : [Collectors -> SUBSET {0, 1}],
                             ended : SUBSET Collectors]]
    /\ recent \subseteq Routers
    /\ was \in [Routers -> SUBSET Modes]
    /\ since \in [Routers -> 0 .. Red]
    /\ changes \in 0 .. MaxChanges

(* docs/advanced-profiles.md:260: an absent offload sample means "off" if    *)
(* openwrt_flow_offload_read_success says that it was read.  Whenever every   *)
(* selected router reports that, traffic is not shown, is not called active   *)
(* and flow data is not called complete if an offload that spoils it was on.  *)
OffloadIsNoticed ==
    \A sel \in Selections :
        (\A r \in sel : seen[r].read = {1}) =>
            /\ TrustedTraffic(sel) # {} \/ TrafficAccountingState(sel) = {1} =>
                \A r \in sel : was[r] = {}
            /\ FlowDataComplete(sel) = {1} => \A r \in sel : "hw" \notin was[r]

(* docs/advanced-profiles.md:255: "If either mode is 1, every nlbwmon traffic*)
(* panel suppresses values", on every selected router, whatever else fails.   *)
TrafficIsTrusted ==
    \A sel \in Selections : TrustedTraffic(sel) # {} => \A r \in sel : was[r] = {}

(* A profile tile says "Collected" only after a scrape in which the collector *)
(* got to its end without an error, on some selected router: the docstring of *)
(* availability tells that the flag once was 1 while the collector aborted.   *)
(* The mesh collector still sets its flag first and leans on the success of   *)
(* its scrape, so it is looked at one router at a time: of several, the tile  *)
(* multiplies the flag of one by the success of another.                      *)
CollectedIsCollected ==
    /\ \A sel \in Selections : Availability(sel, "device_traffic") = {1} =>
            \E r \in sel : "device_traffic" \in seen[r].ended
    /\ \A r \in Routers : Availability({r}, "wifi_dethrash") = {1} =>
            "wifi_dethrash" \in seen[r].ended

(* Network Status and Textfile Freshness that are both green stand for every  *)
(* selected router: each one answered its last scrape, and none of those with *)
(* a probe has been without its uplink for as long as Freshness allows.       *)
GreenCoversAll ==
    \A sel \in Selections :
        NetworkStatus(sel) = {1} /\ Fresh(sel) =>
            \A r \in sel : seen[r].up = {1} /\ (seen[r].probe # {} => since[r] < Red)

(* An uplink that stays down is seen: Network Status of all routers is not    *)
(* green, or Textfile Freshness is not, at the latest when the probe's file   *)
(* has grown old.  Only a router that has no such file (it was rebooted       *)
(* without a gateway) is not seen, while others report.                       *)
OutageIsVisible ==
    \A r \in Routers :
        <>[](uplink[r] # "good" /\ probe[r].value # {}) =>
            <>[](NetworkStatus(Routers) # {1} \/ ~Fresh(Routers))

(* Offload that stays on, on a router whose configuration can be read and     *)
(* that answers, takes the traffic of all routers off the panels for good.    *)
OffloadSuppresses ==
    \A r \in Routers :
        <>[](On(r) # {} /\ broken[r] \cap {"hosts", "uci"} = {} /\ seen[r].up = {1}) =>
            <>[](TrustedTraffic(Routers) = {} /\ TrafficAccountingState(Routers) # {1})
=============================================================================
