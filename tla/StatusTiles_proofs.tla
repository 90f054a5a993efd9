-------------------------- MODULE StatusTiles_proofs --------------------------
(* Proofs about StatusTiles, for every set of routers.                         *)
EXTENDS StatusTiles, TLAPS

-----------------------------------------------------------------------------
(* Aggregates of flags *)

Flag == {0, 1}

LEMMA MaxOfFlags ==
    ASSUME NEW S, S \subseteq Flag, S # {}
    PROVE  Max(S) \in S /\ \A x \in S : Max(S) >= x
<1>1. \E x \in S : \A y \in S : x >= y
    <2>1. CASE 1 \in S
        BY <2>1 DEF Flag
    <2>2. CASE 1 \notin S
        <3>1. \A y \in S : y = 0
            BY <2>2 DEF Flag
        <3>2. PICK x \in S : TRUE
            OBVIOUS
        <3>3. \A y \in S : x >= y
            BY <3>1, <3>2
        <3> QED  BY <3>2, <3>3
    <2> QED  BY <2>1, <2>2
<1>2. Max(S) = CHOOSE x \in S : \A y \in S : x >= y
    BY DEF Max
<1> DEFINE Upper(x) == x \in S /\ \A y \in S : x >= y
<1>3. \E x : Upper(x)
    BY <1>1
<1>4. Upper(CHOOSE x : Upper(x))
    BY <1>3
<1> QED  BY <1>2, <1>4

\* An aggregate shows a 1 exactly if one of the values is 1.
LEMMA HighestFlag ==
    ASSUME NEW S, S \subseteq Flag
    PROVE  /\ 1 \in S => Highest(S) = {1}
           /\ 1 \in Highest(S) => 1 \in S
           /\ Highest(S) \subseteq Flag
<1>1. CASE S = {}
    BY <1>1 DEF Highest
<1>2. CASE S # {}
    <2>1. Max(S) \in S /\ \A x \in S : Max(S) >= x
        BY <1>2, MaxOfFlags
    <2>2. Highest(S) = {Max(S)}
        BY <1>2 DEF Highest
    <2>3. ASSUME 1 \in S PROVE Max(S) = 1
        <3>1. Max(S) \in {0, 1} /\ Max(S) >= 1
            BY <2>1, <2>3 DEF Flag
        <3> HIDE DEF Max
        <3> QED  BY <3>1
    <2> QED  BY <2>1, <2>2, <2>3 DEF Flag
<1> QED  BY <1>1, <1>2

-----------------------------------------------------------------------------
(* Types *)

Exposed == [up : SUBSET {0, 1}, probe : SUBSET {0, 1}, age : SUBSET (0 .. Red),
            offload : SUBSET [mode : Modes, value : {0, 1}],
            read : SUBSET {0, 1}, traffic : SUBSET {0, 1},
            flag : [Collectors -> SUBSET {0, 1}],
            success : [Collectors -> SUBSET {0, 1}],
            ended : SUBSET Collectors]

LEMMA UnreachableType == Unreachable \in Exposed
BY DEF Unreachable, Exposed

LEMMA ExpositionType ==
    ASSUME TypeOK, NEW r \in Routers
    PROVE  Exposition(r) \in Exposed
<1>1. probe[r].value \subseteq {0, 1} /\ probe[r].age \in 0 .. Red
    BY DEF TypeOK
<1>2. OffloadSeries(r) \subseteq [mode : Modes, value : {0, 1}]
    BY DEF OffloadSeries
<1>3. ReadSuccess(r) \subseteq {0, 1} /\ Traffic(r) \subseteq {0, 1}
    BY DEF ReadSuccess, Traffic
<1>4. \A c \in Collectors : FlagOf(r, c) \in {0, 1} /\ SuccessOf(r, c) \in {0, 1}
    BY DEF FlagOf, SuccessOf
<1>5. (IF probe[r].value = {} THEN {} ELSE {probe[r].age}) \subseteq 0 .. Red
    BY <1>1
<1> HIDE DEF OffloadSeries, ReadSuccess, Traffic, FlagOf, SuccessOf
<1> QED  BY <1>1, <1>2, <1>3, <1>4, <1>5 DEF Exposition, Exposed

LEMMA AgedType ==
    ASSUME NEW age \in 0 .. Red
    PROVE  Aged(age) \in 0 .. Red
BY BoundAssumption DEF Aged

\* Only the ages of the samples change when time passes.
LEMMA OlderType ==
    ASSUME NEW s \in Exposed
    PROVE  [s EXCEPT !.age = {Aged(a) : a \in @}] \in Exposed
<1>1. {Aged(a) : a \in s.age} \subseteq 0 .. Red
    BY AgedType DEF Exposed
<1> QED  BY <1>1 DEF Exposed

(* Values and samples keep their types, ages their cap and changes their      *)
(* bound, for any number of routers.                                          *)
THEOREM TypeCorrect == Spec => []TypeOK
<1>1. Init => TypeOK
    <2> SUFFICES ASSUME Init PROVE TypeOK
        OBVIOUS
    <2>1. seen \in [Routers -> Exposed]
        BY UnreachableType DEF Init
    <2>2. probe \in [Routers -> [value : SUBSET {0, 1}, age : 0 .. Red]]
        BY BoundAssumption DEF Init
    <2>3. offload \in [Routers -> [Modes -> {"unset", "0", "1"}]]
        BY DEF Init
    <2> QED  BY <2>1, <2>2, <2>3, BoundAssumption DEF Init, TypeOK, Exposed
<1>2. TypeOK /\ [Next]_vars => TypeOK'
    <2> SUFFICES ASSUME TypeOK, [Next]_vars PROVE TypeOK'
        OBVIOUS
    <2> USE BoundAssumption
    <2>1. CASE UNCHANGED vars
        BY <2>1 DEF TypeOK, vars, world, prometheus
    <2>2. CASE PeriodPasses
        <3>1. seen' \in [Routers -> Exposed]
            BY <2>2, OlderType DEF PeriodPasses, TypeOK, Exposed
        <3>2. probe' \in [Routers -> [value : SUBSET {0, 1}, age : 0 .. Red]]
            <4>1. ASSUME NEW r \in Routers
                  PROVE  [probe[r] EXCEPT !.age = Aged(@)] \in [value : SUBSET {0, 1}, age : 0 .. Red]
                <5>1. probe[r] \in [value : SUBSET {0, 1}, age : 0 .. Red]
                    BY DEF TypeOK
                <5>2. Aged(probe[r].age) \in 0 .. Red
                    BY <5>1, AgedType
                <5> QED  BY <5>1, <5>2
            <4> QED  BY <2>2, <4>1 DEF PeriodPasses
        <3>3. since' \in [Routers -> 0 .. Red]
            <4>1. ASSUME NEW r \in Routers
                  PROVE  (IF uplink[r] = "good" THEN 0 ELSE Aged(since[r])) \in 0 .. Red
                BY AgedType DEF TypeOK
            <4> QED  BY <2>2, <4>1 DEF PeriodPasses
        <3> QED  BY <2>2, <3>1, <3>2, <3>3 DEF PeriodPasses, TypeOK, Exposed, world
    <2>3. ASSUME NEW r \in Routers, RouterStep(r) PROVE TypeOK'
        <3>1. CASE \E u \in {"good", "failing", "gone"} : UplinkChanges(r, u)
            <4>1. since' \in [Routers -> 0 .. Red]
                BY <3>1 DEF UplinkChanges, TypeOK
            <4> QED  BY <3>1, <4>1 DEF UplinkChanges, Changes, TypeOK, prometheus
        <3>2. CASE \E m \in Modes, v \in {"unset", "0", "1"} : OffloadChanges(r, m, v)
            BY <3>2 DEF OffloadChanges, Changes, TypeOK, prometheus
        <3>3. CASE \E what \in Reads : ReadChanges(r, what)
            BY <3>3 DEF ReadChanges, Changes, TypeOK, prometheus
        <3>4. CASE Reboots(r)
            BY <3>4 DEF Reboots, Changes, TypeOK, prometheus, world
        <3>5. CASE ProbeRuns(r)
            BY <3>5 DEF ProbeRuns, TypeOK, prometheus, world
        <3>6. CASE Scraped(r)
            <4>1. seen' \in [Routers -> Exposed]
                BY <3>6, ExpositionType DEF Scraped, TypeOK, Exposed
            <4>2. was' \in [Routers -> SUBSET Modes]
                BY <3>6 DEF Scraped, TypeOK, On
            <4> QED  BY <3>6, <4>1, <4>2 DEF Scraped, TypeOK, Exposed, world
        <3>7. CASE Missed(r)
            <4>1. seen' \in [Routers -> Exposed]
                BY <3>7, UnreachableType DEF Missed, TypeOK, Exposed
            <4> QED  BY <3>7, <4>1 DEF Missed, TypeOK, Exposed, world
        <3>8. CASE WindowPasses(r)
            BY <3>8 DEF WindowPasses, TypeOK, world
        <3> QED  BY <2>3, <3>1, <3>2, <3>3, <3>4, <3>5, <3>6, <3>7, <3>8 DEF RouterStep
    <2> QED  BY <2>1, <2>2, <2>3 DEF Next
<1> QED  BY <1>1, <1>2, PTL DEF Spec

-----------------------------------------------------------------------------
(* What the samples of one router say *)

(* A scrape that says the configuration was read holds a 1 for every mode     *)
(* that was on, a flag of 1 of device traffic was sent after the counters,    *)
(* and one of the mesh is right if the scrape succeeded.                      *)
SamplesAreHonest ==
    \A r \in Routers :
        /\ seen[r].read = {1} =>
              \A m \in was[r] : [mode |-> m, value |-> 1] \in seen[r].offload
        /\ 1 \in seen[r].flag["device_traffic"] => "device_traffic" \in seen[r].ended
        /\ 1 \in seen[r].flag["wifi_dethrash"] /\ 1 \in seen[r].success["wifi_dethrash"] =>
              "wifi_dethrash" \in seen[r].ended

LEMMA ExpositionIsHonest ==
    ASSUME NEW r \in Routers
    PROVE  /\ Exposition(r).read = {1} =>
                \A m \in On(r) : [mode |-> m, value |-> 1] \in Exposition(r).offload
           /\ 1 \in Exposition(r).flag["device_traffic"] =>
                "device_traffic" \in Exposition(r).ended
           /\ 1 \in Exposition(r).flag["wifi_dethrash"]
                /\ 1 \in Exposition(r).success["wifi_dethrash"] =>
                "wifi_dethrash" \in Exposition(r).ended
<1>1. ASSUME ReadSuccess(r) = {1}, NEW m \in On(r)
      PROVE  [mode |-> m, value |-> 1] \in OffloadSeries(r)
    <2>1. broken[r] \cap {"hosts", "uci"} = {}
        BY <1>1 DEF ReadSuccess
    <2>2. m \in {n \in Modes : offload[r][n] # "unset"}
        BY <1>1 DEF On
    <2> QED  BY <2>1, <2>2, <1>1 DEF OffloadSeries
<1>2. FlagOf(r, "device_traffic") = 1 => Ends(r, "device_traffic")
    BY DEF FlagOf
<1>3. FlagOf(r, "wifi_dethrash") = 1 /\ SuccessOf(r, "wifi_dethrash") = 1 =>
        Ends(r, "wifi_dethrash")
    BY DEF FlagOf, SuccessOf, Ends
<1>4. "device_traffic" \in Collectors /\ "wifi_dethrash" \in Collectors
    BY DEF Collectors
<1>5. \A c \in Collectors : /\ Exposition(r).flag[c] = {FlagOf(r, c)}
                            /\ Exposition(r).success[c] = {SuccessOf(r, c)}
                            /\ c \in Exposition(r).ended <=> Ends(r, c)
    BY DEF Exposition
<1>6. Exposition(r).read = ReadSuccess(r) /\ Exposition(r).offload = OffloadSeries(r)
    BY DEF Exposition
<1> QED  BY <1>1, <1>2, <1>3, <1>4, <1>5, <1>6

LEMMA HonestSamples == Spec => []SamplesAreHonest
<1>1. Init => SamplesAreHonest
    BY DEF Init, SamplesAreHonest, Unreachable, Collectors
<1>2. TypeOK /\ SamplesAreHonest /\ [Next]_vars => SamplesAreHonest'
    <2> SUFFICES ASSUME TypeOK, SamplesAreHonest, [Next]_vars PROVE SamplesAreHonest'
        OBVIOUS
    <2>1. ASSUME UNCHANGED <<seen, was>> PROVE SamplesAreHonest'
        BY <2>1 DEF SamplesAreHonest
    <2>2. CASE PeriodPasses
        <3>1. \A r \in Routers : /\ seen'[r].read = seen[r].read
                                 /\ seen'[r].offload = seen[r].offload
                                 /\ seen'[r].flag = seen[r].flag
                                 /\ seen'[r].success = seen[r].success
                                 /\ seen'[r].ended = seen[r].ended
            BY <2>2 DEF PeriodPasses, TypeOK
        <3> QED  BY <2>2, <3>1 DEF PeriodPasses, SamplesAreHonest
    <2>3. ASSUME NEW r \in Routers, Scraped(r) PROVE SamplesAreHonest'
        <3>1. /\ seen'[r] = Exposition(r)
              /\ was'[r] = On(r)
              /\ \A q \in Routers \ {r} : seen'[q] = seen[q] /\ was'[q] = was[q]
            BY <2>3 DEF Scraped, TypeOK
        <3> QED  BY <3>1, ExpositionIsHonest DEF SamplesAreHonest
    <2>4. ASSUME NEW r \in Routers, Missed(r) PROVE SamplesAreHonest'
        <3>1. /\ seen'[r] = Unreachable
              /\ was' = was
              /\ \A q \in Routers \ {r} : seen'[q] = seen[q]
            BY <2>4 DEF Missed, TypeOK
        <3> QED  BY <3>1 DEF SamplesAreHonest, Unreachable, Collectors
    <2> QED
        BY <2>1, <2>2, <2>3, <2>4
        DEF Next, RouterStep, vars, prometheus, UplinkChanges, OffloadChanges,
            ReadChanges, Reboots, ProbeRuns, WindowPasses
<1> QED  BY <1>1, <1>2, TypeCorrect, PTL DEF Spec

-----------------------------------------------------------------------------
(* What a selection of routers says *)

LEMMA OffloadFlags ==
    ASSUME TypeOK, NEW sel \in Selections, NEW modes
    PROVE  Offload(sel, modes) \subseteq Flag
BY DEF Offload, Selections, TypeOK, Flag

LEMMA OffloadCounts ==
    ASSUME TypeOK, SamplesAreHonest, NEW sel \in Selections, NEW modes,
           NEW r \in sel, NEW m \in was[r], m \in modes, seen[r].read = {1}
    PROVE  Highest(Offload(sel, modes)) = {1}
<1>1. [mode |-> m, value |-> 1] \in seen[r].offload
    BY DEF SamplesAreHonest, Selections
<1>2. 1 \in {s.value : s \in {t \in seen[r].offload : t.mode \in modes}}
    BY <1>1
<1>3. 1 \in Offload(sel, modes)
    BY <1>2 DEF Offload
<1> QED  BY <1>3, OffloadFlags, HighestFlag

(* Whatever fails, and in any order, routers that all report having read      *)
(* their offload configuration are never called free of offload while one of  *)
(* them had it on.                                                            *)
THEOREM OffloadNoticed == Spec => []OffloadIsNoticed
<1>1. TypeOK /\ SamplesAreHonest => OffloadIsNoticed
    <2> SUFFICES ASSUME TypeOK, SamplesAreHonest, NEW sel \in Selections,
                        \A r \in sel : seen[r].read = {1}
                 PROVE  /\ TrustedTraffic(sel) # {} \/ TrafficAccountingState(sel) = {1} =>
                               \A r \in sel : was[r] = {}
                        /\ FlowDataComplete(sel) = {1} => \A r \in sel : "hw" \notin was[r]
        BY DEF OffloadIsNoticed
    <2>1. ASSUME NEW r \in sel, was[r] # {}
          PROVE  TrustedTraffic(sel) = {} /\ TrafficAccountingState(sel) # {1}
        <3>1. PICK m \in was[r] : m \in Modes
            BY <2>1 DEF TypeOK, Selections
        <3>2. Highest(Offload(sel, Modes)) = {1}
            BY <3>1, OffloadCounts
        <3>3. FlowOffloadEnabled(sel) = {1}
            BY <3>2 DEF FlowOffloadEnabled, Equal
        <3>4. TrafficAccountingState(sel) = {2}
            BY <3>3 DEF TrafficAccountingState, Unless, Or
        <3> QED  BY <3>3, <3>4 DEF TrustedTraffic, Unless
    <2>2. ASSUME NEW r \in sel, "hw" \in was[r]
          PROVE  FlowDataComplete(sel) # {1}
        <3>1. Highest(Offload(sel, {"hw"})) = {1}
            BY <2>2, OffloadCounts
        <3>2. FlowDataComplete(sel) = {0}
            BY <3>1 DEF FlowDataComplete, EqualBool, Or
        <3> QED  BY <3>2
    <2> QED  BY <2>1, <2>2
<1> QED  BY <1>1, TypeCorrect, HonestSamples, PTL

\* A profile tile shows a 1 only if some flag and some success are 1.
LEMMA CollectedTile ==
    ASSUME TypeOK, NEW sel \in Selections, NEW c \in Collectors, Availability(sel, c) = {1}
    PROVE  /\ \E r \in sel : 1 \in seen[r].flag[c]
           /\ \E r \in sel : 1 \in seen[r].success[c]
<1>1. Flags(sel, c) \subseteq Flag /\ Successes(sel, c) \subseteq Flag
    BY DEF Flags, Successes, Selections, TypeOK, Flag
<1>2. 1 \in Times(Highest(Flags(sel, c)), Highest(Successes(sel, c)))
    BY DEF Availability, Or
<1>3. PICK a \in Highest(Flags(sel, c)), b \in Highest(Successes(sel, c)) : a * b = 1
    BY <1>2 DEF Times
<1>4. a \in {0, 1} /\ b \in {0, 1}
    BY <1>1, <1>3, HighestFlag DEF Flag
<1>5. a = 1 /\ b = 1
    BY <1>3, <1>4
<1>6. 1 \in Flags(sel, c) /\ 1 \in Successes(sel, c)
    BY <1>1, <1>3, <1>5, HighestFlag
<1> QED  BY <1>6 DEF Flags, Successes

(* "Collected" tells of a collector that got to its end, for device traffic   *)
(* on some router of any selection, and for the mesh, whose flag comes first, *)
(* on the one router selected.                                                *)
THEOREM CollectedMeansEnded == Spec => []CollectedIsCollected
<1>1. TypeOK /\ SamplesAreHonest => CollectedIsCollected
    <2> SUFFICES ASSUME TypeOK, SamplesAreHonest PROVE CollectedIsCollected
        OBVIOUS
    <2> USE DEF Collectors
    <2>1. ASSUME NEW sel \in Selections, Availability(sel, "device_traffic") = {1}
          PROVE  \E r \in sel : "device_traffic" \in seen[r].ended
        <3>1. PICK r \in sel : 1 \in seen[r].flag["device_traffic"]
            BY <2>1, CollectedTile
        <3> QED  BY <3>1 DEF SamplesAreHonest, Selections
    <2>2. ASSUME NEW r \in Routers, Availability({r}, "wifi_dethrash") = {1}
          PROVE  "wifi_dethrash" \in seen[r].ended
        <3>1. {r} \in Selections
            BY DEF Selections
        <3>2. /\ \E q \in {r} : 1 \in seen[q].flag["wifi_dethrash"]
              /\ \E q \in {r} : 1 \in seen[q].success["wifi_dethrash"]
            <4>1. "wifi_dethrash" \in Collectors
                OBVIOUS
            <4> QED  BY <2>2, <3>1, <4>1, CollectedTile
        <3> QED  BY <3>2 DEF SamplesAreHonest
    <2> QED  BY <2>1, <2>2 DEF CollectedIsCollected
<1> QED  BY <1>1, TypeCorrect, HonestSamples, PTL

-----------------------------------------------------------------------------
(* What a green Network Status stands for *)

\* An aggregate with min shows a 1 only if no value is 0.
LEMMA LowestFlag ==
    ASSUME NEW S, S \subseteq Flag, 1 \in Lowest(S)
    PROVE  0 \notin S
<1> SUFFICES ASSUME 0 \in S PROVE FALSE
    OBVIOUS
<1> DEFINE Lower(x) == x \in S /\ \A y \in S : x <= y
<1>1. Lower(0)
    BY DEF Flag
<1>2. Lower(CHOOSE x : Lower(x))
    BY <1>1
<1>3. Min(S) = CHOOSE x \in S : \A y \in S : x <= y
    BY DEF Min
<1>4. Min(S) \in S /\ Min(S) <= 0
    BY <1>2, <1>3
<1>5. Min(S) = 1
    BY DEF Lowest
<1> HIDE DEF Min
<1> QED  BY <1>4, <1>5

LEMMA LowestIsFlag ==
    ASSUME NEW S, S \subseteq Flag
    PROVE  Lowest(S) \subseteq Flag
<1> SUFFICES ASSUME S # {} PROVE Min(S) \in S
    BY DEF Lowest
<1> DEFINE Lower(x) == x \in S /\ \A y \in S : x <= y
<1>1. \E x : Lower(x)
    <2>1. CASE 0 \in S
        BY <2>1 DEF Flag
    <2>2. CASE 0 \notin S
        <3>1. \A y \in S : y = 1
            BY <2>2 DEF Flag
        <3>2. PICK x \in S : TRUE
            OBVIOUS
        <3>3. Lower(x)
            BY <3>1, <3>2
        <3> QED  BY <3>3
    <2> QED  BY <2>1, <2>2
<1>2. Lower(CHOOSE x : Lower(x))
    BY <1>1
<1> QED  BY <1>2 DEF Min

\* Ages stop at Red, so an aggregate that is lower than Red covers them all.
LEMMA HighestAge ==
    ASSUME NEW S, S \subseteq 0 .. Red, \A age \in Highest(S) : age < Red
    PROVE  \A age \in S : age < Red
<1> SUFFICES ASSUME Red \in S PROVE FALSE
    BY BoundAssumption
<1> DEFINE Upper(x) == x \in S /\ \A y \in S : x >= y
<1>1. Upper(Red)
    BY BoundAssumption
<1>2. Upper(CHOOSE x : Upper(x))
    BY <1>1
<1>3. Max(S) = CHOOSE x \in S : \A y \in S : x >= y
    BY DEF Max
<1>4. Max(S) \in S /\ Max(S) >= Red
    BY <1>2, <1>3
<1>5. Max(S) < Red
    BY DEF Highest
<1> HIDE DEF Max
<1>6. ASSUME NEW m \in 0 .. Red, m >= Red, m < Red PROVE FALSE
    BY <1>6, BoundAssumption
<1>7. Max(S) \in 0 .. Red
    BY <1>4
<1> QED  BY <1>4, <1>5, <1>6, <1>7

(* A file that says 1 is at least as old as the outage, and so is the sample   *)
(* of it: time passes for both alike.                                          *)
NotOlderThanSample ==
    \A r \in Routers :
        /\ uplink[r] = "good" => since[r] = 0
        /\ 1 \in probe[r].value => since[r] <= probe[r].age
        /\ 1 \in seen[r].probe => \A age \in seen[r].age : since[r] <= age
        /\ seen[r].probe # {} => seen[r].age # {}
        /\ seen[r].up \in {{0}, {1}}

LEMMA AgedTogether ==
    ASSUME NEW m \in 0 .. Red, NEW n \in 0 .. Red, m <= n
    PROVE  Aged(m) <= Aged(n)
BY BoundAssumption DEF Aged

LEMMA AgesOfSamples ==
    ASSUME TypeOK, NEW r \in Routers
    PROVE  /\ since[r] \in 0 .. Red /\ probe[r].age \in 0 .. Red
           /\ seen[r].age \subseteq 0 .. Red /\ probe[r].value \subseteq {0, 1}
BY DEF TypeOK

LEMMA SamplesAge == Spec => []NotOlderThanSample
<1>1. Init => NotOlderThanSample
    BY DEF Init, NotOlderThanSample, Unreachable
<1>2. TypeOK /\ NotOlderThanSample /\ [Next]_vars => NotOlderThanSample'
    <2> SUFFICES ASSUME TypeOK, NotOlderThanSample, [Next]_vars PROVE NotOlderThanSample'
        OBVIOUS
    <2>1. CASE UNCHANGED <<uplink, probe, seen, since>>
        BY <2>1 DEF NotOlderThanSample
    <2>2. CASE PeriodPasses
        <3> SUFFICES ASSUME NEW r \in Routers
                     PROVE  /\ uplink'[r] = "good" => since'[r] = 0
                            /\ 1 \in probe'[r].value => since'[r] <= probe'[r].age
                            /\ 1 \in seen'[r].probe => \A age \in seen'[r].age : since'[r] <= age
                            /\ seen'[r].probe # {} => seen'[r].age # {}
                            /\ seen'[r].up \in {{0}, {1}}
            BY DEF NotOlderThanSample
        <3>1. /\ probe'[r].value = probe[r].value /\ probe'[r].age = Aged(probe[r].age)
              /\ seen'[r].probe = seen[r].probe /\ seen'[r].up = seen[r].up
              /\ seen'[r].age = {Aged(a) : a \in seen[r].age}
              /\ since'[r] = IF uplink[r] = "good" THEN 0 ELSE Aged(since[r])
              /\ uplink' = uplink
            BY <2>2 DEF PeriodPasses, TypeOK, world
        <3>2. ASSUME NEW age \in 0 .. Red, since[r] <= age
              PROVE  since'[r] <= Aged(age)
            <4>1. Aged(since[r]) <= Aged(age) /\ Aged(age) \in 0 .. Red
                BY <3>2, AgedTogether, AgedType, AgesOfSamples
            <4> QED  BY <3>1, <4>1
        <3> QED  BY <3>1, <3>2, AgesOfSamples DEF NotOlderThanSample
    <2>3. ASSUME NEW r \in Routers, NEW u \in {"good", "failing", "gone"}, UplinkChanges(r, u)
          PROVE  NotOlderThanSample'
        <3>1. /\ probe' = probe /\ seen' = seen
              /\ \A q \in Routers : since'[q] \in {0, since[q]}
              /\ \A q \in Routers : uplink'[q] = "good" => since'[q] = 0 \/ (uplink[q] = "good" /\ since'[q] = since[q])
            <4>1. /\ probe' = probe /\ seen' = seen
                  /\ uplink' = [uplink EXCEPT ![r] = u]
                  /\ since' = IF u = "good" THEN [since EXCEPT ![r] = 0] ELSE since
                BY <2>3 DEF UplinkChanges, prometheus
            <4>2. uplink \in [Routers -> {"good", "failing", "gone"}] /\ since \in [Routers -> 0 .. Red]
                BY DEF TypeOK
            <4>3. CASE u = "good"
                <5>1. since'[r] = 0
                    BY <4>1, <4>2, <4>3
                <5>2. ASSUME NEW q \in Routers \ {r} PROVE uplink'[q] = uplink[q] /\ since'[q] = since[q]
                    BY <4>1, <4>2, <4>3, <5>2
                <5>3. \A q \in Routers : since'[q] = 0 \/ (uplink'[q] = uplink[q] /\ since'[q] = since[q])
                    BY <5>1, <5>2
                <5> QED  BY <4>1, <5>3
            <4>4. CASE u # "good"
                <5>1. ASSUME NEW q \in Routers, uplink'[q] = "good" PROVE uplink[q] = "good" /\ since'[q] = since[q]
                    BY <4>1, <4>2, <4>4, <5>1
                <5> QED  BY <4>1, <4>4, <5>1
            <4> QED  BY <4>1, <4>3, <4>4
        <3>2. \A q \in Routers : 0 <= probe[q].age /\ \A age \in seen[q].age : 0 <= age
            BY AgesOfSamples
        <3> QED  BY <3>1, <3>2 DEF NotOlderThanSample
    <2>4. ASSUME NEW r \in Routers, Reboots(r) \/ ProbeRuns(r) PROVE NotOlderThanSample'
        <3>1. /\ seen' = seen /\ since' = since /\ uplink' = uplink
              /\ \A q \in Routers \ {r} : probe'[q] = probe[q]
              /\ 1 \in probe'[r].value => uplink[r] = "good" /\ probe'[r].age = 0
            BY <2>4 DEF Reboots, ProbeRuns, prometheus, TypeOK, world
        <3> QED  BY <3>1 DEF NotOlderThanSample
    <2>5. ASSUME NEW r \in Routers, Scraped(r) PROVE NotOlderThanSample'
        <3>1. /\ seen'[r] = Exposition(r) /\ probe' = probe /\ since' = since /\ uplink' = uplink
              /\ \A q \in Routers \ {r} : seen'[q] = seen[q]
            BY <2>5 DEF Scraped, TypeOK, world
        <3>2. /\ Exposition(r).up = {1} /\ Exposition(r).probe = probe[r].value
              /\ Exposition(r).age = IF probe[r].value = {} THEN {} ELSE {probe[r].age}
            BY DEF Exposition
        <3> QED  BY <3>1, <3>2 DEF NotOlderThanSample
    <2>6. ASSUME NEW r \in Routers, Missed(r) PROVE NotOlderThanSample'
        <3>1. /\ seen'[r] = Unreachable /\ probe' = probe /\ since' = since /\ uplink' = uplink
              /\ \A q \in Routers \ {r} : seen'[q] = seen[q]
            BY <2>6 DEF Missed, TypeOK, world
        <3> QED  BY <3>1 DEF NotOlderThanSample, Unreachable
    <2> QED
        BY <2>1, <2>2, <2>3, <2>4, <2>5, <2>6
        DEF Next, RouterStep, vars, world, prometheus, OffloadChanges, ReadChanges, WindowPasses
<1> QED  BY <1>1, <1>2, TypeCorrect, PTL DEF Spec

\* Samples that came from one router, for a selection that contains it.
LEMMA SamplesSelected ==
    ASSUME TypeOK, NEW sel \in Selections, NEW r \in sel
    PROVE  /\ r \in Routers
           /\ seen[r].up \subseteq Up(sel) /\ Up(sel) \subseteq Flag
           /\ seen[r].probe \subseteq Probes(sel) /\ Probes(sel) \subseteq Flag
           /\ seen[r].age \subseteq Ages(sel) /\ Ages(sel) \subseteq 0 .. Red
BY DEF Selections, Up, Probes, Ages, TypeOK, Flag

(* For any selection of any routers, two green tiles cover all of them: no     *)
(* router that fails to answer, reports a failure or has gone quiet hides      *)
(* behind the others.                                                          *)
THEOREM GreenIsForAll == Spec => []GreenCoversAll
<1>1. TypeOK /\ NotOlderThanSample => GreenCoversAll
    <2> SUFFICES ASSUME TypeOK, NotOlderThanSample, NEW sel \in Selections,
                        NetworkStatus(sel) = {1}, Fresh(sel), NEW r \in sel
                 PROVE  seen[r].up = {1} /\ (seen[r].probe # {} => since[r] < Red)
        BY DEF GreenCoversAll
    <2>0. /\ r \in Routers
          /\ seen[r].up \subseteq Up(sel) /\ Up(sel) \subseteq Flag
          /\ seen[r].probe \subseteq Probes(sel) /\ Probes(sel) \subseteq Flag
          /\ seen[r].age \subseteq Ages(sel) /\ Ages(sel) \subseteq 0 .. Red
        BY SamplesSelected
    <2>m. 1 \in Times(Lowest(Up(sel)), Lowest(Probes(sel)))
        BY DEF NetworkStatus, Or
    <2>1. PICK a \in Lowest(Up(sel)), b \in Lowest(Probes(sel)) : a * b = 1
        BY <2>m DEF Times
    <2>2. a \in {0, 1} /\ b \in {0, 1}
        BY <2>0, <2>1, LowestIsFlag DEF Flag
    <2>3. a = 1 /\ b = 1
        BY <2>1, <2>2
    <2>4. 0 \notin Up(sel) /\ 0 \notin Probes(sel)
        BY <2>0, <2>1, <2>3, LowestFlag
    <2>5. seen[r].up = {1}
        BY <2>0, <2>4 DEF NotOlderThanSample
    <2>6. ASSUME seen[r].probe # {} PROVE since[r] < Red
        <3>1. 1 \in seen[r].probe
            BY <2>0, <2>4, <2>6 DEF Flag
        <3>2. PICK age \in seen[r].age : since[r] <= age
            BY <2>0, <2>6, <3>1 DEF NotOlderThanSample
        <3>3. age < Red
            BY <2>0, <3>2, HighestAge DEF Fresh
        <3>4. since[r] \in 0 .. Red /\ age \in 0 .. Red
            BY <2>0, <3>2, AgesOfSamples
        <3> QED  BY <3>2, <3>3, <3>4, BoundAssumption
    <2> QED  BY <2>5, <2>6
<1> QED  BY <1>1, TypeCorrect, SamplesAge, PTL
=============================================================================
