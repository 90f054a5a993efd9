---------------------------- MODULE TileColours ----------------------------
(***************************************************************************)
(* The threshold steps and value mappings that the v2 dashboards give to   *)
(* tiles with a fallback value, as <<colour, from>> steps and as functions *)
(* from values to colours.  Fractions are per cent, and the mission steps, *)
(* whose base is minus infinity, start at Base.                            *)
(***************************************************************************)
EXTENDS PanelGrid

Base == -1000

OkBad           == << <<"green", 0>>, <<"red", 1>> >>
Capacity        == << <<"green", 0>>, <<"yellow", 70>>, <<"red", 90>> >>
LossPercent     == << <<"green", 0>>, <<"yellow", 1>>, <<"red", 5>> >>
CapacityPercent == << <<"green", 0>>, <<"yellow", 70>>, <<"red", 90>> >>
Freshness       == << <<"green", 0>>, <<"yellow", 660>>, <<"red", 900>> >>
Neutral         == << <<"blue", Base>> >>
Unavailable     == << <<"gray", 0>>, <<"blue", 1>> >>

MissionNeutral      == << <<"blue", Base>> >>
MissionOkBad        == << <<"red", Base>>, <<"green", 1>> >>
MissionZeroGood     == << <<"green", Base>>, <<"orange", 1>> >>
MissionZeroGoodHard == << <<"green", Base>>, <<"red", 1>> >>

StatusMappings       == [v \in {0, 1} |-> IF v = 1 THEN "green" ELSE "red"]
BooleanOkMappings    == [v \in {0, 1} |-> IF v = 1 THEN "green" ELSE "red"]
FlowDataMappings     == [v \in {0, 1} |-> IF v = 1 THEN "green" ELSE "red"]
TruncationMappings   == [v \in {0, 1} |-> IF v = 0 THEN "green" ELSE "red"]
OffloadMappings      == [v \in {0, 1} |-> IF v = 0 THEN "green" ELSE "red"]

\* The texts, which go with gray and with blue and tell this mapping apart.
AvailabilityMappings == [v \in {0, 1} |-> IF v = 0 THEN "not collected" ELSE "collected"]
TrafficStateMappings   == [v \in 0 .. 2 |-> <<"gray", "green", "red">>[v + 1]]
ConntrackStateMappings == [v \in 0 .. 2 |-> <<"gray", "green", "red">>[v + 1]]
=============================================================================
