-------------------------- MODULE MCDashboardView ---------------------------
(* The generators of the repository, each with a valid new draft and three   *)
(* that break a rule of their validators.                                    *)
EXTENDS DashboardView, TLC

MCGenerators == {"operations", "mission", "netflow", "topology", "clients", "advanced", "classic"}
MCV2 == MCGenerators \ {"classic"}

\* Enough for every kind of run: three copies, two copies, several dashboards.
MCSomeGenerators == {"operations", "netflow", "advanced", "classic"}
MCSomeV2 == MCSomeGenerators \ {"classic"}

MCCopies ==
    [operations |-> OperationsOuts, mission |-> MissionOuts, netflow |-> NetflowOuts,
     topology |-> TopologyOuts, clients |-> ClientsOuts, advanced |-> AdvancedOuts,
     classic |-> ClassicOuts]

\* Two of the four classic dashboards.
MCSomeCopies == [MCCopies EXCEPT !.classic = SubSeq(ClassicOuts, 1, 4)]

TitlesOf(tabs) == [t \in DOMAIN tabs |-> tabs[t].title]
MCTitles ==
    [operations |-> OperationsTitles, mission |-> MissionTitles, netflow |-> NetflowTitles,
     topology |-> TopologyTitles, clients |-> ClientsTitles, advanced |-> AdvancedTitles] @@
    [d \in {"overview", "network", "devices", "logs"} |-> TitlesOf(Boards[d])]
MCBudget == [d \in DOMAIN Boards |-> IF d = "mission" THEN PanelBudget ELSE Nat]

MCDrafts == {"committed", "roomier", "taller", "twice", "untitled"}

\* roomier: the last panel of the first tab is moved down.  taller: its first
\* panel grows over the next.  twice: a panel is added a second time below.
\* untitled: the first tab is forgotten.
Draft(v, tabs) ==
    LET first == tabs[1].panels
        last == first[Len(first)]
    IN  CASE v = "committed" -> tabs
          [] v = "roomier" -> [tabs EXCEPT ![1].panels[Len(first)].y = @ + 3]
          [] v = "taller" -> [tabs EXCEPT ![1].panels[1].h = @ + 1]
          [] v = "twice" -> [tabs EXCEPT ![1].panels = Append(first, [last EXCEPT !.y = @ + last.h])]
          [] v = "untitled" -> Tail(tabs)

MCLayouts == [d \in DOMAIN Boards |-> [v \in MCDrafts |-> Draft(v, Boards[d])]]

\* Runs of setup.sh for two pairs of profiles, neither with dpi, and the full one.
MCProfiles == {{"clients", "traffic"}, {"netflow", "wifi_mesh"}, AllProfiles}
=============================================================================
