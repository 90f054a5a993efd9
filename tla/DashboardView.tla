--------------------------- MODULE DashboardView ----------------------------
(***************************************************************************)
(* The dashboards of this repository: their generators, what each writes   *)
(* and where, and what a router on which only some profiles are installed  *)
(* shows on them.                                                          *)
(***************************************************************************)
EXTENDS DashboardBuild, ProfileSources, OperationsPanels, MissionPanels, NetflowPanels,
        ProfilePanels, ClassicPanels

OperationsOuts == << <<"operations", "exports">>, <<"operations", "provisioning">>,
                     <<"operations", "legacy">> >>
MissionOuts    == << <<"mission", "exports">>, <<"mission", "provisioning">> >>
NetflowOuts    == << <<"netflow", "exports">>, <<"netflow", "provisioning">> >>
TopologyOuts   == << <<"topology", "exports">>, <<"topology", "provisioning">> >>
ClientsOuts    == << <<"clients", "exports">>, <<"clients", "provisioning">> >>
AdvancedOuts   == << <<"advanced", "exports">>, <<"advanced", "provisioning">> >>
ClassicOuts ==
    << <<"overview", "provisioning">>, <<"overview", "legacy">>,
       <<"network", "provisioning">>, <<"network", "legacy">>,
       <<"devices", "provisioning">>, <<"devices", "legacy">>,
       <<"logs", "provisioning">>, <<"logs", "legacy">> >>

PanelBudget == 60 .. 90

Boards ==
    [operations |-> OperationsTabs, mission |-> MissionTabs, netflow |-> NetflowTabs,
     topology |-> TopologyTabs, clients |-> ClientsTabs, advanced |-> AdvancedTabs,
     overview |-> ClassicOverviewTabs, network |-> ClassicNetworkTabs,
     devices |-> ClassicDevicesTabs, logs |-> ClassicLogsTabs]

-----------------------------------------------------------------------------
Panels(d) == {At(Boards[d], s) : s \in Slots(Boards[d])}

(* What a router with these profiles installed leaves without a result: it
   lacks something the query joins, or everything that would do. *)
Starved(p, profiles) ==
    \/ ~(p.needs \subseteq Sources(profiles))
    \/ p.reads # {} /\ p.reads \cap Sources(profiles) = {}

BlankOnFull == {p \in UNION {Panels(d) : d \in DOMAIN Boards} : Starved(p, AllProfiles)}

\* Which optional profiles a dashboard is for.
Optional ==
    [advanced |-> {"traffic", "wifi_mesh", "dpi"}, netflow |-> {"netflow"},
     clients |-> {"clients"}, topology |-> {"clients"}]

\* A tile that wants what the profile adds says "Not collected".
Announced(d, profile, profiles) ==
    \E p \in Panels(d) :
        /\ (p.reads \cup p.needs) \cap Adds(profile) # {}
        /\ Starved(p, profiles) /\ p.rest = "not collected"

GreenOverNothing(d, profiles) == \E p \in Panels(d) : Starved(p, profiles) /\ p.rest = "green"

Silent ==
    [d \in DOMAIN Optional |->
        {profiles \in SUBSET AllProfiles :
            \E profile \in Optional[d] \ profiles : ~Announced(d, profile, profiles)}]
Misleading ==
    [d \in DOMAIN Optional |->
        {profiles \in SUBSET AllProfiles : GreenOverNothing(d, profiles)}]

(* Once every profile is installed, in however many runs of setup.sh, every
   panel of the dashboards as they are finds what its queries join and one at
   least of the other sources it reads. *)
NothingBlankOnFull == installed = AllProfiles => BlankOnFull = {}

(* docs/advanced-profiles.md: "Missing optional profiles are expected and are
   represented as Not collected, not as healthy zeroes".  After any runs of
   setup.sh, a tile of the profile's dashboard says so for each that is
   missing, though the exporter reports as ever and gates the tile's flag; and
   Advanced Monitoring and NetFlow have no tile that is green over nothing. *)
MissingIsNotHealthy ==
    \A d \in Provided \cap DOMAIN Optional :
        shown[d] = Committed =>
            /\ installed \notin Silent[d]
            /\ d \in {"advanced", "netflow"} => installed \notin Misleading[d]
=============================================================================
