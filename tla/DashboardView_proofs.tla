------------------------ MODULE DashboardView_proofs ------------------------
(***************************************************************************)
(* What the panels read and show at rest, dashboard by dashboard: every    *)
(* panel has its sources once all profiles are installed; a tile says of   *)
(* each missing profile that it is not collected, also when its query      *)
(* multiplies the profile's flag by something the exporter always reports; *)
(* and no tile of Advanced Monitoring and NetFlow is green without data.   *)
(* These are facts about the tables, so they hold for all generators,      *)
(* copies, edits, interrupted runs and sets of profiles.                   *)
(***************************************************************************)
EXTENDS DashboardView, TLAPS

-----------------------------------------------------------------------------
(* Lists of panels *)

IsList(s) == s \in Seq({s[i] : i \in DOMAIN s})

LEMMA OwnList ==
  ASSUME NEW S, NEW s \in Seq(S)
  PROVE  IsList(s)
BY DEF IsList

\* What stands in a concatenation stands in one of its parts.
LEMMA Joined ==
  ASSUME NEW a, NEW b, IsList(a), IsList(b)
  PROVE  /\ IsList(a \o b)
         /\ \A i \in DOMAIN (a \o b) :
              \/ \E j \in DOMAIN a : (a \o b)[i] = a[j]
              \/ \E j \in DOMAIN b : (a \o b)[i] = b[j]
<1> DEFINE S == {a[i] : i \in DOMAIN a} \cup {b[i] : i \in DOMAIN b}
<1>1. a \in Seq(S) /\ b \in Seq(S)
  BY DEF IsList
<1> HIDE DEF S
<1>2. a \o b \in Seq(S)
  BY <1>1
<1>3. ASSUME NEW i \in DOMAIN (a \o b)
      PROVE  \/ \E j \in DOMAIN a : (a \o b)[i] = a[j]
             \/ \E j \in DOMAIN b : (a \o b)[i] = b[j]
  <2>1. CASE i \in DOMAIN a
    BY <1>1, <2>1
  <2>2. CASE i \notin DOMAIN a
    <3>1. i - Len(a) \in DOMAIN b /\ (a \o b)[i] = b[i - Len(a)]
      BY <1>1, <1>3, <2>2
    <3>2. QED BY <3>1
  <2>3. QED BY <2>1, <2>2
<1>4. QED BY <1>2, <1>3, OwnList

-----------------------------------------------------------------------------
(* Every panel has a source.  The lemma of a dashboard goes through its
   groups of panels, joins those that share a tab, and puts the tabs
   together; the titles of the tabs play no part. *)

SourcesOfAll == Sources(AllProfiles)
Fed(p) == ~Starved(p, AllProfiles)
AllFed(panels) == IsList(panels) /\ \A i \in DOMAIN panels : Fed(panels[i])
FedTab(tab) == AllFed(tab.panels)
Nourished(layout) == \A t \in DOMAIN layout : FedTab(layout[t])

\* The profiles together install or configure all that the panels name.
LEMMA EverySource ==
  \A s \in
    {"Prometheus", "Alloy", "Syslog",
     "Node", "Textfile", "UciDhcpHost", "OpenWrtInfo", "NatTraffic", "Wifi", "WifiStations",
     "HostapdStations", "Hwmon", "Thermal", "NftCounters", "Snmp6", "Mwan3",
     "Dnsmasq", "DeviceStatus", "PacketLoss", "WanAddress",
     "ServiceHealth", "WanInfo", "WanQuality", "Filesystem", "DhcpPool", "LinkHealth", "Softnet",
     "Ipv6Health", "Inodes", "FirewallCounters", "Sqm", "WifiRadio",
     "DeviceTraffic", "WifiDethrash", "DpiNetifyd", "ClientInventory", "ClientTraffic",
     "ClientConntrack", "Topology", "NetflowHealth", "Akvorado", "Flows"} :
    s \in SourcesOfAll
<1>1. Adds("core") = Packages \cup CoreCollectors \cup CoreHelpers
  BY DEF Adds
<1>2. /\ Adds("traffic") = {"DeviceTraffic"}
      /\ Adds("wifi_mesh") = {"WifiDethrash"}
      /\ Adds("dpi") = {"DpiNetifyd"}
  BY DEF Adds
<1>3. /\ Adds("clients") = {"ClientInventory", "ClientTraffic", "ClientConntrack", "Topology"}
      /\ Adds("netflow") = {"NetflowHealth", "Akvorado", "Flows"}
  BY DEF Adds
<1>4. SourcesOfAll = UNION {Host, Adds("core"), Adds("traffic"), Adds("wifi_mesh"), Adds("dpi"),
                            Adds("clients"), Adds("netflow")}
  BY DEF SourcesOfAll, Sources, AllProfiles
<1>5. QED
  BY <1>1, <1>2, <1>3, <1>4 DEF Host, Packages, CoreCollectors, CoreHelpers

LEMMA FedPanel ==
  ASSUME NEW id, NEW x, NEW y, NEW w, NEW h, NEW reads,
         reads = {} \/ \E s \in reads : s \in SourcesOfAll
  PROVE  Fed(Panel(id, x, y, w, h, reads))
<1>1. Panel(id, x, y, w, h, reads).reads = reads /\ Panel(id, x, y, w, h, reads).needs = {}
  BY DEF Panel
<1>2. QED BY <1>1 DEF Fed, Starved, SourcesOfAll

LEMMA FedTile ==
  ASSUME NEW id, NEW x, NEW y, NEW w, NEW h, NEW reads, NEW rest,
         reads = {} \/ \E s \in reads : s \in SourcesOfAll
  PROVE  Fed(Tile(id, x, y, w, h, reads, rest))
<1>1. /\ Tile(id, x, y, w, h, reads, rest).reads = reads
      /\ Tile(id, x, y, w, h, reads, rest).needs = {}
  BY DEF Tile, Panel
<1>2. QED BY <1>1 DEF Fed, Starved, SourcesOfAll

\* What a joining panel is made of.
LEMMA JoiningPanelShape ==
  ASSUME NEW id, NEW x, NEW y, NEW w, NEW h, NEW reads, NEW sources
  PROVE  /\ Joining(Panel(id, x, y, w, h, reads), sources).reads = reads
         /\ Joining(Panel(id, x, y, w, h, reads), sources).needs = sources
BY DEF Joining, Panel

LEMMA JoiningTileShape ==
  ASSUME NEW id, NEW x, NEW y, NEW w, NEW h, NEW reads, NEW rest, NEW sources
  PROVE  /\ Joining(Tile(id, x, y, w, h, reads, rest), sources).reads = reads
         /\ Joining(Tile(id, x, y, w, h, reads, rest), sources).needs = sources
         /\ Joining(Tile(id, x, y, w, h, reads, rest), sources).rest = rest
BY DEF Joining, Tile, Panel

LEMMA FedJoiningPanel ==
  ASSUME NEW id, NEW x, NEW y, NEW w, NEW h, NEW reads, NEW sources,
         reads = {} \/ \E s \in reads : s \in SourcesOfAll,
         \A s \in sources : s \in SourcesOfAll
  PROVE  Fed(Joining(Panel(id, x, y, w, h, reads), sources))
<1> DEFINE p == Joining(Panel(id, x, y, w, h, reads), sources)
<1>1. p.reads = reads /\ p.needs = sources
  BY JoiningPanelShape
<1> HIDE DEF p
<1>2. Fed(p)
  BY <1>1 DEF Fed, Starved, SourcesOfAll
<1>3. QED BY <1>2 DEF p

LEMMA FedJoiningTile ==
  ASSUME NEW id, NEW x, NEW y, NEW w, NEW h, NEW reads, NEW rest, NEW sources,
         reads = {} \/ \E s \in reads : s \in SourcesOfAll,
         \A s \in sources : s \in SourcesOfAll
  PROVE  Fed(Joining(Tile(id, x, y, w, h, reads, rest), sources))
<1> DEFINE p == Joining(Tile(id, x, y, w, h, reads, rest), sources)
<1>1. p.reads = reads /\ p.needs = sources
  BY JoiningTileShape
<1> HIDE DEF p
<1>2. Fed(p)
  BY <1>1 DEF Fed, Starved, SourcesOfAll
<1>3. QED BY <1>2 DEF p

LEMMA FedTogether ==
  ASSUME NEW a, NEW b, AllFed(a), AllFed(b)
  PROVE  AllFed(a \o b)
<1>1. IsList(a \o b)
  BY Joined DEF AllFed
<1>2. ASSUME NEW i \in DOMAIN (a \o b) PROVE Fed((a \o b)[i])
  <2>1. \/ \E j \in DOMAIN a : (a \o b)[i] = a[j]
        \/ \E j \in DOMAIN b : (a \o b)[i] = b[j]
    BY <1>2, Joined DEF AllFed
  <2>2. QED BY <2>1 DEF AllFed
<1>3. QED BY <1>1, <1>2 DEF AllFed

LEMMA TabFed ==
  ASSUME NEW title, NEW panels, AllFed(panels)
  PROVE  FedTab(Tab(title, panels))
<1>1. Tab(title, panels).panels = panels
  BY DEF Tab
<1>2. QED BY <1>1 DEF FedTab

\* Every panel of the Operations dashboard has a source.
LEMMA OperationsFed == Nourished(OperationsTabs)
<1>1. AllFed(OperationsOverview)
  BY FedPanel, FedTile, EverySource DEF AllFed, IsList, OperationsOverview
<1>2. AllFed(OperationsWan)
  BY FedPanel, FedTile, EverySource DEF AllFed, IsList, OperationsWan
<1>3. AllFed(OperationsWifi)
  BY FedPanel, EverySource DEF AllFed, IsList, OperationsWifi
<1>4. AllFed(OperationsLan)
  BY FedPanel, FedTile, EverySource DEF AllFed, IsList, OperationsLan
<1>5. AllFed(OperationsClients)
  BY FedPanel, FedTile, EverySource DEF AllFed, IsList, OperationsClients
<1>6. AllFed(OperationsDns)
  BY FedPanel, FedTile, EverySource DEF AllFed, IsList, OperationsDns
<1>7. AllFed(OperationsHealth)
  BY FedPanel, FedTile, EverySource DEF AllFed, IsList, OperationsHealth
<1>8. AllFed(OperationsLogs)
  BY FedPanel, FedTile, EverySource DEF AllFed, IsList, OperationsLogs
<1>9. AllFed(OperationsOptional)
  BY FedPanel, FedTile, EverySource DEF AllFed, IsList, OperationsOptional
<1>10. ASSUME NEW a, NEW b, NEW c, NEW d, NEW e, NEW f, NEW g, NEW h, NEW i
      PROVE  Nourished(<< Tab(a, OperationsOverview), Tab(b, OperationsWan),
                          Tab(c, OperationsWifi), Tab(d, OperationsLan),
                          Tab(e, OperationsClients), Tab(f, OperationsDns),
                          Tab(g, OperationsHealth), Tab(h, OperationsLogs),
                          Tab(i, OperationsOptional) >>)
  BY <1>1, <1>2, <1>3, <1>4, <1>5, <1>6, <1>7, <1>8, <1>9, TabFed DEF Nourished
<1>11. QED BY <1>10, Zenon DEF OperationsTabs

\* Every panel of the Mission Control dashboard has a source.
LEMMA MissionFed == Nourished(MissionTabs)
<1>1. AllFed(MissionOverviewTiles)
  BY FedPanel, FedJoiningTile, FedTile, EverySource DEF AllFed, IsList, MissionOverviewTiles
<1>2. AllFed(MissionOverviewCharts)
  BY FedPanel, EverySource DEF AllFed, IsList, MissionOverviewCharts
<1>3. AllFed(MissionWanProbes)
  BY FedPanel, EverySource DEF AllFed, IsList, MissionWanProbes
<1>4. AllFed(MissionWanPaths)
  BY FedPanel, EverySource DEF AllFed, IsList, MissionWanPaths
<1>5. AllFed(MissionWifiNow)
  BY FedPanel, FedJoiningPanel, FedTile, EverySource DEF AllFed, IsList, MissionWifiNow
<1>6. AllFed(MissionWifiCharts)
  BY FedPanel, EverySource DEF AllFed, IsList, MissionWifiCharts
<1>7. AllFed(MissionWifiTables)
  BY FedPanel, EverySource DEF AllFed, IsList, MissionWifiTables
<1>8. AllFed(MissionLanRates)
  BY FedPanel, FedTile, EverySource DEF AllFed, IsList, MissionLanRates
<1>9. AllFed(MissionLanTotals)
  BY FedPanel, EverySource DEF AllFed, IsList, MissionLanTotals
<1>10. AllFed(MissionLanPorts)
  BY FedPanel, EverySource DEF AllFed, IsList, MissionLanPorts
<1>11. AllFed(MissionDnsTiles)
  BY FedPanel, FedTile, EverySource DEF AllFed, IsList, MissionDnsTiles
<1>12. AllFed(MissionDnsCharts)
  BY FedPanel, EverySource DEF AllFed, IsList, MissionDnsCharts
<1>13. AllFed(MissionHealthTiles)
  BY FedPanel, FedTile, EverySource DEF AllFed, IsList, MissionHealthTiles
<1>14. AllFed(MissionHealthLoad)
  BY FedPanel, EverySource DEF AllFed, IsList, MissionHealthLoad
<1>15. AllFed(MissionHealthPaths)
  BY FedPanel, EverySource DEF AllFed, IsList, MissionHealthPaths
<1>16. AllFed(MissionTopologyClients)
  BY FedPanel, FedTile, EverySource DEF AllFed, IsList, MissionTopologyClients
<1>17. AllFed(MissionTopologyGraph)
  BY FedPanel, EverySource DEF AllFed, IsList, MissionTopologyGraph
<1>18. AllFed(MissionLogs)
  BY FedPanel, FedTile, EverySource DEF AllFed, IsList, MissionLogs
<1>19. AllFed(MissionTargets)
  BY FedPanel, FedTile, EverySource DEF AllFed, IsList, MissionTargets
<1>20. AllFed(MissionCollectors)
  BY FedPanel, EverySource DEF AllFed, IsList, MissionCollectors
<1>21. AllFed(MissionOverviewTiles \o MissionOverviewCharts)
  BY <1>1, <1>2, FedTogether
<1>22. AllFed(MissionWanProbes \o MissionWanPaths)
  BY <1>3, <1>4, FedTogether
<1>23. AllFed(MissionWifiNow \o MissionWifiCharts)
  BY <1>5, <1>6, FedTogether
<1>24. AllFed(MissionWifiNow \o MissionWifiCharts \o MissionWifiTables)
  BY <1>23, <1>7, FedTogether
<1>25. AllFed(MissionLanRates \o MissionLanTotals)
  BY <1>8, <1>9, FedTogether
<1>26. AllFed(MissionLanRates \o MissionLanTotals \o MissionLanPorts)
  BY <1>25, <1>10, FedTogether
<1>27. AllFed(MissionDnsTiles \o MissionDnsCharts)
  BY <1>11, <1>12, FedTogether
<1>28. AllFed(MissionHealthTiles \o MissionHealthLoad)
  BY <1>13, <1>14, FedTogether
<1>29. AllFed(MissionHealthTiles \o MissionHealthLoad \o MissionHealthPaths)
  BY <1>28, <1>15, FedTogether
<1>30. AllFed(MissionTopologyClients \o MissionTopologyGraph)
  BY <1>16, <1>17, FedTogether
<1>31. AllFed(MissionTargets \o MissionCollectors)
  BY <1>19, <1>20, FedTogether
<1>32. ASSUME NEW a, NEW b, NEW c, NEW d, NEW e, NEW f, NEW g, NEW h, NEW i
      PROVE  Nourished(<< Tab(a, MissionOverviewTiles \o MissionOverviewCharts),
                          Tab(b, MissionWanProbes \o MissionWanPaths),
                          Tab(c, MissionWifiNow \o MissionWifiCharts \o MissionWifiTables),
                          Tab(d, MissionLanRates \o MissionLanTotals \o MissionLanPorts),
                          Tab(e, MissionDnsTiles \o MissionDnsCharts),
                          Tab(f, MissionHealthTiles \o MissionHealthLoad \o MissionHealthPaths),
                          Tab(g, MissionTopologyClients \o MissionTopologyGraph),
                          Tab(h, MissionLogs), Tab(i, MissionTargets \o MissionCollectors) >>)
  BY <1>21, <1>22, <1>24, <1>26, <1>27, <1>29, <1>30, <1>18, <1>31, TabFed DEF Nourished
<1>33. QED BY <1>32, Zenon DEF MissionTabs

\* Every panel of the NetFlow dashboard has a source.
LEMMA NetflowFed == Nourished(NetflowTabs)
<1>1. AllFed(NetflowTotals)
  BY FedPanel, EverySource DEF AllFed, IsList, NetflowTotals
<1>2. AllFed(NetflowCharts)
  BY FedPanel, EverySource DEF AllFed, IsList, NetflowCharts
<1>3. AllFed(NetflowPorts)
  BY FedPanel, EverySource DEF AllFed, IsList, NetflowPorts
<1>4. AllFed(NetflowServices)
  BY FedPanel, EverySource DEF AllFed, IsList, NetflowServices
<1>5. AllFed(NetflowExternal)
  BY FedPanel, EverySource DEF AllFed, IsList, NetflowExternal
<1>6. AllFed(NetflowConversations)
  BY FedPanel, EverySource DEF AllFed, IsList, NetflowConversations
<1>7. AllFed(NetflowSignals)
  BY FedPanel, EverySource DEF AllFed, IsList, NetflowSignals
<1>8. AllFed(NetflowSuspects)
  BY FedPanel, EverySource DEF AllFed, IsList, NetflowSuspects
<1>9. AllFed(NetflowHealthTiles)
  BY FedPanel, FedTile, EverySource DEF AllFed, IsList, NetflowHealthTiles
<1>10. AllFed(NetflowEvidence)
  BY FedPanel, FedTile, EverySource DEF AllFed, IsList, NetflowEvidence
<1>11. AllFed(NetflowInternals)
  BY FedPanel, EverySource DEF AllFed, IsList, NetflowInternals
<1>12. AllFed(NetflowTotals \o NetflowCharts)
  BY <1>1, <1>2, FedTogether
<1>13. AllFed(NetflowPorts \o NetflowServices)
  BY <1>3, <1>4, FedTogether
<1>14. AllFed(NetflowExternal \o NetflowConversations)
  BY <1>5, <1>6, FedTogether
<1>15. AllFed(NetflowSignals \o NetflowSuspects)
  BY <1>7, <1>8, FedTogether
<1>16. AllFed(NetflowHealthTiles \o NetflowEvidence)
  BY <1>9, <1>10, FedTogether
<1>17. ASSUME NEW a, NEW b, NEW c, NEW d, NEW e, NEW f
      PROVE  Nourished(<< Tab(a, NetflowTotals \o NetflowCharts),
                          Tab(b, NetflowPorts \o NetflowServices),
                          Tab(c, NetflowExternal \o NetflowConversations),
                          Tab(d, NetflowSignals \o NetflowSuspects),
                          Tab(e, NetflowHealthTiles \o NetflowEvidence),
                          Tab(f, NetflowInternals) >>)
  BY <1>12, <1>13, <1>14, <1>15, <1>16, <1>11, TabFed DEF Nourished
<1>18. QED BY <1>17, Zenon DEF NetflowTabs

\* Every panel of the Topology dashboard has a source.
LEMMA TopologyFed == Nourished(TopologyTabs)
<1>1. AllFed(TopologyOverview)
  BY FedPanel, FedJoiningTile, FedTile, EverySource DEF AllFed, IsList, TopologyOverview
<1>2. AllFed(TopologyGraph)
  BY FedPanel, EverySource DEF AllFed, IsList, TopologyGraph
<1>3. AllFed(TopologyQuality)
  BY FedPanel, FedTile, EverySource DEF AllFed, IsList, TopologyQuality
<1>4. ASSUME NEW a, NEW b, NEW c
      PROVE  Nourished(<< Tab(a, TopologyOverview), Tab(b, TopologyGraph),
                          Tab(c, TopologyQuality) >>)
  BY <1>1, <1>2, <1>3, TabFed DEF Nourished
<1>5. QED BY <1>4, Zenon DEF TopologyTabs

\* Every panel of the Clients dashboard has a source.
LEMMA ClientsFed == Nourished(ClientsTabs)
<1>1. AllFed(ClientsOverview)
  BY FedPanel, FedJoiningTile, FedTile, EverySource DEF AllFed, IsList, ClientsOverview
<1>2. AllFed(ClientsTable)
  BY FedPanel, FedJoiningPanel, FedTile, EverySource DEF AllFed, IsList, ClientsTable
<1>3. AllFed(ClientsTraffic)
  BY FedPanel, FedTile, EverySource DEF AllFed, IsList, ClientsTraffic
<1>4. AllFed(ClientsQuality)
  BY FedPanel, FedTile, EverySource DEF AllFed, IsList, ClientsQuality
<1>5. AllFed(ClientsRoaming)
  BY FedPanel, FedTile, EverySource DEF AllFed, IsList, ClientsRoaming
<1>6. ASSUME NEW a, NEW b, NEW c, NEW d, NEW e
      PROVE  Nourished(<< Tab(a, ClientsOverview), Tab(b, ClientsTable), Tab(c, ClientsTraffic),
                          Tab(d, ClientsQuality), Tab(e, ClientsRoaming) >>)
  BY <1>1, <1>2, <1>3, <1>4, <1>5, TabFed DEF Nourished
<1>7. QED BY <1>6, Zenon DEF ClientsTabs

\* Every panel of the Advanced Monitoring dashboard has a source.
LEMMA AdvancedFed == Nourished(AdvancedTabs)
<1>1. AllFed(AdvancedOverview)
  BY FedPanel, FedJoiningTile, FedTile, EverySource DEF AllFed, IsList, AdvancedOverview
<1>2. AllFed(AdvancedTraffic)
  BY FedPanel, FedTile, EverySource DEF AllFed, IsList, AdvancedTraffic
<1>3. AllFed(AdvancedWifi)
  BY FedPanel, FedJoiningTile, FedTile, EverySource DEF AllFed, IsList, AdvancedWifi
<1>4. AllFed(AdvancedDpi)
  BY FedPanel, FedJoiningTile, FedTile, EverySource DEF AllFed, IsList, AdvancedDpi
<1>5. ASSUME NEW a, NEW b, NEW c, NEW d
      PROVE  Nourished(<< Tab(a, AdvancedOverview), Tab(b, AdvancedTraffic),
                          Tab(c, AdvancedWifi), Tab(d, AdvancedDpi) >>)
  BY <1>1, <1>2, <1>3, <1>4, TabFed DEF Nourished
<1>6. QED BY <1>5, Zenon DEF AdvancedTabs

\* Every panel of the classic overview dashboard has a source.
LEMMA ClassicOverviewFed == Nourished(ClassicOverviewTabs)
<1>1. AllFed(ClassicOverviewTiles)
  BY FedPanel, EverySource DEF AllFed, IsList, ClassicOverviewTiles
<1>2. AllFed(ClassicOverviewCharts)
  BY FedPanel, EverySource DEF AllFed, IsList, ClassicOverviewCharts
<1>3. AllFed(ClassicOverviewTiles \o ClassicOverviewCharts)
  BY <1>1, <1>2, FedTogether
<1>4. ASSUME NEW a
      PROVE  Nourished(<< Tab(a, ClassicOverviewTiles \o ClassicOverviewCharts) >>)
  BY <1>3, TabFed DEF Nourished
<1>5. QED BY <1>4, Zenon DEF ClassicOverviewTabs

\* Every panel of the classic network dashboard has a source.
LEMMA ClassicNetworkFed == Nourished(ClassicNetworkTabs)
<1>1. AllFed(ClassicNetworkLinks)
  BY FedPanel, EverySource DEF AllFed, IsList, ClassicNetworkLinks
<1>2. AllFed(ClassicNetworkServices)
  BY FedPanel, EverySource DEF AllFed, IsList, ClassicNetworkServices
<1>3. AllFed(ClassicNetworkPaths)
  BY FedPanel, EverySource DEF AllFed, IsList, ClassicNetworkPaths
<1>4. AllFed(ClassicNetworkQueues)
  BY FedPanel, EverySource DEF AllFed, IsList, ClassicNetworkQueues
<1>5. AllFed(ClassicNetworkLinks \o ClassicNetworkServices)
  BY <1>1, <1>2, FedTogether
<1>6. AllFed(ClassicNetworkLinks \o ClassicNetworkServices \o ClassicNetworkPaths)
  BY <1>5, <1>3, FedTogether
<1>7. AllFed(ClassicNetworkLinks \o ClassicNetworkServices \o ClassicNetworkPaths
                \o ClassicNetworkQueues)
  BY <1>6, <1>4, FedTogether
<1>8. ASSUME NEW a
      PROVE  Nourished(<< Tab(a, ClassicNetworkLinks \o ClassicNetworkServices
                                 \o ClassicNetworkPaths \o ClassicNetworkQueues) >>)
  BY <1>7, TabFed DEF Nourished
<1>9. QED BY <1>8, Zenon DEF ClassicNetworkTabs

\* Every panel of the classic devices dashboard has a source.
LEMMA ClassicDevicesFed == Nourished(ClassicDevicesTabs)
<1>1. AllFed(ClassicDevicesNow)
  BY FedPanel, EverySource DEF AllFed, IsList, ClassicDevicesNow
<1>2. AllFed(ClassicDevicesTables)
  BY FedPanel, EverySource DEF AllFed, IsList, ClassicDevicesTables
<1>3. AllFed(ClassicDevicesNow \o ClassicDevicesTables)
  BY <1>1, <1>2, FedTogether
<1>4. ASSUME NEW a
      PROVE  Nourished(<< Tab(a, ClassicDevicesNow \o ClassicDevicesTables) >>)
  BY <1>3, TabFed DEF Nourished
<1>5. QED BY <1>4, Zenon DEF ClassicDevicesTabs

\* Every panel of the classic logs dashboard has a source.
LEMMA ClassicLogsFed == Nourished(ClassicLogsTabs)
<1>1. AllFed(ClassicLogsPanels)
  BY FedPanel, EverySource DEF AllFed, IsList, ClassicLogsPanels
<1>2. ASSUME NEW a
      PROVE  Nourished(<< Tab(a, ClassicLogsPanels) >>)
  BY <1>1, TabFed DEF Nourished
<1>3. QED BY <1>2, Zenon DEF ClassicLogsTabs

LEMMA BoardsFed == \A d \in DOMAIN Boards : Nourished(Boards[d])
BY OperationsFed, MissionFed, NetflowFed, TopologyFed, ClientsFed, AdvancedFed,
   ClassicOverviewFed, ClassicNetworkFed, ClassicDevicesFed, ClassicLogsFed DEF Boards

\* A slot of a layout is a panel of one of its tabs.
LEMMA SlotShape ==
  ASSUME NEW layout, NEW s \in Slots(layout)
  PROVE  \E t \in DOMAIN layout : \E i \in DOMAIN layout[t].panels :
            At(layout, s) = layout[t].panels[i]
<1>1. PICK t \in DOMAIN layout : s \in {t} \X DOMAIN layout[t].panels
  BY DEF Slots
<1>2. s[1] = t /\ s[2] \in DOMAIN layout[t].panels
  BY <1>1
<1>3. At(layout, s) = layout[t].panels[s[2]]
  BY <1>2 DEF At
<1>4. QED BY <1>2, <1>3

(* Once every profile is installed, every panel of the ten dashboards finds
   what its queries join and one at least of the other sources it reads. *)
THEOREM EveryPanelHasASource == Spec => []NothingBlankOnFull
<1>1. ASSUME NEW d \in DOMAIN Boards, NEW p \in Panels(d)
      PROVE  ~Starved(p, AllProfiles)
  <2>1. PICK s \in Slots(Boards[d]) : p = At(Boards[d], s)
    BY <1>1 DEF Panels
  <2>2. PICK t \in DOMAIN Boards[d] : \E i \in DOMAIN Boards[d][t].panels :
            p = Boards[d][t].panels[i]
    BY <2>1, SlotShape
  <2>3. AllFed(Boards[d][t].panels)
    BY <2>2, BoardsFed DEF Nourished, FedTab
  <2>4. QED BY <2>2, <2>3 DEF AllFed, Fed
<1>2. BlankOnFull = {}
  BY <1>1 DEF BlankOnFull
<1>3. NothingBlankOnFull
  BY <1>2 DEF NothingBlankOnFull
<1>4. QED BY <1>3, PTL DEF Spec

-----------------------------------------------------------------------------
(* No tile for an optional profile is green without data *)

Muted(p) == p.rest # "green"
AllMuted(panels) == IsList(panels) /\ \A i \in DOMAIN panels : Muted(panels[i])
MutedTab(tab) == AllMuted(tab.panels)
Quiet(layout) == \A t \in DOMAIN layout : MutedTab(layout[t])

\* The colours that the default values of these tiles have.
LEMMA NotGreen ==
  /\ Colour(Neutral, Unmapped, 0) # "green"
  /\ Colour(Unavailable, Unmapped, 0) # "green"
  /\ Colour(Unavailable, AvailabilityMappings, 0) # "green"
  /\ Colour(Unavailable, FlowDataMappings, 0) # "green"
  /\ Colour(OkBad, StatusMappings, 0) # "green"
  /\ Colour(Freshness, Unmapped, 999999) # "green"
<1>1. Colour(Neutral, Unmapped, 0) # "green"
  BY DEF Colour, Neutral, Unmapped, Base
<1>2. Colour(Unavailable, Unmapped, 0) # "green"
  BY DEF Colour, Unavailable, Unmapped
<1>3. Colour(Unavailable, AvailabilityMappings, 0) # "green"
  BY DEF Colour, AvailabilityMappings
<1>4. Colour(Unavailable, FlowDataMappings, 0) # "green"
  BY DEF Colour, FlowDataMappings
<1>5. Colour(OkBad, StatusMappings, 0) # "green"
  BY DEF Colour, StatusMappings
<1>6. Colour(Freshness, Unmapped, 999999) # "green"
  BY DEF Colour, Freshness, Unmapped
<1>7. QED BY <1>1, <1>2, <1>3, <1>4, <1>5, <1>6

LEMMA PanelIsMuted ==
  ASSUME NEW id, NEW x, NEW y, NEW w, NEW h, NEW reads
  PROVE  Muted(Panel(id, x, y, w, h, reads))
BY DEF Muted, Panel

LEMMA TileIsMuted ==
  ASSUME NEW id, NEW x, NEW y, NEW w, NEW h, NEW reads, NEW rest, rest # "green"
  PROVE  Muted(Tile(id, x, y, w, h, reads, rest))
BY DEF Muted, Tile, Panel

LEMMA JoiningIsMuted ==
  ASSUME NEW id, NEW x, NEW y, NEW w, NEW h, NEW reads, NEW rest, NEW sources, rest # "green"
  PROVE  Muted(Joining(Tile(id, x, y, w, h, reads, rest), sources))
<1>1. Joining(Tile(id, x, y, w, h, reads, rest), sources).rest = rest
  BY JoiningTileShape
<1>2. QED BY <1>1 DEF Muted

LEMMA MutedTogether ==
  ASSUME NEW a, NEW b, AllMuted(a), AllMuted(b)
  PROVE  AllMuted(a \o b)
<1>1. IsList(a \o b)
  BY Joined DEF AllMuted
<1>2. ASSUME NEW i \in DOMAIN (a \o b) PROVE Muted((a \o b)[i])
  <2>1. \/ \E j \in DOMAIN a : (a \o b)[i] = a[j]
        \/ \E j \in DOMAIN b : (a \o b)[i] = b[j]
    BY <1>2, Joined DEF AllMuted
  <2>2. QED BY <2>1 DEF AllMuted
<1>3. QED BY <1>1, <1>2 DEF AllMuted

LEMMA TabMuted ==
  ASSUME NEW title, NEW panels, AllMuted(panels)
  PROVE  MutedTab(Tab(title, panels))
<1>1. Tab(title, panels).panels = panels
  BY DEF Tab
<1>2. QED BY <1>1 DEF MutedTab

\* No tile of the NetFlow dashboard is green at rest.
LEMMA NetflowMuted == Quiet(NetflowTabs)
<1>1. AllMuted(NetflowTotals)
  BY PanelIsMuted DEF AllMuted, IsList, NetflowTotals
<1>2. AllMuted(NetflowCharts)
  BY PanelIsMuted DEF AllMuted, IsList, NetflowCharts
<1>3. AllMuted(NetflowPorts)
  BY PanelIsMuted DEF AllMuted, IsList, NetflowPorts
<1>4. AllMuted(NetflowServices)
  BY PanelIsMuted DEF AllMuted, IsList, NetflowServices
<1>5. AllMuted(NetflowExternal)
  BY PanelIsMuted DEF AllMuted, IsList, NetflowExternal
<1>6. AllMuted(NetflowConversations)
  BY PanelIsMuted DEF AllMuted, IsList, NetflowConversations
<1>7. AllMuted(NetflowSignals)
  BY PanelIsMuted DEF AllMuted, IsList, NetflowSignals
<1>8. AllMuted(NetflowSuspects)
  BY PanelIsMuted DEF AllMuted, IsList, NetflowSuspects
<1>9. AllMuted(NetflowHealthTiles)
  BY PanelIsMuted, TileIsMuted, NotGreen DEF AllMuted, IsList, NetflowHealthTiles
<1>10. AllMuted(NetflowEvidence)
  BY PanelIsMuted, TileIsMuted, NotGreen DEF AllMuted, IsList, NetflowEvidence
<1>11. AllMuted(NetflowInternals)
  BY PanelIsMuted DEF AllMuted, IsList, NetflowInternals
<1>12. AllMuted(NetflowTotals \o NetflowCharts)
  BY <1>1, <1>2, MutedTogether
<1>13. AllMuted(NetflowPorts \o NetflowServices)
  BY <1>3, <1>4, MutedTogether
<1>14. AllMuted(NetflowExternal \o NetflowConversations)
  BY <1>5, <1>6, MutedTogether
<1>15. AllMuted(NetflowSignals \o NetflowSuspects)
  BY <1>7, <1>8, MutedTogether
<1>16. AllMuted(NetflowHealthTiles \o NetflowEvidence)
  BY <1>9, <1>10, MutedTogether
<1>17. ASSUME NEW a, NEW b, NEW c, NEW d, NEW e, NEW f
      PROVE  Quiet(<< Tab(a, NetflowTotals \o NetflowCharts),
                      Tab(b, NetflowPorts \o NetflowServices),
                      Tab(c, NetflowExternal \o NetflowConversations),
                      Tab(d, NetflowSignals \o NetflowSuspects),
                      Tab(e, NetflowHealthTiles \o NetflowEvidence),
                          Tab(f, NetflowInternals) >>)
  BY <1>12, <1>13, <1>14, <1>15, <1>16, <1>11, TabMuted DEF Quiet
<1>18. QED BY <1>17, Zenon DEF NetflowTabs

\* No tile of the Advanced Monitoring dashboard is green at rest.
LEMMA AdvancedMuted == Quiet(AdvancedTabs)
<1>1. AllMuted(AdvancedOverview)
  BY PanelIsMuted, JoiningIsMuted, TileIsMuted, NotGreen DEF AllMuted, IsList, AdvancedOverview
<1>2. AllMuted(AdvancedTraffic)
  BY PanelIsMuted, TileIsMuted, NotGreen DEF AllMuted, IsList, AdvancedTraffic
<1>3. AllMuted(AdvancedWifi)
  BY PanelIsMuted, JoiningIsMuted, TileIsMuted, NotGreen DEF AllMuted, IsList, AdvancedWifi
<1>4. AllMuted(AdvancedDpi)
  BY PanelIsMuted, JoiningIsMuted, TileIsMuted, NotGreen DEF AllMuted, IsList, AdvancedDpi
<1>5. ASSUME NEW a, NEW b, NEW c, NEW d
      PROVE  Quiet(<< Tab(a, AdvancedOverview), Tab(b, AdvancedTraffic),
                      Tab(c, AdvancedWifi), Tab(d, AdvancedDpi) >>)
  BY <1>1, <1>2, <1>3, <1>4, TabMuted DEF Quiet
<1>6. QED BY <1>5, Zenon DEF AdvancedTabs

-----------------------------------------------------------------------------
(* A tile says of every missing profile that it is not collected *)

\* What an optional profile adds, nothing else does.
LEMMA OnlyFromItsProfile ==
  ASSUME NEW profiles \in SUBSET AllProfiles
  PROVE  /\ "DeviceTraffic" \in Sources(profiles) => "traffic" \in profiles
         /\ "WifiDethrash" \in Sources(profiles) => "wifi_mesh" \in profiles
         /\ "DpiNetifyd" \in Sources(profiles) => "dpi" \in profiles
         /\ "NetflowHealth" \in Sources(profiles) => "netflow" \in profiles
         /\ "ClientInventory" \in Sources(profiles) => "clients" \in profiles
         /\ "Topology" \in Sources(profiles) => "clients" \in profiles
<1>1. Adds("core") = Packages \cup CoreCollectors \cup CoreHelpers
  BY DEF Adds
<1>2. /\ Adds("traffic") = {"DeviceTraffic"}
      /\ Adds("wifi_mesh") = {"WifiDethrash"}
      /\ Adds("dpi") = {"DpiNetifyd"}
      /\ Adds("clients") = {"ClientInventory", "ClientTraffic", "ClientConntrack", "Topology"}
      /\ Adds("netflow") = {"NetflowHealth", "Akvorado", "Flows"}
  BY DEF Adds
<1>3. \A s \in {"DeviceTraffic", "WifiDethrash", "DpiNetifyd", "NetflowHealth", "ClientInventory",
                "Topology"} : s \notin Host \cup Adds("core")
  BY <1>1 DEF Host, Packages, CoreCollectors, CoreHelpers
<1>4. \A s \in Sources(profiles) : s \in Host \/ \E profile \in profiles : s \in Adds(profile)
  BY DEF Sources
<1>5. \A profile \in profiles :
        profile \in {"core", "traffic", "wifi_mesh", "dpi", "clients", "netflow"}
  BY DEF AllProfiles
<1>6. QED BY <1>2, <1>3, <1>4, <1>5

\* Each panel of each tab of a dashboard is one of its panels.
LEMMA PanelOf ==
  ASSUME NEW d, NEW t \in DOMAIN Boards[d], NEW i \in DOMAIN Boards[d][t].panels
  PROVE  Boards[d][t].panels[i] \in Panels(d)
<1>1. <<t, i>> \in Slots(Boards[d])
  BY DEF Slots
<1>2. At(Boards[d], <<t, i>>) = Boards[d][t].panels[i]
  BY DEF At
<1>3. QED BY <1>1, <1>2 DEF Panels

LEMMA SaysNotCollected == Colour(Unavailable, AvailabilityMappings, 0) = "not collected"
BY DEF Colour, AvailabilityMappings

\* A tile that joins a source of the profile announces its absence.
LEMMA JoiningAnnounces ==
  ASSUME NEW d, NEW profile, NEW profiles, NEW s \in Adds(profile), s \notin Sources(profiles),
         NEW id, NEW x, NEW y, NEW w, NEW h, NEW sources, s \in sources,
         Joining(Tile(id, x, y, w, h, {}, Colour(Unavailable, AvailabilityMappings, 0)), sources)
            \in Panels(d)
  PROVE  Announced(d, profile, profiles)
<1> DEFINE p == Joining(Tile(id, x, y, w, h, {}, Colour(Unavailable, AvailabilityMappings, 0)),
                        sources)
<1>1. p.needs = sources /\ p.rest = Colour(Unavailable, AvailabilityMappings, 0)
  BY JoiningTileShape
<1> HIDE DEF p
<1>2. Starved(p, profiles)
  BY <1>1 DEF Starved
<1>3. p.rest = "not collected" /\ s \in (p.reads \cup p.needs) \cap Adds(profile)
  BY <1>1, SaysNotCollected
<1>4. p \in Panels(d)
  BY DEF p
<1>5. QED BY <1>2, <1>3, <1>4 DEF Announced

\* The tabs with the tiles that announce.
LEMMA FirstTabs ==
  /\ 1 \in DOMAIN Boards["advanced"] /\ Boards["advanced"][1].panels = AdvancedOverview
  /\ 1 \in DOMAIN Boards["clients"] /\ Boards["clients"][1].panels = ClientsOverview
  /\ 1 \in DOMAIN Boards["topology"] /\ Boards["topology"][1].panels = TopologyOverview
  /\ 5 \in DOMAIN Boards["netflow"]
  /\ Boards["netflow"][5].panels = NetflowHealthTiles \o NetflowEvidence
<1>1. ASSUME NEW title, NEW panels
      PROVE  Tab(title, panels).panels = panels
  BY DEF Tab
<1>2. /\ Boards["advanced"] = AdvancedTabs /\ Boards["clients"] = ClientsTabs
      /\ Boards["topology"] = TopologyTabs /\ Boards["netflow"] = NetflowTabs
  BY DEF Boards
<1>3. 1 \in DOMAIN AdvancedTabs /\ AdvancedTabs[1] = Tab("Advanced Overview", AdvancedOverview)
  BY DEF AdvancedTabs
<1>4. 1 \in DOMAIN ClientsTabs /\ ClientsTabs[1] = Tab("Overview", ClientsOverview)
  BY DEF ClientsTabs
<1>5. 1 \in DOMAIN TopologyTabs /\ TopologyTabs[1] = Tab("Overview", TopologyOverview)
  BY DEF TopologyTabs
<1>6. /\ 5 \in DOMAIN NetflowTabs
      /\ NetflowTabs[5] = Tab("Pipeline Health", NetflowHealthTiles \o NetflowEvidence)
  BY DEF NetflowTabs
<1>7. QED BY <1>1, <1>2, <1>3, <1>4, <1>5, <1>6

\* Without one of its profiles, a dashboard has a tile that says so.
LEMMA Announcing ==
  ASSUME NEW d \in DOMAIN Optional, NEW profile \in Optional[d],
         NEW profiles \in SUBSET AllProfiles, profile \notin profiles
  PROVE  Announced(d, profile, profiles)
<1>1. CASE d = "advanced"
  <2>1. Boards[d][1].panels = AdvancedOverview /\ 1 \in DOMAIN Boards[d]
    BY <1>1, FirstTabs
  <2>2. \A i \in {2, 3, 4} : AdvancedOverview[i] \in Panels(d)
    <3>1. {2, 3, 4} \subseteq DOMAIN AdvancedOverview
      BY DEF AdvancedOverview
    <3>2. QED BY <2>1, <3>1, PanelOf
  <2>3. /\ AdvancedOverview[2] = Joining(Tile(2, 0, 3, 6, 4, {},
              Colour(Unavailable, AvailabilityMappings, 0)), {"DeviceTraffic", "Node"})
        /\ AdvancedOverview[3] = Joining(Tile(3, 6, 3, 6, 4, {},
              Colour(Unavailable, AvailabilityMappings, 0)), {"Node", "WifiDethrash"})
        /\ AdvancedOverview[4] = Joining(Tile(4, 12, 3, 6, 4, {},
              Colour(Unavailable, AvailabilityMappings, 0)), {"DpiNetifyd", "Node"})
    BY DEF AdvancedOverview
  <2>4. CASE profile = "traffic"
    <3>1. "DeviceTraffic" \in Adds(profile)
      BY <2>4 DEF Adds
    <3>2. "DeviceTraffic" \notin Sources(profiles)
      BY <2>4, OnlyFromItsProfile
    <3>3. QED BY <2>2, <2>3, <3>1, <3>2, JoiningAnnounces
  <2>5. CASE profile = "wifi_mesh"
    <3>1. "WifiDethrash" \in Adds(profile)
      BY <2>5 DEF Adds
    <3>2. "WifiDethrash" \notin Sources(profiles)
      BY <2>5, OnlyFromItsProfile
    <3>3. QED BY <2>2, <2>3, <3>1, <3>2, JoiningAnnounces
  <2>6. CASE profile = "dpi"
    <3>1. "DpiNetifyd" \in Adds(profile)
      BY <2>6 DEF Adds
    <3>2. "DpiNetifyd" \notin Sources(profiles)
      BY <2>6, OnlyFromItsProfile
    <3>3. QED BY <2>2, <2>3, <3>1, <3>2, JoiningAnnounces
  <2>7. QED BY <1>1, <2>4, <2>5, <2>6 DEF Optional
<1>2. CASE d = "netflow"
  <2>1. profile = "netflow"
    BY <1>2 DEF Optional
  <2>2. Boards[d][5].panels = NetflowHealthTiles \o NetflowEvidence /\ 5 \in DOMAIN Boards[d]
    BY <1>2, FirstTabs
  <2>3. NetflowHealthTiles[2] = Tile(301, 0, 6, 6, 4, {"NetflowHealth"},
                                     Colour(Unavailable, AvailabilityMappings, 0))
    BY DEF NetflowHealthTiles
  <2>4. /\ 2 \in DOMAIN (NetflowHealthTiles \o NetflowEvidence)
        /\ (NetflowHealthTiles \o NetflowEvidence)[2] = NetflowHealthTiles[2]
    <3> DEFINE a == NetflowHealthTiles
               b == NetflowEvidence
               S == {a[i] : i \in DOMAIN a} \cup {b[i] : i \in DOMAIN b}
    <3>1. IsList(a) /\ IsList(b)
      BY DEF IsList, NetflowHealthTiles, NetflowEvidence
    <3>2. a \in Seq(S) /\ b \in Seq(S)
      BY <3>1 DEF IsList
    <3>3. 2 \in DOMAIN a
      BY DEF NetflowHealthTiles
    <3> HIDE DEF a, b, S
    <3>4. 2 \in DOMAIN (a \o b) /\ (a \o b)[2] = a[2]
      BY <3>2, <3>3
    <3>5. QED BY <3>4 DEF a, b
  <2>5. NetflowHealthTiles[2] \in Panels(d)
    BY <2>2, <2>4, PanelOf
  <2>6. "NetflowHealth" \in Adds(profile)
    BY <2>1 DEF Adds
  <2>7. "NetflowHealth" \notin Sources(profiles)
    BY <2>1, OnlyFromItsProfile
  <2> DEFINE p == Tile(301, 0, 6, 6, 4, {"NetflowHealth"},
                       Colour(Unavailable, AvailabilityMappings, 0))
  <2>8. p.reads = {"NetflowHealth"} /\ p.rest = "not collected"
    BY SaysNotCollected DEF Tile, Panel
  <2>9. p \in Panels(d)
    BY <2>3, <2>5
  <2> HIDE DEF p
  <2>10. Starved(p, profiles)
    BY <2>7, <2>8 DEF Starved
  <2>11. QED BY <2>6, <2>8, <2>9, <2>10 DEF Announced
<1>3. CASE d \in {"clients", "topology"}
  <2>1. profile = "clients"
    BY <1>3 DEF Optional
  <2>2. /\ "ClientInventory" \in Adds(profile) /\ "Topology" \in Adds(profile)
    BY <2>1 DEF Adds
  <2>3. "ClientInventory" \notin Sources(profiles) /\ "Topology" \notin Sources(profiles)
    BY <2>1, OnlyFromItsProfile
  <2>4. CASE d = "clients"
    <3>1. Boards[d][1].panels = ClientsOverview /\ 1 \in DOMAIN Boards[d]
      BY <2>4, FirstTabs
    <3>2. 2 \in DOMAIN ClientsOverview
      BY DEF ClientsOverview
    <3>3. ClientsOverview[2] = Joining(Tile(2, 0, 3, 5, 4, {},
              Colour(Unavailable, AvailabilityMappings, 0)), {"ClientInventory", "Node"})
      BY DEF ClientsOverview
    <3>4. ClientsOverview[2] \in Panels(d)
      BY <3>1, <3>2, PanelOf
    <3>5. QED BY <2>2, <2>3, <3>3, <3>4, JoiningAnnounces
  <2>5. CASE d = "topology"
    <3>1. Boards[d][1].panels = TopologyOverview /\ 1 \in DOMAIN Boards[d]
      BY <2>5, FirstTabs
    <3>2. 2 \in DOMAIN TopologyOverview
      BY DEF TopologyOverview
    <3>3. TopologyOverview[2] = Joining(Tile(2, 0, 3, 6, 4, {},
              Colour(Unavailable, AvailabilityMappings, 0)), {"Node", "Topology"})
      BY DEF TopologyOverview
    <3>4. TopologyOverview[2] \in Panels(d)
      BY <3>1, <3>2, PanelOf
    <3>5. QED BY <2>2, <2>3, <3>3, <3>4, JoiningAnnounces
  <2>6. QED BY <1>3, <2>4, <2>5
<1>4. QED BY <1>1, <1>2, <1>3 DEF Optional

(* Whatever profiles are missing, the dashboards of the optional profiles say
   "Not collected" of each of theirs, and Advanced Monitoring and NetFlow show
   nothing that is not collected as healthy. *)
THEOREM AbsenceIsNotHealth == Spec => []MissingIsNotHealthy
<1>1. Quiet(Boards["advanced"]) /\ Quiet(Boards["netflow"])
  BY AdvancedMuted, NetflowMuted DEF Boards
<1>2. ASSUME NEW d \in {"advanced", "netflow"}, NEW p \in Panels(d)
      PROVE  p.rest # "green"
  <2>1. PICK s \in Slots(Boards[d]) : p = At(Boards[d], s)
    BY <1>2 DEF Panels
  <2>2. PICK t \in DOMAIN Boards[d] : \E i \in DOMAIN Boards[d][t].panels :
            p = Boards[d][t].panels[i]
    BY <2>1, SlotShape
  <2>3. AllMuted(Boards[d][t].panels)
    BY <1>1, <2>2 DEF Quiet, MutedTab
  <2>4. QED BY <2>2, <2>3 DEF AllMuted, Muted
<1>3. \A d \in {"advanced", "netflow"} : d \in DOMAIN Optional => Misleading[d] = {}
  BY <1>2 DEF Misleading, GreenOverNothing
<1>4. \A d \in DOMAIN Optional : Silent[d] = {}
  BY Announcing DEF Silent
<1>5. MissingIsNotHealthy
  BY <1>3, <1>4 DEF MissingIsNotHealthy
<1>6. QED BY <1>5, PTL DEF Spec
=============================================================================
