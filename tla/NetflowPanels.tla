---------------------------- MODULE NetflowPanels ---------------------------
(***************************************************************************)
(* The panels of the NetFlow dashboard, tab by tab, as                     *)
(* build_openwrt_netflow_dashboard.py places them.  Flows are the tables   *)
(* that Akvorado fills in ClickHouse.                                      *)
(***************************************************************************)
EXTENDS TileColours

NetflowTotals == <<
    Panel(1, 0, 0, 24, 4, {}),
    Panel(2, 0, 4, 4, 4, {"Flows"}),
    Panel(3, 4, 4, 4, 4, {"Flows"}),
    Panel(10, 8, 4, 4, 4, {"Flows"}),
    Panel(12, 12, 4, 4, 4, {"Flows"}),
    Panel(13, 16, 4, 4, 4, {"Flows"}),
    Panel(4, 20, 4, 4, 4, {"Flows"}),
    Panel(5, 0, 8, 6, 4, {"Flows"}),
    Panel(11, 6, 8, 6, 4, {"Flows"}) >>

NetflowCharts == <<
    Panel(14, 12, 8, 12, 4, {"Flows"}),
    Panel(6, 0, 12, 12, 8, {"Flows"}),
    Panel(15, 12, 12, 12, 8, {"Flows"}),
    Panel(7, 0, 20, 12, 9, {"Flows"}),
    Panel(8, 12, 20, 12, 9, {"Flows"}),
    Panel(9, 0, 29, 24, 10, {"Flows"}) >>

NetflowPorts == <<
    Panel(100, 0, 0, 24, 4, {}),
    Panel(101, 0, 4, 8, 9, {"Flows"}),
    Panel(106, 8, 4, 8, 9, {"Flows"}),
    Panel(102, 16, 4, 8, 9, {"Flows"}),
    Panel(103, 0, 13, 24, 9, {"Flows"}),
    Panel(107, 0, 22, 8, 9, {"Flows"}),
    Panel(104, 8, 22, 8, 9, {"Flows"}) >>

NetflowServices == <<
    Panel(105, 16, 22, 8, 9, {"Flows"}),
    Panel(108, 0, 31, 12, 9, {"Flows"}),
    Panel(109, 12, 31, 12, 9, {"Flows"}),
    Panel(110, 0, 40, 24, 9, {"Flows"}) >>

NetflowExternal == <<
    Panel(200, 0, 0, 24, 5, {}),
    Panel(201, 0, 5, 6, 4, {"Flows"}),
    Panel(202, 6, 5, 6, 4, {"Flows"}),
    Panel(207, 12, 5, 6, 4, {"Flows"}),
    Panel(203, 18, 5, 6, 4, {"Flows"}),
    Panel(204, 0, 9, 12, 9, {"Flows"}),
    Panel(208, 12, 9, 12, 9, {"Flows"}),
    Panel(205, 0, 18, 12, 9, {"Flows"}),
    Panel(209, 12, 18, 12, 9, {"Flows"}) >>

NetflowConversations == <<
    Panel(206, 0, 27, 12, 9, {"Flows"}),
    Panel(210, 12, 27, 12, 9, {"Flows"}),
    Panel(211, 0, 36, 24, 10, {"Flows"}),
    Panel(212, 0, 46, 24, 9, {"Flows"}),
    Panel(214, 0, 55, 24, 11, {"Flows"}),
    Panel(215, 0, 66, 24, 13, {"Flows"}) >>

NetflowSignals == <<
    Panel(400, 0, 0, 24, 7, {}),
    Panel(401, 0, 7, 6, 4, {"Flows"}),
    Panel(402, 6, 7, 6, 4, {"Flows"}),
    Panel(403, 12, 7, 6, 4, {"Flows"}),
    Panel(404, 18, 7, 6, 4, {"Flows"}) >>

NetflowSuspects == <<
    Panel(405, 0, 11, 12, 9, {"Flows"}),
    Panel(406, 12, 11, 12, 9, {"Flows"}),
    Panel(407, 0, 20, 12, 10, {"Flows"}),
    Panel(408, 12, 20, 12, 10, {"Flows"}) >>

NetflowHealthTiles == <<
    Panel(300, 0, 0, 24, 6, {}),
    Tile(301, 0, 6, 6, 4, {"NetflowHealth"}, Colour(Unavailable, AvailabilityMappings, 0)),
    Tile(302, 6, 6, 6, 4, {"ClientInventory"}, Colour(Unavailable, FlowDataMappings, 0)),
    Tile(303, 12, 6, 6, 4, {"NetflowHealth"}, Colour(Unavailable, Unmapped, 0)),
    Tile(304, 18, 6, 6, 4, {"NetflowHealth"}, Colour(Unavailable, Unmapped, 0)),
    Panel(305, 0, 10, 12, 9, {"NetflowHealth"}),
    Panel(306, 12, 10, 12, 9, {"Akvorado"}),
    Panel(307, 0, 19, 12, 9, {"NetflowHealth"}),
    Panel(308, 12, 19, 12, 9, {"NetflowHealth"}) >>

NetflowEvidence == <<
    Tile(309, 0, 28, 8, 4, {"NetflowHealth"}, Colour(Unavailable, AvailabilityMappings, 0)),
    Tile(310, 8, 28, 8, 4, {"NetflowHealth"}, Colour(Unavailable, Unmapped, 0)),
    Tile(311, 16, 28, 8, 4, {"Textfile"}, Colour(Freshness, Unmapped, 999999)),
    Panel(312, 0, 32, 24, 7, {"Akvorado", "Prometheus"}),
    Panel(313, 0, 39, 24, 8, {"ClientInventory", "NetflowHealth"}),
    Panel(314, 0, 47, 24, 9, {"Flows"}) >>

NetflowInternals == <<
    Panel(500, 0, 0, 24, 5, {}),
    Panel(501, 0, 5, 12, 8, {"Akvorado"}),
    Panel(502, 12, 5, 12, 8, {"Akvorado"}),
    Panel(503, 0, 13, 12, 8, {"Akvorado"}),
    Panel(504, 12, 13, 12, 8, {"Akvorado"}),
    Panel(505, 0, 21, 12, 8, {"Akvorado"}),
    Panel(506, 12, 21, 12, 8, {"Akvorado"}) >>

NetflowTitles == <<
    "Flow Overview", "Applications", "External", "Security Signals", "Pipeline Health",
    "Pipeline Internals" >>

NetflowTabs == <<
    Tab("Flow Overview", NetflowTotals \o NetflowCharts),
    Tab("Applications", NetflowPorts \o NetflowServices),
    Tab("External", NetflowExternal \o NetflowConversations),
    Tab("Security Signals", NetflowSignals \o NetflowSuspects),
    Tab("Pipeline Health", NetflowHealthTiles \o NetflowEvidence),
    Tab("Pipeline Internals", NetflowInternals) >>
=============================================================================
