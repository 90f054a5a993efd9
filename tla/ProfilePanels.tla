---------------------------- MODULE ProfilePanels ---------------------------
(***************************************************************************)
(* The panels of the dashboards that need an optional profile on the       *)
(* router: Topology, Clients and Advanced Monitoring.                      *)
(***************************************************************************)
EXTENDS TileColours

TopologyOverview == <<
    Panel(1, 0, 0, 24, 3, {}),
    Joining(Tile(2, 0, 3, 6, 4, {}, Colour(Unavailable, AvailabilityMappings, 0)),
            {"Node", "Topology"}),
    Tile(3, 6, 3, 6, 4, {"DeviceTraffic", "Topology"}, Colour(Neutral, Unmapped, 0)),
    Tile(4, 12, 3, 6, 4, {"DeviceTraffic", "Topology"}, Colour(Neutral, Unmapped, 0)),
    Tile(5, 18, 3, 6, 4, {"Topology"}, Colour(Neutral, Unmapped, 0)),
    Tile(6, 0, 7, 6, 4, {"Topology"}, Colour(Neutral, Unmapped, 0)),
    Tile(7, 6, 7, 6, 4, {"Topology"}, Colour(Neutral, Unmapped, 0)),
    Tile(8, 12, 7, 6, 4, {"Topology"}, Colour(OkBad, Unmapped, 0)),
    Tile(9, 18, 7, 6, 4, {"Topology"}, Colour(Neutral, Unmapped, 0)) >>

TopologyGraph == <<
    Panel(100, 0, 0, 24, 20, {"DeviceTraffic", "Topology"}),
    Panel(101, 0, 20, 24, 4, {}) >>

TopologyQuality == <<
    Panel(200, 0, 0, 24, 4, {}),
    Tile(201, 0, 4, 8, 4, {"Topology"}, Colour(OkBad, Unmapped, 0)),
    Tile(202, 8, 4, 8, 4, {"DeviceTraffic", "Topology"}, Colour(OkBad, Unmapped, 0)),
    Tile(203, 16, 4, 8, 4, {"DeviceTraffic", "Topology"}, Colour(OkBad, Unmapped, 0)),
    Panel(204, 0, 8, 24, 9, {"Topology"}),
    Panel(205, 0, 17, 24, 9, {"Topology"}),
    Panel(206, 0, 26, 24, 8, {"Topology"}) >>

TopologyTitles == <<
    "Overview", "Topology", "Data Quality" >>

TopologyTabs == <<
    Tab("Overview", TopologyOverview),
    Tab("Topology", TopologyGraph),
    Tab("Data Quality", TopologyQuality) >>

ClientsOverview == <<
    Panel(1, 0, 0, 24, 3, {}),
    Joining(Tile(2, 0, 3, 5, 4, {}, Colour(Unavailable, AvailabilityMappings, 0)),
            {"ClientInventory", "Node"}),
    Tile(3, 5, 3, 5, 4, {"ClientInventory"}, Colour(Neutral, Unmapped, 0)),
    Tile(4, 10, 3, 5, 4, {"ClientInventory"}, Colour(Neutral, Unmapped, 0)),
    Tile(5, 15, 3, 4, 4, {"ClientInventory"}, Colour(OkBad, TruncationMappings, 0)),
    Tile(6, 19, 3, 5, 4, {"ClientInventory"}, Colour(OkBad, OffloadMappings, 0)),
    Tile(11, 0, 14, 6, 4, {"ClientConntrack", "ClientInventory"}, Colour(Unavailable, ConntrackStateMappings, 0)),
    Tile(7, 0, 7, 8, 7, {"ClientInventory"}, Colour(Neutral, Unmapped, 0)),
    Tile(8, 8, 7, 8, 7, {"ClientInventory"}, Colour(Neutral, Unmapped, 0)),
    Panel(9, 16, 7, 8, 7, {"ClientInventory"}),
    Panel(10, 6, 14, 18, 4, {}) >>

ClientsTable == <<
    Panel(100, 0, 0, 24, 14,
          {"ClientConntrack", "ClientInventory", "ClientTraffic", "HostapdStations", "WifiStations"}),
    Joining(Panel(101, 0, 14, 12, 8, {"HostapdStations", "WifiStations"}),
            {"ClientInventory"}),
    Joining(Panel(102, 12, 14, 12, 8, {"HostapdStations", "WifiStations"}),
            {"ClientInventory"}),
    Panel(103, 0, 22, 12, 7, {"ClientInventory"}),
    Tile(104, 12, 22, 12, 7, {"ClientInventory"}, Colour(Neutral, Unmapped, 0)),
    Joining(Panel(105, 0, 29, 24, 8, {}),
            {"ClientConntrack", "ClientInventory"}) >>

ClientsTraffic == <<
    Panel(200, 0, 0, 24, 4, {}),
    Tile(201, 0, 4, 8, 4, {"ClientInventory", "ClientTraffic"}, Colour(OkBad, TrafficStateMappings, 0)),
    Tile(202, 8, 4, 8, 4, {"ClientTraffic"}, Colour(Unavailable, AvailabilityMappings, 0)),
    Tile(203, 16, 4, 8, 4, {"ClientInventory"}, Colour(OkBad, OffloadMappings, 0)),
    Panel(205, 0, 8, 12, 8, {"ClientInventory", "ClientTraffic"}),
    Panel(206, 12, 8, 12, 8, {"ClientInventory", "ClientTraffic"}),
    Panel(207, 0, 16, 24, 10, {"ClientInventory", "ClientTraffic"}) >>

ClientsQuality == <<
    Panel(300, 0, 0, 24, 3, {}),
    Panel(301, 0, 3, 24, 8, {"ClientInventory", "Node"}),
    Tile(302, 0, 11, 4, 4, {"ClientInventory"}, Colour(Neutral, Unmapped, 0)),
    Tile(303, 4, 11, 4, 4, {"ClientInventory"}, Colour(Neutral, Unmapped, 0)),
    Tile(304, 8, 11, 4, 4, {"ClientInventory"}, Colour(Neutral, Unmapped, 0)),
    Tile(305, 12, 11, 4, 4, {"ClientInventory"}, Colour(Neutral, Unmapped, 0)),
    Tile(306, 16, 11, 4, 4, {"ClientInventory"}, Colour(Neutral, Unmapped, 0)),
    Tile(307, 20, 11, 4, 4, {"ClientInventory", "HostapdStations", "WifiStations"}, Colour(Neutral, Unmapped, 0)),
    Panel(308, 0, 15, 12, 7, {"ClientInventory"}),
    Panel(309, 12, 15, 12, 7, {"ClientInventory"}) >>

ClientsRoaming == <<
    Panel(400, 0, 0, 24, 4, {}),
    Tile(401, 0, 4, 8, 4, {"ClientConntrack"}, Colour(Unavailable, ConntrackStateMappings, 0)),
    Tile(402, 8, 4, 8, 4, {"Syslog"}, Colour(Neutral, Unmapped, 0)),
    Panel(403, 16, 4, 8, 4, {"ClientConntrack"}),
    Panel(404, 0, 8, 24, 14, {"Syslog"}) >>

ClientsTitles == <<
    "Overview", "Clients", "Traffic", "Data Quality", "Roaming" >>

ClientsTabs == <<
    Tab("Overview", ClientsOverview),
    Tab("Clients", ClientsTable),
    Tab("Traffic", ClientsTraffic),
    Tab("Data Quality", ClientsQuality),
    Tab("Roaming", ClientsRoaming) >>

AdvancedOverview == <<
    Panel(1, 0, 0, 24, 3, {}),
    Joining(Tile(2, 0, 3, 6, 4, {}, Colour(Unavailable, AvailabilityMappings, 0)),
            {"DeviceTraffic", "Node"}),
    Joining(Tile(3, 6, 3, 6, 4, {}, Colour(Unavailable, AvailabilityMappings, 0)),
            {"Node", "WifiDethrash"}),
    Joining(Tile(4, 12, 3, 6, 4, {}, Colour(Unavailable, AvailabilityMappings, 0)),
            {"DpiNetifyd", "Node"}),
    Tile(5, 18, 3, 6, 4, {"DeviceTraffic"}, Colour(Neutral, Unmapped, 0)),
    Panel(6, 0, 7, 12, 8, {"DeviceTraffic"}),
    Panel(7, 12, 7, 12, 8, {"WifiDethrash"}),
    Panel(8, 0, 15, 12, 8, {"DeviceTraffic"}),
    Panel(9, 12, 15, 12, 8, {"DpiNetifyd"}) >>

AdvancedTraffic == <<
    Panel(100, 0, 0, 24, 4, {}),
    Panel(101, 0, 4, 24, 9, {"DeviceTraffic"}),
    Panel(102, 0, 13, 12, 9, {"DeviceTraffic"}),
    Panel(103, 12, 13, 12, 9, {"DeviceTraffic"}),
    Tile(104, 0, 22, 6, 4, {"DeviceTraffic"}, Colour(Neutral, Unmapped, 0)),
    Tile(105, 6, 22, 6, 4, {"DeviceTraffic"}, Colour(Unavailable, AvailabilityMappings, 0)),
    Tile(106, 12, 22, 6, 4, {"DeviceTraffic"}, Colour(Neutral, Unmapped, 0)),
    Tile(107, 18, 22, 6, 4, {"DeviceTraffic"}, Colour(Neutral, Unmapped, 0)) >>

AdvancedWifi == <<
    Panel(200, 0, 0, 24, 4, {}),
    Joining(Tile(201, 0, 4, 6, 4, {}, Colour(Unavailable, AvailabilityMappings, 0)),
            {"Node", "WifiDethrash"}),
    Tile(202, 6, 4, 6, 4, {"WifiDethrash"}, Colour(Neutral, Unmapped, 0)),
    Tile(203, 12, 4, 6, 4, {"WifiDethrash"}, Colour(Neutral, Unmapped, 0)),
    Tile(204, 18, 4, 6, 4, {"WifiDethrash"}, Colour(Neutral, Unmapped, 0)),
    Panel(205, 0, 8, 12, 8, {"WifiDethrash"}),
    Panel(206, 12, 8, 12, 8, {"WifiDethrash"}),
    Panel(207, 0, 16, 24, 9, {"WifiDethrash"}),
    Panel(208, 0, 25, 12, 8, {"WifiDethrash"}),
    Panel(209, 12, 25, 12, 8, {"WifiDethrash"}) >>

AdvancedDpi == <<
    Panel(300, 0, 0, 24, 4, {}),
    Joining(Tile(301, 0, 4, 6, 4, {}, Colour(Unavailable, AvailabilityMappings, 0)),
            {"DpiNetifyd", "Node"}),
    Tile(302, 6, 4, 6, 4, {"DpiNetifyd"}, Colour(Neutral, Unmapped, 0)),
    Tile(303, 12, 4, 6, 4, {"DpiNetifyd"}, Colour(Neutral, Unmapped, 0)),
    Tile(304, 18, 4, 6, 4, {"DpiNetifyd"}, Colour(Neutral, Unmapped, 0)),
    Panel(305, 0, 8, 12, 9, {"DpiNetifyd"}),
    Panel(306, 12, 8, 12, 9, {"DpiNetifyd"}),
    Panel(307, 0, 17, 12, 8, {"DeviceTraffic", "DpiNetifyd", "WifiDethrash", "WifiRadio"}),
    Panel(308, 12, 17, 12, 8, {"Node"}),
    Tile(309, 0, 25, 6, 5, {"Textfile"}, Colour(Freshness, Unmapped, 999999)),
    Tile(310, 6, 25, 6, 5, {"Prometheus"}, Colour(OkBad, StatusMappings, 0)),
    Tile(311, 12, 25, 6, 5, {"DpiNetifyd"}, Colour(Neutral, Unmapped, 0)),
    Tile(312, 18, 25, 6, 5,
          {"DeviceTraffic", "DpiNetifyd", "Prometheus", "WifiDethrash", "WifiRadio"}, Colour(Neutral,
          Unmapped, 0)) >>

AdvancedTitles == <<
    "Advanced Overview", "Device Traffic", "WiFi Mesh", "DPI and Data Quality" >>

AdvancedTabs == <<
    Tab("Advanced Overview", AdvancedOverview),
    Tab("Device Traffic", AdvancedTraffic),
    Tab("WiFi Mesh", AdvancedWifi),
    Tab("DPI and Data Quality", AdvancedDpi) >>
=============================================================================
