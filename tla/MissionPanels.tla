---------------------------- MODULE MissionPanels ---------------------------
(***************************************************************************)
(* The panels of the Mission Control dashboard, tab by tab, as             *)
(* build_openwrt_mission_control.py places them.                           *)
(***************************************************************************)
EXTENDS TileColours

MissionOverviewTiles == <<
    Panel(101, 0, 0, 24, 4, {}),
    Joining(Tile(102, 0, 4, 4, 4, {}, Colour(MissionOkBad, StatusMappings, 0)),
            {"Prometheus", "WanQuality"}),
    Panel(103, 4, 4, 4, 4, {"WanQuality"}),
    Panel(104, 8, 4, 4, 4, {"WanQuality"}),
    Tile(105, 12, 4, 4, 4, {"ClientInventory"}, Colour(MissionNeutral, Unmapped, 0)),
    Tile(106, 16, 4, 4, 4, {"Node"}, Colour(MissionNeutral, Unmapped, 0)),
    Tile(107, 20, 4, 4, 4, {"Prometheus"}, Colour(MissionZeroGoodHard, Unmapped, 0)) >>

MissionOverviewCharts == <<
    Panel(108, 0, 8, 12, 9, {"Node"}),
    Panel(109, 12, 8, 12, 9, {"ClientInventory"}) >>

MissionWanProbes == <<
    Panel(201, 0, 0, 12, 9, {"WanQuality"}),
    Panel(202, 12, 0, 12, 9, {"WanQuality"}),
    Panel(203, 0, 9, 12, 9, {"WanQuality"}),
    Panel(204, 12, 9, 12, 9, {"WanQuality"}),
    Panel(205, 0, 18, 12, 9, {"Node"}) >>

MissionWanPaths == <<
    Panel(206, 12, 18, 6, 9, {"Mwan3"}),
    Panel(207, 18, 18, 6, 4, {"Mwan3"}),
    Panel(208, 18, 22, 6, 5, {"WanAddress", "WanInfo"}) >>

MissionWifiNow == <<
    Tile(301, 0, 0, 4, 4, {"Wifi"}, Colour(MissionNeutral, Unmapped, 0)),
    Panel(302, 4, 0, 4, 4, {"ClientInventory"}),
    Panel(303, 8, 0, 4, 4, {"WifiStations"}),
    Joining(Panel(304, 12, 0, 12, 8, {}), {"UciDhcpHost", "WifiStations"}) >>

MissionWifiCharts == <<
    Panel(305, 0, 8, 12, 8, {"ClientInventory"}),
    Panel(306, 12, 8, 12, 8, {"WifiStations"}),
    Panel(307, 0, 16, 12, 8, {"WifiRadio"}),
    Panel(308, 12, 16, 12, 8, {"Wifi"}),
    Panel(309, 0, 24, 12, 8, {"WifiStations"}) >>

MissionWifiTables == <<
    Panel(310, 12, 24, 12, 8, {"WifiRadio", "WifiStations"}),
    Panel(311, 0, 32, 24, 7, {"Wifi", "WifiDethrash"}) >>

MissionLanRates == <<
    Tile(401, 0, 0, 5, 5, {"DeviceTraffic"}, Colour(MissionNeutral, Unmapped, 0)),
    Panel(402, 5, 0, 5, 5, {"Node"}),
    Panel(403, 10, 0, 14, 5, {"DeviceTraffic"}),
    Panel(404, 0, 5, 12, 9, {"DeviceTraffic"}),
    Panel(405, 12, 5, 12, 9, {"DeviceTraffic"}) >>

MissionLanTotals == <<
    Panel(406, 0, 14, 24, 9, {"DeviceTraffic"}),
    Panel(407, 0, 23, 14, 10, {"DeviceTraffic"}) >>

MissionLanPorts == <<
    Panel(408, 14, 23, 10, 10, {"Node"}),
    Panel(409, 0, 33, 24, 8, {"LinkHealth"}) >>

MissionDnsTiles == <<
    Tile(501, 0, 0, 5, 5, {"Dnsmasq"}, Colour(MissionNeutral, Unmapped, 0)),
    Panel(502, 5, 0, 5, 5, {"Dnsmasq"}),
    Panel(503, 10, 0, 5, 5, {"DhcpPool"}),
    Tile(504, 15, 0, 9, 5, {"DhcpPool"}, Colour(MissionNeutral, Unmapped, 0)) >>

MissionDnsCharts == <<
    Panel(505, 0, 5, 12, 8, {"Dnsmasq"}),
    Panel(506, 12, 5, 12, 8, {"Dnsmasq"}),
    Panel(507, 0, 13, 12, 8, {"Dnsmasq"}),
    Panel(508, 12, 13, 12, 8, {"UciDhcpHost"}),
    Panel(509, 0, 21, 24, 7, {"Dnsmasq"}) >>

MissionHealthTiles == <<
    Panel(601, 0, 0, 4, 4, {"Node"}),
    Panel(602, 4, 0, 4, 4, {"Node"}),
    Panel(603, 8, 0, 4, 4, {"Node"}),
    Tile(604, 12, 0, 4, 4, {"Node"}, Colour(MissionZeroGood, Unmapped, 0)),
    Panel(605, 16, 0, 4, 4, {"Hwmon"}),
    Tile(606, 20, 0, 4, 4, {"ServiceHealth"}, Colour(MissionZeroGoodHard, Unmapped, 0)) >>

MissionHealthLoad == <<
    Panel(607, 0, 4, 8, 8, {"Node"}),
    Panel(608, 8, 4, 8, 8, {"Node"}),
    Panel(609, 16, 4, 8, 8, {"Hwmon"}),
    Panel(610, 0, 12, 12, 8, {"Node"}),
    Panel(611, 12, 12, 12, 8, {"ServiceHealth"}) >>

MissionHealthPaths == <<
    Panel(612, 0, 20, 24, 6, {"Filesystem"}),
    Panel(613, 0, 26, 12, 8, {"Softnet"}),
    Panel(614, 12, 26, 12, 8, {"Node"}) >>

MissionTopologyClients == <<
    Panel(701, 0, 0, 24, 5, {}),
    Tile(702, 0, 5, 4, 4, {"Topology"}, Colour(MissionNeutral, Unmapped, 0)),
    Tile(703, 4, 5, 4, 4, {"Topology"}, Colour(MissionNeutral, Unmapped, 0)),
    Tile(704, 8, 5, 4, 4, {"ClientInventory"}, Colour(MissionZeroGood, Unmapped, 0)),
    Panel(705, 12, 5, 12, 13, {"ClientInventory"}) >>

MissionTopologyGraph == <<
    Panel(706, 0, 9, 12, 9, {"ClientInventory"}),
    Panel(707, 0, 18, 24, 17, {"DeviceTraffic", "Topology"}) >>

MissionLogs == <<
    Tile(801, 0, 0, 6, 4, {"Syslog"}, Colour(MissionNeutral, Unmapped, 0)),
    Tile(802, 6, 0, 6, 4, {"Syslog"}, Colour(MissionZeroGood, Unmapped, 0)),
    Tile(803, 12, 0, 6, 4, {"Syslog"}, Colour(MissionNeutral, Unmapped, 0)),
    Tile(804, 18, 0, 6, 4, {"Syslog"}, Colour(MissionZeroGood, Unmapped, 0)),
    Panel(805, 0, 4, 14, 9, {"Syslog"}),
    Panel(806, 14, 4, 10, 9, {"Syslog"}),
    Panel(807, 0, 13, 12, 11, {"Syslog"}),
    Panel(808, 12, 13, 12, 11, {"Syslog"}) >>

MissionTargets == <<
    Tile(901, 0, 0, 6, 4, {"Prometheus"}, Colour(MissionOkBad, StatusMappings, 0)),
    Panel(902, 6, 0, 6, 4, {"Prometheus"}),
    Panel(903, 12, 0, 6, 4, {"Prometheus"}),
    Panel(904, 18, 0, 6, 4, {"Textfile"}) >>

MissionCollectors == <<
    Panel(905, 0, 4, 12, 9, {"Prometheus"}),
    Panel(906, 12, 4, 12, 9, {"Alloy"}),
    Panel(907, 0, 13, 12, 10, {"Node"}),
    Panel(908, 12, 13, 12, 10,
          {"ClientConntrack", "ClientInventory", "ClientTraffic", "DeviceTraffic", "DpiNetifyd",
          "FirewallCounters", "Inodes", "NetflowHealth", "Prometheus", "Topology", "WifiDethrash",
          "WifiRadio"}) >>

MissionTitles == <<
    "Overview", "WAN & Internet", "WiFi & Clients", "LAN, Devices & Traffic", "DNS & DHCP",
    "Router Health", "Topology", "Logs & Security", "Diagnostics" >>

MissionTabs == <<
    Tab("Overview", MissionOverviewTiles \o MissionOverviewCharts),
    Tab("WAN & Internet", MissionWanProbes \o MissionWanPaths),
    Tab("WiFi & Clients", MissionWifiNow \o MissionWifiCharts \o MissionWifiTables),
    Tab("LAN, Devices & Traffic", MissionLanRates \o MissionLanTotals \o MissionLanPorts),
    Tab("DNS & DHCP", MissionDnsTiles \o MissionDnsCharts),
    Tab("Router Health", MissionHealthTiles \o MissionHealthLoad \o MissionHealthPaths),
    Tab("Topology", MissionTopologyClients \o MissionTopologyGraph),
    Tab("Logs & Security", MissionLogs),
    Tab("Diagnostics", MissionTargets \o MissionCollectors) >>
=============================================================================
