-------------------------- MODULE OperationsPanels --------------------------
(***************************************************************************)
(* The panels of the Operations dashboard, tab by tab, as                  *)
(* build_openwrt_operations_dashboard.py places them.                      *)
(***************************************************************************)
EXTENDS TileColours

OperationsOverview == <<
    Tile(1, 0, 0, 4, 4, {"Prometheus"}, Colour(OkBad, StatusMappings, 0)),
    Tile(2, 4, 0, 4, 4, {"WanQuality"}, Colour(OkBad, BooleanOkMappings, 0)),
    Tile(3, 8, 0, 4, 4, {"DeviceStatus"}, Colour(Neutral, Unmapped, 0)),
    Tile(4, 12, 0, 4, 4, {"Node"}, Colour(Capacity, Unmapped, 0)),
    Tile(5, 16, 0, 4, 4, {"Filesystem", "Node"}, Colour(Capacity, Unmapped, 0)),
    Tile(6, 20, 0, 4, 4, {"Textfile"}, Colour(Freshness, Unmapped, 999999)),
    Panel(7, 0, 4, 12, 8, {"Node"}),
    Panel(8, 12, 4, 12, 9, {"Node"}),
    Panel(9, 0, 13, 12, 7, {"WanQuality"}),
    Panel(10, 12, 13, 12, 7, {"DeviceStatus", "Node"}) >>

OperationsWan == <<
    Panel(100, 0, 0, 24, 3, {}),
    Panel(101, 0, 3, 12, 8, {"Node"}),
    Panel(102, 12, 3, 12, 8, {"Node"}),
    Panel(103, 0, 11, 12, 8, {"Node"}),
    Panel(104, 12, 11, 6, 8, {"WanQuality"}),
    Panel(109, 18, 11, 6, 8, {"WanQuality"}),
    Tile(105, 0, 19, 6, 5, {"WanQuality"}, Colour(LossPercent, Unmapped, 0)),
    Tile(106, 6, 19, 6, 5, {"WanQuality"}, Colour(OkBad, BooleanOkMappings, 0)),
    Tile(107, 12, 19, 6, 5, {"WanQuality"}, Colour(LossPercent, Unmapped, 0)),
    Tile(108, 18, 19, 6, 5, {"WanQuality"}, Colour(LossPercent, Unmapped, 0)) >>

OperationsWifi == <<
    Panel(200, 0, 0, 24, 3, {}),
    Panel(201, 0, 3, 24, 8, {"Node"}),
    Panel(202, 0, 11, 8, 7, {"Wifi"}),
    Panel(203, 8, 11, 8, 7, {"Wifi"}),
    Panel(204, 16, 11, 8, 7, {"Wifi"}),
    Panel(205, 0, 18, 8, 7, {"HostapdStations", "Wifi"}),
    Panel(206, 8, 18, 8, 7, {"HostapdStations", "WifiStations"}),
    Panel(207, 16, 18, 8, 7, {"HostapdStations", "WifiStations"}),
    Panel(208, 0, 25, 24, 10, {"HostapdStations", "WifiRadio", "WifiStations"}) >>

OperationsLan == <<
    Panel(300, 0, 0, 24, 3, {}),
    Tile(301, 0, 3, 6, 4, {"DeviceStatus"}, Colour(Neutral, Unmapped, 0)),
    Tile(302, 6, 3, 6, 4, {"DeviceStatus"}, Colour(OkBad, Unmapped, 0)),
    Tile(303, 12, 3, 6, 4, {"UciDhcpHost"}, Colour(Neutral, Unmapped, 0)),
    Tile(304, 18, 3, 6, 4, {"Node"}, Colour(Capacity, Unmapped, 0)),
    Panel(305, 0, 7, 12, 8, {"Node"}),
    Panel(306, 12, 7, 12, 8, {"DeviceStatus"}),
    Panel(307, 0, 15, 8, 8, {"DeviceTraffic"}),
    Panel(308, 8, 15, 16, 8, {"Node"}),
    Panel(309, 0, 23, 24, 10, {"DeviceStatus"}),
    Panel(310, 0, 33, 24, 10, {"UciDhcpHost"}) >>

OperationsClients == <<
    Panel(800, 0, 0, 24, 3, {}),
    Tile(801, 0, 3, 6, 4, {"DeviceTraffic"}, Colour(Neutral, Unmapped, 0)),
    Tile(802, 6, 3, 6, 4, {"DeviceTraffic"}, Colour(Neutral, Unmapped, 0)),
    Tile(803, 12, 3, 6, 4, {"DeviceTraffic"}, Colour(Neutral, Unmapped, 0)),
    Tile(804, 18, 3, 6, 4, {"Wifi"}, Colour(Neutral, Unmapped, 0)),
    Panel(805, 0, 7, 12, 9, {"DeviceTraffic"}),
    Panel(806, 12, 7, 12, 9, {"DeviceTraffic"}),
    Panel(807, 0, 16, 12, 8, {"DeviceTraffic"}),
    Panel(808, 12, 16, 12, 8, {"DeviceTraffic"}),
    Panel(809, 0, 24, 24, 11, {"DeviceTraffic"}),
    Panel(811, 0, 35, 24, 8, {"WifiStations"}),
    Panel(812, 0, 43, 24, 9, {"WifiRadio", "WifiStations"}) >>

OperationsDns == <<
    Panel(700, 0, 0, 24, 3, {}),
    Panel(701, 0, 3, 6, 4, {"Dnsmasq"}),
    Tile(702, 6, 3, 6, 4, {"Dnsmasq"}, Colour(Neutral, Unmapped, 0)),
    Tile(703, 12, 3, 6, 4, {"DhcpPool"}, Colour(CapacityPercent, Unmapped, 0)),
    Tile(704, 18, 3, 6, 4, {"Ipv6Health"}, Colour(Neutral, Unmapped, 0)),
    Panel(705, 0, 7, 12, 8, {"Dnsmasq"}),
    Panel(706, 12, 7, 12, 8, {"Dnsmasq"}),
    Panel(707, 0, 15, 12, 8, {"Dnsmasq"}),
    Panel(708, 12, 15, 12, 8, {"DhcpPool"}),
    Panel(709, 0, 23, 12, 7, {"Dnsmasq"}),
    Panel(710, 12, 23, 12, 7, {"DhcpPool"}) >>

OperationsHealth == <<
    Panel(400, 0, 0, 24, 3, {}),
    Panel(401, 0, 3, 6, 7, {"Node"}),
    Panel(402, 6, 3, 6, 7, {"Node"}),
    Panel(403, 12, 3, 6, 7, {"Filesystem"}),
    Panel(404, 18, 3, 6, 7, {"Node"}),
    Panel(405, 0, 10, 12, 8, {"Node"}),
    Panel(406, 12, 10, 12, 8, {"Node"}),
    Panel(407, 0, 18, 12, 8, {"Node"}),
    Panel(408, 12, 18, 12, 8, {"Node"}),
    Panel(409, 0, 26, 6, 5, {"Hwmon", "Thermal"}),
    Tile(410, 6, 26, 6, 5, {"Node"}, Colour(OkBad, Unmapped, 0)),
    Tile(411, 12, 26, 6, 5, {"Node"}, Colour(OkBad, Unmapped, 0)),
    Tile(412, 18, 26, 6, 5, {"Textfile"}, Colour(Freshness, Unmapped, 999999)),
    Panel(413, 0, 31, 12, 6, {"OpenWrtInfo"}),
    Panel(414, 12, 31, 12, 6, {"WanAddress"}),
    Tile(415, 0, 37, 6, 5, {"ServiceHealth"}, Colour(Neutral, Unmapped, 0)),
    Tile(416, 6, 37, 6, 5, {"LinkHealth"}, Colour(OkBad, Unmapped, 0)),
    Tile(417, 12, 37, 6, 5, {"Softnet"}, Colour(OkBad, Unmapped, 0)),
    Tile(418, 18, 37, 6, 5, {"Softnet"}, Colour(OkBad, Unmapped, 0)),
    Panel(419, 0, 42, 12, 8, {"ServiceHealth"}),
    Panel(420, 12, 42, 12, 8, {"FirewallCounters"}) >>

OperationsLogs == <<
    Panel(500, 0, 0, 24, 3, {}),
    Tile(501, 0, 3, 4, 4, {"Syslog"}, Colour(OkBad, Unmapped, 0)),
    Tile(502, 4, 3, 4, 4, {"Syslog"}, Colour(OkBad, Unmapped, 0)),
    Tile(503, 8, 3, 4, 4, {"Syslog"}, Colour(Neutral, Unmapped, 0)),
    Tile(504, 12, 3, 4, 4, {"Syslog"}, Colour(OkBad, Unmapped, 0)),
    Tile(505, 16, 3, 4, 4, {"Syslog"}, Colour(OkBad, Unmapped, 0)),
    Tile(506, 20, 3, 4, 4, {"Syslog"}, Colour(Neutral, Unmapped, 0)),
    Panel(507, 0, 7, 24, 7, {"Syslog"}),
    Panel(508, 0, 14, 24, 10, {"Syslog"}),
    Panel(509, 0, 24, 12, 6, {"Syslog"}),
    Panel(510, 12, 24, 12, 6, {"Syslog"}),
    Panel(511, 0, 30, 12, 6, {"Syslog"}),
    Panel(512, 12, 30, 12, 6, {"Syslog"}) >>

OperationsOptional == <<
    Panel(600, 0, 0, 24, 3, {}),
    Tile(601, 0, 3, 4, 3, {"Mwan3"}, Colour(Unavailable, AvailabilityMappings, 0)),
    Tile(602, 4, 3, 4, 3, {"Sqm"}, Colour(Unavailable, AvailabilityMappings, 0)),
    Tile(603, 8, 3, 4, 3, {"NftCounters"}, Colour(Unavailable, AvailabilityMappings, 0)),
    Tile(604, 12, 3, 4, 3, {"Snmp6"}, Colour(Unavailable, AvailabilityMappings, 0)),
    Tile(605, 16, 3, 4, 3, {"Node"}, Colour(Unavailable, AvailabilityMappings, 0)),
    Tile(606, 20, 3, 4, 3, {"Wifi"}, Colour(Unavailable, AvailabilityMappings, 0)),
    Panel(607, 0, 6, 12, 7, {"Mwan3"}),
    Panel(608, 12, 6, 6, 7, {"Sqm"}),
    Panel(613, 18, 6, 6, 7, {"Sqm"}),
    Panel(609, 0, 13, 8, 6, {"NftCounters"}),
    Panel(610, 8, 13, 8, 6, {"Snmp6"}),
    Panel(611, 16, 13, 8, 6, {"Node"}),
    Panel(614, 0, 19, 8, 7, {"Snmp6"}),
    Panel(615, 8, 19, 8, 7, {"Snmp6"}),
    Panel(616, 16, 19, 8, 7, {"Ipv6Health"}),
    Panel(617, 0, 26, 12, 6, {"Snmp6"}),
    Panel(618, 12, 26, 12, 6, {"Snmp6"}),
    Panel(612, 0, 32, 24, 10, {"Prometheus"}) >>

OperationsTitles == <<
    "Overview", "WAN & Internet", "WiFi & Clients", "LAN, NAT & Devices", "Client Insights",
    "DNS & DHCP", "Router Health", "Logs & Security", "Optional & Diagnostics" >>

OperationsTabs == <<
    Tab("Overview", OperationsOverview),
    Tab("WAN & Internet", OperationsWan),
    Tab("WiFi & Clients", OperationsWifi),
    Tab("LAN, NAT & Devices", OperationsLan),
    Tab("Client Insights", OperationsClients),
    Tab("DNS & DHCP", OperationsDns),
    Tab("Router Health", OperationsHealth),
    Tab("Logs & Security", OperationsLogs),
    Tab("Optional & Diagnostics", OperationsOptional) >>
=============================================================================
