---------------------------- MODULE ClassicPanels ---------------------------
(***************************************************************************)
(* The panels of the four classic dashboards of build_dashboards.py, which *)
(* have one page each.                                                     *)
(***************************************************************************)
EXTENDS PanelGrid

ClassicOverviewTiles == <<
    Panel(1, 0, 0, 4, 4, {"Node"}),
    Panel(2, 4, 0, 4, 4, {"Node"}),
    Panel(3, 8, 0, 4, 4, {"Node"}),
    Panel(4, 12, 0, 4, 4, {"DeviceStatus"}),
    Panel(5, 16, 0, 4, 4, {"Node"}),
    Panel(6, 20, 0, 4, 4, {"PacketLoss"}),
    Panel(25, 0, 4, 6, 4, {"ServiceHealth"}),
    Panel(26, 6, 4, 6, 4, {"Filesystem"}),
    Panel(27, 12, 4, 6, 4, {"Hwmon", "Thermal"}),
    Panel(28, 18, 4, 6, 4, {"Wifi"}),
    Panel(29, 0, 8, 6, 4, {"DhcpPool"}),
    Panel(30, 6, 8, 6, 4, {"Ipv6Health"}),
    Panel(31, 12, 8, 6, 4, {"LinkHealth"}),
    Panel(32, 18, 8, 6, 4, {"Softnet"}) >>

ClassicOverviewCharts == <<
    Panel(7, 0, 12, 12, 9, {"Node"}),
    Panel(8, 12, 12, 12, 9, {"Node"}),
    Panel(9, 0, 21, 12, 8, {"Node"}),
    Panel(10, 12, 21, 12, 8, {"Node"}),
    Panel(11, 0, 29, 24, 8, {"Node"}),
    Panel(20, 0, 37, 24, 1, {}),
    Panel(21, 0, 38, 24, 4, {"OpenWrtInfo"}),
    Panel(22, 0, 42, 12, 4, {"WanAddress"}),
    Panel(23, 12, 42, 6, 4, {"Node"}),
    Panel(24, 18, 42, 6, 4, {"Textfile"}) >>

ClassicOverviewTabs == << Tab("overview", ClassicOverviewTiles \o ClassicOverviewCharts) >>

ClassicNetworkLinks == <<
    Panel(1, 0, 0, 24, 1, {}),
    Panel(2, 0, 1, 12, 8, {"Node"}),
    Panel(3, 12, 1, 12, 8, {"Node"}),
    Panel(4, 0, 9, 12, 7, {"Node"}),
    Panel(5, 12, 9, 12, 7, {"Node"}),
    Panel(6, 0, 16, 12, 7, {"WanQuality"}),
    Panel(7, 12, 16, 12, 7, {"WanQuality"}),
    Panel(10, 0, 23, 24, 1, {}),
    Panel(11, 0, 24, 24, 8, {"Node"}),
    Panel(94, 0, 32, 6, 7, {"Wifi"}),
    Panel(12, 6, 32, 9, 7, {"Wifi"}),
    Panel(13, 15, 32, 9, 7, {"Wifi"}),
    Panel(14, 0, 39, 12, 7, {"Wifi"}),
    Panel(15, 12, 39, 12, 7, {"Wifi"}),
    Panel(20, 0, 46, 24, 1, {}),
    Panel(21, 0, 47, 12, 8, {"Node"}),
    Panel(22, 12, 47, 12, 8, {"Node"}) >>

ClassicNetworkServices == <<
    Panel(30, 0, 55, 24, 1, {}),
    Panel(31, 0, 56, 12, 7, {"Node"}),
    Panel(32, 12, 56, 12, 7, {"Node"}),
    Panel(40, 0, 63, 24, 1, {}),
    Panel(41, 0, 64, 12, 8, {"Dnsmasq"}),
    Panel(42, 12, 64, 12, 8, {"Dnsmasq"}),
    Panel(45, 0, 72, 24, 1, {}),
    Panel(46, 0, 73, 12, 7, {"Filesystem"}),
    Panel(47, 12, 73, 12, 7, {"ServiceHealth"}),
    Panel(52, 0, 80, 12, 7, {"Inodes"}),
    Panel(53, 12, 80, 12, 7, {"DhcpPool"}),
    Panel(99, 0, 87, 12, 7, {"DhcpPool"}),
    Panel(100, 12, 87, 12, 7, {"DhcpPool"}) >>

ClassicNetworkPaths == <<
    Panel(48, 0, 94, 24, 1, {}),
    Panel(49, 0, 95, 12, 8, {"Textfile"}),
    Panel(50, 12, 95, 12, 8, {"ServiceHealth"}),
    Panel(60, 0, 103, 24, 1, {}),
    Panel(61, 0, 104, 24, 8, {"Node"}),
    Panel(70, 0, 112, 24, 1, {}),
    Panel(71, 0, 113, 12, 8, {"Ipv6Health"}),
    Panel(72, 12, 113, 12, 8, {"Ipv6Health"}),
    Panel(73, 0, 121, 12, 8, {"LinkHealth"}),
    Panel(74, 12, 121, 12, 8, {"LinkHealth"}),
    Panel(75, 0, 129, 12, 8, {"Softnet"}),
    Panel(76, 12, 129, 12, 8, {"Softnet"}) >>

ClassicNetworkQueues == <<
    Panel(95, 0, 137, 12, 8, {"Softnet"}),
    Panel(96, 12, 137, 12, 8, {"Softnet"}),
    Panel(80, 0, 145, 24, 1, {}),
    Panel(81, 0, 146, 12, 8, {"FirewallCounters"}),
    Panel(82, 12, 146, 12, 8, {"FirewallCounters"}),
    Panel(83, 0, 154, 6, 7, {"Sqm"}),
    Panel(84, 6, 154, 9, 7, {"Sqm"}),
    Panel(85, 15, 154, 9, 7, {"Sqm"}),
    Panel(97, 0, 161, 12, 7, {"Sqm"}),
    Panel(98, 12, 161, 12, 7, {"Sqm"}),
    Panel(90, 0, 168, 24, 1, {}),
    Panel(91, 0, 169, 6, 7, {"WifiRadio"}),
    Panel(92, 6, 169, 9, 7, {"WifiRadio"}),
    Panel(93, 15, 169, 9, 7, {"WifiRadio"}) >>

ClassicNetworkTabs == << Tab("network", ClassicNetworkLinks \o ClassicNetworkServices \o ClassicNetworkPaths \o ClassicNetworkQueues) >>

ClassicDevicesNow == <<
    Panel(1, 0, 0, 6, 4, {"DeviceStatus"}),
    Panel(2, 6, 0, 6, 4, {"DeviceStatus"}),
    Panel(3, 12, 0, 6, 4, {"UciDhcpHost"}),
    Panel(4, 18, 0, 6, 4, {"PacketLoss"}),
    Panel(5, 0, 4, 12, 8, {"DeviceStatus"}),
    Panel(6, 12, 4, 12, 8, {"DeviceTraffic"}),
    Panel(10, 0, 12, 24, 1, {}),
    Panel(11, 0, 13, 24, 8, {"Node"}),
    Panel(12, 0, 21, 12, 8, {"WifiStations"}),
    Panel(13, 12, 21, 12, 8, {"WifiStations"}),
    Panel(14, 0, 29, 12, 8, {"WifiStations"}),
    Panel(15, 12, 29, 12, 8, {"WifiStations"}) >>

ClassicDevicesTables == <<
    Panel(20, 0, 37, 24, 1, {}),
    Panel(21, 0, 38, 24, 12, {"DeviceStatus"}),
    Panel(22, 0, 50, 12, 10, {"UciDhcpHost"}),
    Panel(23, 12, 50, 12, 10, {"UciDhcpHost"}) >>

ClassicDevicesTabs == << Tab("devices", ClassicDevicesNow \o ClassicDevicesTables) >>

ClassicLogsPanels == <<
    Panel(1, 0, 0, 4, 4, {"Syslog"}),
    Panel(2, 4, 0, 4, 4, {"Syslog"}),
    Panel(3, 8, 0, 4, 4, {"Syslog"}),
    Panel(4, 12, 0, 4, 4, {"Syslog"}),
    Panel(5, 16, 0, 4, 4, {"Syslog"}),
    Panel(6, 20, 0, 4, 4, {"Syslog"}),
    Panel(7, 0, 4, 12, 7, {"Syslog"}),
    Panel(13, 12, 4, 12, 7, {"Syslog"}),
    Panel(8, 0, 11, 24, 14, {"Syslog"}),
    Panel(9, 0, 25, 12, 10, {"Syslog"}),
    Panel(10, 12, 25, 12, 10, {"Syslog"}),
    Panel(11, 0, 35, 12, 10, {"Syslog"}),
    Panel(12, 12, 35, 12, 10, {"Syslog"}) >>

ClassicLogsTabs == << Tab("logs", ClassicLogsPanels) >>
=============================================================================
