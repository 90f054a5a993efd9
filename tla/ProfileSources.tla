--------------------------- MODULE ProfileSources ---------------------------
(***************************************************************************)
(* Which sources of metrics, logs and flows exist: those of the monitoring *)
(* host, those that setup.sh installs on every router, and those of the    *)
(* optional profiles.  Sources are named after the collector or helper.    *)
(***************************************************************************)

Host == {"Prometheus", "Alloy", "Syslog"}

\* Packages, required and best effort; Mwan3's comes with mwan3.
Packages ==
    {"Node", "Textfile", "UciDhcpHost", "OpenWrtInfo", "NatTraffic"} \cup
    {"Wifi", "WifiStations", "HostapdStations", "Hwmon", "Thermal", "NftCounters", "Snmp6", "Mwan3"}

CoreCollectors == {"Dnsmasq", "DeviceStatus", "PacketLoss", "WanAddress"}

CoreHelpers ==
    {"ServiceHealth", "WanInfo", "WanQuality", "Filesystem", "DhcpPool", "LinkHealth", "Softnet",
     "Ipv6Health", "Inodes", "FirewallCounters", "Sqm", "WifiRadio"}

SlipForgetTopology(profile) ==
    CASE profile = "core"      -> Packages \cup CoreCollectors \cup CoreHelpers
      [] profile = "traffic"   -> {"DeviceTraffic"}
      [] profile = "wifi_mesh" -> {"WifiDethrash"}
      [] profile = "dpi"       -> {"DpiNetifyd"}
      [] profile = "clients"   -> {"ClientInventory", "ClientTraffic", "ClientConntrack"}
      [] profile = "netflow"   -> {"NetflowHealth", "Akvorado", "Flows"}

\* What a profile adds; that of netflow needs the Akvorado stack on the host.
Adds(profile) ==
    CASE profile = "core"      -> Packages \cup CoreCollectors \cup CoreHelpers
      [] profile = "traffic"   -> {"DeviceTraffic"}
      [] profile = "wifi_mesh" -> {"WifiDethrash"}
      [] profile = "dpi"       -> {"DpiNetifyd"}
      [] profile = "clients"   -> {"ClientInventory", "ClientTraffic", "ClientConntrack", "Topology"}
      [] profile = "netflow"   -> {"NetflowHealth", "Akvorado", "Flows"}

AllProfiles == {"core", "traffic", "wifi_mesh", "dpi", "clients", "netflow"}

Sources(profiles) == Host \cup UNION {Adds(profile) : profile \in profiles}
=============================================================================
