----------------------------- MODULE HelperCatalog -----------------------------
(***************************************************************************)
(* How each helper script of openwrt/scripts that writes a .prom file      *)
(* stages its output and cleans up after itself, read off the scripts one  *)
(* by one:                                                                 *)
(*   stageInOutdir  the staging file lies beside the .prom file, in the    *)
(*                  directory the textfile collector scrapes               *)
(*   sweep          the run removes <name>.prom.<pid> leftovers first      *)
(*   trap           an exit trap removes the run's temporary files         *)
(*   scratch        the run has temporary files besides the staging file   *)
(*   rmScratch      the run's last command removes them                    *)
(*   reports        when what the script looks at does not answer, the run *)
(*                  still reaches its mv and publishes that                *)
(***************************************************************************)

(* The lifecycle nearly all scripts share.                                 *)
Common == [stageInOutdir |-> FALSE, sweep |-> TRUE, trap |-> TRUE,
           scratch |-> FALSE, rmScratch |-> FALSE, reports |-> TRUE]

(* write_probe ends in a bare "return" after a failed test when there is   *)
(* no gateway address, and set -e ends the script before its mv.           *)
WanQuality == [Common EXCEPT !.reports = FALSE]

WanInfo == [Common EXCEPT !.scratch = TRUE]
ClientTraffic == [Common EXCEPT !.scratch = TRUE]
ClientConntrack == [Common EXCEPT !.scratch = TRUE]
Inodes == [Common EXCEPT !.scratch = TRUE]
NetflowHealth == [Common EXCEPT !.sweep = FALSE, !.scratch = TRUE]
Sqm == Common
ServiceHealth == Common
Filesystem == Common
FirewallCounters == Common
Ipv6Health == Common
LinkHealth == Common
Softnet == Common
WifiRadio == Common

(* Stages as $OUTFILE.$$ and $OUTFILE.$$.metrics, and has no trap.         *)
DhcpPool == [Common EXCEPT !.stageInOutdir = TRUE, !.sweep = FALSE, !.trap = FALSE,
                           !.scratch = TRUE, !.rmScratch = TRUE]

Catalog ==
  [wan_quality |-> WanQuality, wan_info |-> WanInfo,
   client_traffic |-> ClientTraffic, client_conntrack |-> ClientConntrack,
   inodes |-> Inodes, netflow |-> NetflowHealth, sqm |-> Sqm,
   services |-> ServiceHealth, filesystem |-> Filesystem,
   firewall |-> FirewallCounters, ipv6_health |-> Ipv6Health,
   link_health |-> LinkHealth, softnet |-> Softnet, wifi_radio |-> WifiRadio,
   dhcp_pool |-> DhcpPool]

================================================================================
