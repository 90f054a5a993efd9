------------------------------ MODULE MCTopology -------------------------------
(***************************************************************************)
(* A gateway "g" and an access point "a" whose own MAC "ma" the gateway    *)
(* may list among its hosts; the modem's MAC "mm" likewise.  The first     *)
(* letter of a radio is its box.                                           *)
(***************************************************************************)
EXTENDS Topology

MCRouterOf == [b \in Radios |-> IF b = "a5" THEN "a" ELSE "g"]
MCOwnMacs == [r \in Routers |-> IF r = "a" THEN {"ma"} ELSE {}]
MCSettings ==
  {[hosts |-> Macs, modem |-> "none", learned |-> {"c", "ma"}],
   [hosts |-> Macs, modem |-> "known", learned |-> {}],
   [hosts |-> {"ma"}, modem |-> "unknown", learned |-> {"c", "ma"}]}
MCFailures ==
  {{}, {"wan", "lan"}, {"route", "lan"}}
    \cup {{one} : one \in {"ubus", "wan", "lan", "route", "wireless", "list"}}

================================================================================
