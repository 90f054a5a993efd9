------------------------------- MODULE Topology --------------------------------
(***************************************************************************)
(* The topology collector (topology.lua) on the routers of one network and *)
(* the dashboard that draws the graph.  The routers are scraped one by one *)
(* while clients roam, reads fail and exporters go away, so the dashboard  *)
(* merges expositions of different ages.                                   *)
(***************************************************************************)
EXTENDS TopologyMerge, FiniteSets

CONSTANTS
  Routers,    \* the monitored boxes; each has one switch port
  Gateways,   \* those with a WAN interface of their own
  NextHop,    \* the gateway the others' default route points at
  Radios,     \* the access-point interfaces
  RouterOf,   \* RouterOf[b]: the box of radio b
  Macs,       \* MAC addresses that may turn up in the network
  OwnMacs,    \* OwnMacs[r]: those of r's own interfaces
  ModemMacs,  \* those of an upstream router beyond the WAN, {} if there is none
  Stations,   \* those of the clients that use the radios
  Settings,   \* bound: what hosts, next hop and bridge may look like in one scrape
  Failures    \* bound: the sets of reads that may fail in one scrape

ASSUME TopologyAssumption ==
  /\ Gateways \subseteq Routers /\ NextHop \in Gateways
  /\ RouterOf \in [Radios -> Routers]
  /\ OwnMacs \in [Routers -> SUBSET Macs] /\ ModemMacs \subseteq Macs
  /\ Stations \subseteq Macs \ ModemMacs
  /\ Settings \subseteq [hosts : SUBSET Macs, modem : {"none", "known", "unknown"},
                         learned : SUBSET Macs]
  /\ Failures \subseteq SUBSET {"ubus", "wan", "lan", "route", "wireless", "list"}

VARIABLES
  assoc,   \* assoc[b]: the stations in the association list of radio b
  board,   \* board[r]: the last exposition of r, Blank when it has none
  posing,  \* history: the boxes without a WAN whose last exposition is a gateway's
  read,    \* history: the radios whose list their box's last exposition rests on
  settled  \* history: the radios whose list has not changed since then

vars == <<assoc, board, posing, read, settled>>

Own(r) == {b \in Radios : RouterOf[b] = r}

--------------------------------------------------------------------------------
(* What one run of the collector finds out: ubus, does it get a ubus       *)
(* connection, without which it does not ask for role, route and radios    *)
(* and takes its hosts from the leases; wan, is a WAN interface up; lan,   *)
(* did the lan status call work; route, is there a default route; wifi,    *)
(* has network.wireless status answered; ok, whose association lists could *)
(* be read; and of its setting hosts, whom getHostHints or the leases      *)
(* name; modem, is the next hop a private address, and does the ARP table  *)
(* know its MAC; learned, whom "bridge fdb" places behind the switch port. *)
Findings(r) ==
  {f \in [ubus : BOOLEAN, wan : BOOLEAN, lan : BOOLEAN, route : BOOLEAN, wifi : BOOLEAN,
          ok : SUBSET Own(r), setting : Settings] : \E failed \in Failures :
     /\ f.ubus = ("ubus" \notin failed)
     /\ f.wan = (f.ubus /\ r \in Gateways /\ "wan" \notin failed)
     /\ f.lan = (f.ubus /\ "lan" \notin failed)
     /\ f.route => f.ubus
     /\ f.ubus => f.route \/ "route" \in failed \/ (r \in Gateways /\ "wan" \in failed)
     /\ f.wifi = (f.ubus /\ "wireless" \notin failed)
     /\ IF f.wifi THEN f.ok = Own(r) \/ "list" \in failed ELSE f.ok = {}}

(* Each list starts the table of stations anew.                            *)
SlipKeepLastList(ok) ==
  IF ok = {} THEN {<<>>} ELSE {[m \in assoc[b] |-> b] : b \in ok}

(* assoc_by_mac: the radio whose list names a station; of several lists    *)
(* the last one read decides.                                              *)
Lists(ok) ==
  {at \in [UNION {assoc[b] : b \in ok} -> ok] : \A m \in DOMAIN at : m \in assoc[at[m]]}

(* The default route leaves by the LAN bridge on a box without a WAN.      *)
detect_role(r, f) ==
  \/ f.wan
  \/ f.route /\ f.lan /\ r \in Gateways
  \/ ~f.route

(* A box that has nobody to ask keeps collect's default, the gateway.      *)
IsGateway(r, f) == f.ubus => detect_role(r, f)

(* The router's node is named by its LAN address or by the next hop (for a *)
(* gateway, its provider's router), or, for want of both, by its host name.*)
RouterId(r, f) ==
  IF IsGateway(r, f) /\ f.lan THEN <<"router", r>>
  ELSE IF ~f.route THEN <<"named", r>>
  ELSE IF r \in Gateways THEN <<"upstream", r>>
  ELSE <<"router", NextHop>>

HasModem(r, f) == IsGateway(r, f) /\ f.route /\ f.setting.modem # "none"
KnownModem(r, f) ==
  IF HasModem(r, f) /\ f.setting.modem = "known" THEN ModemMacs ELSE {}

(* The box's own interfaces are drawn like clients.                        *)
SlipShowOwnMacs(r, f, at) ==
  (IF IsGateway(r, f) THEN f.setting.hosts ELSE DOMAIN at)
    \ KnownModem(r, f)

(* The gateway draws the hosts it knows, an access point its stations, and *)
(* both leave out their own interfaces (the gateway also a modem's it can  *)
(* name).                                                                  *)
Clients(r, f, at) ==
  (IF IsGateway(r, f) THEN f.setting.hosts ELSE DOMAIN at)
    \ (OwnMacs[r] \cup KnownModem(r, f))

(* Bridge ports exist on a gateway whose "bridge fdb" named anyone.        *)
HasPort(r, f) == IsGateway(r, f) /\ f.setting.learned # {}

GatewayNodes(r, f) ==
  {<<"internet">>}
    \cup (IF HasModem(r, f) THEN {<<"modem", r>>} ELSE {})
    \cup (IF HasPort(r, f) THEN {<<"port", r>>} ELSE {})

RadioNodes(r, f) ==
  IF f.wifi /\ Own(r) # {} THEN {<<"ap", r>>} \cup {<<"bss", b>> : b \in Own(r)} ELSE {}

(* What an access point draws although another box answers for it.         *)
StandIns(r, f, at) == {RouterId(r, f)} \cup {Client(m) : m \in Clients(r, f, at)}

NodeIds(r, f, at) ==
  RadioNodes(r, f) \cup StandIns(r, f, at)
    \cup (IF IsGateway(r, f) THEN GatewayNodes(r, f) ELSE {})

(* The stand-ins claim to be the real thing.                               *)
SlipStandInsAreFirst(r, f, at) ==
  {[id |-> id, router |-> r, first |-> TRUE] : id \in NodeIds(r, f, at)}

Nodes(r, f, at) ==
  {[id |-> id, router |-> r, first |-> IsGateway(r, f) \/ id \in RadioNodes(r, f)] :
     id \in NodeIds(r, f, at)}

Edge(r, id, source, target) ==
  [id |-> id, source |-> source, target |-> target, router |-> r, first |-> TRUE]

Uplinks(r, f) ==
  IF ~IsGateway(r, f) THEN {}
  ELSE IF HasModem(r, f)
  THEN {Edge(r, <<"wan", "modem">>, <<"internet">>, <<"modem", r>>),
        Edge(r, <<"nat", r>>, <<"modem", r>>, RouterId(r, f))}
  ELSE {Edge(r, <<"wan", r>>, <<"internet">>, RouterId(r, f))}

RadioEdges(r, f) ==
  {Edge(r, <<IF IsGateway(r, f) THEN "ap" ELSE "uplink", r>>, RouterId(r, f), <<"ap", r>>)}
    \cup {Edge(r, <<"radio", b>>, <<"ap", r>>, <<"bss", b>>) : b \in Own(r)}

PortEdges(r, f) == {Edge(r, <<"link", r>>, RouterId(r, f), <<"port", r>>)}

AssocEdges(r, f, at) ==
  {Edge(r, Assoc(m), <<"bss", at[m]>>, Client(m)) : m \in Clients(r, f, at) \cap DOMAIN at}

LanEdge(r, f, m) ==
  Edge(r, Lan(m), IF m \in f.setting.learned THEN <<"port", r>> ELSE RouterId(r, f), Client(m))

(* A host in none of the lists the gateway could read is taken to be wired *)
(* if it could read any.                                                   *)
LanEdges(r, f, at) ==
  {LanEdge(r, f, m) : m \in IF IsGateway(r, f) /\ f.ok # {}
                            THEN Clients(r, f, at) \ DOMAIN at ELSE {}}

(* add_edge: no edge whose ends are not among the nodes.                   *)
Edges(r, f, at) ==
  {e \in Uplinks(r, f) \cup RadioEdges(r, f) \cup PortEdges(r, f)
           \cup AssocEdges(r, f, at) \cup LanEdges(r, f, at) :
     {e.source, e.target} \subseteq NodeIds(r, f, at)}

Exposition(r, f, at) ==
  [nodes |-> Nodes(r, f, at), edges |-> Edges(r, f, at), infra |-> OwnMacs[r]]

--------------------------------------------------------------------------------

Init ==
  /\ assoc \in [Radios -> SUBSET Stations]
  /\ board = [r \in Routers |-> Blank]
  /\ posing = {} /\ read = {} /\ settled = {}

Scraped(r, f, at) ==
  /\ board' = [board EXCEPT ![r] = Exposition(r, f, at)]
  /\ posing' = IF IsGateway(r, f) /\ r \notin Gateways THEN posing \cup {r} ELSE posing \ {r}
  /\ read' = (read \ Own(r)) \cup f.ok
  /\ settled' = settled \cup Own(r)
  /\ UNCHANGED assoc

(* Neither getHostHints nor a lease file, or the box does not answer at    *)
(* all: Prometheus marks its series stale.                                 *)
Missed(r) ==
  /\ board' = [board EXCEPT ![r] = Blank]
  /\ posing' = posing \ {r}
  /\ read' = read \ Own(r)
  /\ settled' = settled \cup Own(r)
  /\ UNCHANGED assoc

(* A station joins a radio; the one it comes from may not have noticed.    *)
Joins(m, b) ==
  /\ m \notin assoc[b]
  /\ assoc' = [assoc EXCEPT ![b] = @ \cup {m}]
  /\ settled' = settled \ {b}
  /\ UNCHANGED <<board, posing, read>>

Leaves(m, b) ==
  /\ m \in assoc[b]
  /\ assoc' = [assoc EXCEPT ![b] = @ \ {m}]
  /\ settled' = settled \ {b}
  /\ UNCHANGED <<board, posing, read>>

Next ==
  \/ \E r \in Routers :
       \/ Missed(r)
       \/ \E f \in Findings(r) : \E at \in Lists(f.ok) : Scraped(r, f, at)
  \/ \E m \in Stations, b \in Radios : Joins(m, b) \/ Leaves(m, b)

Spec == Init /\ [][Next]_vars

--------------------------------------------------------------------------------
(* Properties.                                                             *)

Ids(r) == {n.id : n \in board[r].nodes}

(* Every exposition is a graph of its own, without the box's own MACs, and *)
(* has every id once.                                                      *)
TypeOK ==
  /\ assoc \in [Radios -> SUBSET Stations]
  /\ posing \subseteq Routers \ Gateways
  /\ read \cup settled \subseteq Radios
  /\ \A r \in Routers :
       /\ \A n, o \in board[r].nodes : n.id = o.id => n = o
       /\ \A e \in board[r].edges : {e.source, e.target} \subseteq Ids(r)
       /\ \A m \in OwnMacs[r] : Client(m) \notin Ids(r)

(* build_openwrt_topology_dashboard.py:305-306, "Must be zero": whichever  *)
(* routers the user selects and however old their expositions are, both    *)
(* ends of every rendered edge are rendered nodes; Grafana's node graph    *)
(* panel crashes otherwise.                                                *)
NoDanglingEdge ==
  \A view \in SUBSET Routers : \A e \in RenderedEdges(board, view) :
    {e.source, e.target} \subseteq {n.id : n \in RenderedNodes(board, view)}

(* Line 304 counts the ids that two boxes claim first-hand ("Must be       *)
(* zero").  In a network with one gateway two boxes never claim the same   *)
(* radio, box, modem or port; they claim the same client, or the internet, *)
(* only while one of them poses: it has no WAN, and takes itself for a     *)
(* gateway because it could not ask ubus or found no default route.        *)
NoCollidingNodes ==
  \A r, q \in Routers : \A n \in board[r].nodes, o \in board[q].nodes :
    (n.first /\ o.first /\ n.id = o.id /\ r # q) =>
      {r, q} \cap posing # {} /\ n.id[1] \in {"internet", "client"}

(* Once every list has been read since it last changed, and no box poses   *)
(* as a gateway, a client that is on one radio is drawn there and nowhere  *)
(* else, and a client on no radio is not drawn on one, although the        *)
(* gateway takes whomever it has not on its own radios to be wired.        *)
ClientsAreWhereTheyAre ==
  (read \cap settled = Radios /\ posing = {}) =>
    \A m \in Macs \ InfraMacs(board, Routers) :
      LET on == {b \in Radios : m \in assoc[b]}
          parents == {e.source : e \in {d \in RenderedEdges(board, Routers) :
                                          d.target = Client(m)}}
      IN /\ Cardinality(on) = 1 => parents \subseteq {<<"bss", b>> : b \in on}
         /\ on = {} => \A p \in parents : p[1] # "bss"

(* No exposition links a station of b like a wired host.                   *)
NotWired(b) ==
  \A m \in assoc[b], e \in board[RouterOf[b]].edges : e.id # Lan(m)

(* topology.lua:324 keeps one flag for all association lists.  A station   *)
(* whose list was read is never taken for a wired host, whichever of the   *)
(* box's other lists failed; only those on a list that failed can be.      *)
GuessesOnlyUnread == \A b \in read \cap settled : NotWired(b)

(* build_openwrt_topology_dashboard.py:299, "the collector never guesses a *)
(* wired link": nor are those.                                             *)
NeverGuessesWired == \A b \in settled : NotWired(b)

================================================================================
