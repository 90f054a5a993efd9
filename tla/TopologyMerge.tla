----------------------------- MODULE TopologyMerge -----------------------------
(***************************************************************************)
(* How the topology dashboard merges what the routers of one network       *)
(* export (build_openwrt_topology_dashboard.py): PromQL queries over the   *)
(* last exposition of every selected router.  An exposition is a set of    *)
(* nodes, a set of edges and a set of the router's own MAC addresses; a    *)
(* node or edge carries the router it comes from, and first says whether   *)
(* that router observed it itself (authority="1").                         *)
(***************************************************************************)

Client(m) == <<"client", m>>
Lan(m) == <<"lan", m>>
Assoc(m) == <<"assoc", m>>

Blank == [nodes |-> {}, edges |-> {}, infra |-> {}]

NodeSeries(board, view) == UNION {board[r].nodes : r \in view}
EdgeSeries(board, view) == UNION {board[r].edges : r \in view}
InfraMacs(board, view) == UNION {board[r].infra : r \in view}

(* A or (B unless on(id) A).                                               *)
PreferAuthority(series) ==
  {s \in series : s.first \/ \A t \in series : t.first => t.id # s.id}

RenderedNodes(board, view) ==
  {n \in PreferAuthority(NodeSeries(board, view)) :
     \A m \in InfraMacs(board, view) : n.id # Client(m)}

(* The wired guess stays although an access point claims the client.       *)
SlipKeepLanGuess(board, view) ==
  {e \in PreferAuthority(EdgeSeries(board, view)) :
     \A m \in InfraMacs(board, view) : e.target # Client(m)}

(* The node of a router's own MAC is hidden, the edges to it are not.      *)
SlipKeepInfraEdges(board, view) ==
  {e \in PreferAuthority(EdgeSeries(board, view)) :
     ~ \E a \in EdgeSeries(board, view) :
          a.id[1] = "assoc" /\ e.id = Lan(a.id[2])}

(* A lan: edge gives way to any assoc: edge of the same client, and an     *)
(* edge to a router's own MAC goes with the node.                          *)
RenderedEdges(board, view) ==
  {e \in PreferAuthority(EdgeSeries(board, view)) :
     /\ ~ \E a \in EdgeSeries(board, view) :
            a.id[1] = "assoc" /\ e.id = Lan(a.id[2])
     /\ \A m \in InfraMacs(board, view) : e.target # Client(m)}

================================================================================
