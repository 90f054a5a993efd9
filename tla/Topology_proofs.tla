---------------------------- MODULE Topology_proofs ----------------------------
(***************************************************************************)
(* For any number of routers, radios and MAC addresses, whatever each read *)
(* returns and however old the expositions are: the rendered graph has no  *)
(* dangling edge, and no station whose list was read looks wired.  With    *)
(* one gateway and no box that poses as another, every node has one owner  *)
(* and every client is drawn on its radio.                                 *)
(***************************************************************************)
EXTENDS Topology, FiniteSetTheorems, TLAPS

(* What the dashboard's queries rest on: every exposition is closed, no    *)
(* edge starts at a client, and the infrastructure MACs are MACs.          *)
Closed(x) == \A e \in x.edges : {e.source, e.target} \subseteq {n.id : n \in x.nodes}
Downward(x) == \A e \in x.edges : \A m \in Macs : e.source # Client(m)
Sound(x) == Closed(x) /\ Downward(x) /\ x.infra \subseteq Macs

(* What a reader of one exposition may rely on besides.                    *)
Keyed(x) == \A n, o \in x.nodes : n.id = o.id => n = o
Purged(r, x) == \A m \in OwnMacs[r] : Client(m) \notin {n.id : n \in x.nodes}

Boards == board = [r \in Routers |-> board[r]]
IInv ==
  /\ Boards
  /\ \A r \in Routers :
       Sound(board[r]) /\ Keyed(board[r]) /\ Purged(r, board[r])

--------------------------------------------------------------------------------

LEMMA IdsOfNodes ==
  ASSUME NEW r, NEW f, NEW at
  PROVE  {n.id : n \in Nodes(r, f, at)} = NodeIds(r, f, at)
<1> DEFINE node(id) == [id |-> id, router |-> r,
                        first |-> IsGateway(r, f) \/ id \in RadioNodes(r, f)]
<1>1. Nodes(r, f, at) = {node(id) : id \in NodeIds(r, f, at)}
  BY DEF Nodes
<1>2. \A id : node(id).id = id
  OBVIOUS
<1> HIDE DEF node
<1> QED
  BY <1>1, <1>2

(* No edge starts at a client: uplinks, radios and ports start at boxes,   *)
(* associations at a radio, wired links at a port or a box.                *)
LEMMA SourcesAreBoxes ==
  ASSUME NEW r, NEW f, NEW at, NEW e \in Edges(r, f, at), NEW m
  PROVE  e.source # Client(m)
<1>1. RouterId(r, f) # Client(m)
  BY DEF RouterId, Client
<1>2. CASE e \in Uplinks(r, f)
  BY <1>1, <1>2 DEF Uplinks, Edge, Client
<1>3. CASE e \in RadioEdges(r, f)
  BY <1>1, <1>3 DEF RadioEdges, Edge, Client
<1>4. CASE e \in PortEdges(r, f)
  BY <1>1, <1>4 DEF PortEdges, Edge
<1>5. CASE e \in AssocEdges(r, f, at)
  BY <1>5 DEF AssocEdges, Edge, Client
<1>6. CASE e \in LanEdges(r, f, at)
  BY <1>1, <1>6 DEF LanEdges, LanEdge, Edge, Client
<1> QED
  BY <1>2, <1>3, <1>4, <1>5, <1>6 DEF Edges

LEMMA ExpositionIsSound ==
  ASSUME NEW r \in Routers, NEW f, NEW at
  PROVE  Sound(Exposition(r, f, at))
<1> DEFINE x == Exposition(r, f, at)
<1>1. x.nodes = Nodes(r, f, at) /\ x.edges = Edges(r, f, at) /\ x.infra = OwnMacs[r]
  BY DEF Exposition
<1>2. Closed(x)
  BY <1>1, IdsOfNodes DEF Closed, Edges
<1>3. Downward(x)
  BY <1>1, SourcesAreBoxes DEF Downward
<1>4. x.infra \subseteq Macs
  BY <1>1, TopologyAssumption
<1> QED
  BY <1>2, <1>3, <1>4 DEF Sound

(* A node's id determines the node.                                        *)
LEMMA ExpositionIsKeyed ==
  ASSUME NEW r, NEW f, NEW at
  PROVE  Keyed(Exposition(r, f, at))
BY DEF Keyed, Exposition, Nodes

(* The box's own interfaces are no clients of its.                         *)
LEMMA ExpositionIsPurged ==
  ASSUME NEW r \in Routers, NEW f, NEW at
  PROVE  Purged(r, Exposition(r, f, at))
<1> SUFFICES ASSUME NEW m \in OwnMacs[r]
             PROVE  Client(m) \notin NodeIds(r, f, at)
  BY IdsOfNodes DEF Purged, Exposition
<1>1. Client(m) \notin RadioNodes(r, f)
  BY DEF Client, RadioNodes
<1>2. Client(m) # RouterId(r, f)
  BY DEF Client, RouterId
<1>3. \A n \in Clients(r, f, at) : Client(m) # Client(n)
  BY DEF Clients, Client
<1>4. Client(m) \notin GatewayNodes(r, f)
  BY DEF Client, GatewayNodes
<1> QED
  BY <1>1, <1>2, <1>3, <1>4 DEF NodeIds, StandIns

LEMMA BlankIsGood ==
  ASSUME NEW r \in Routers
  PROVE  Sound(Blank) /\ Keyed(Blank) /\ Purged(r, Blank)
BY DEF Sound, Closed, Downward, Keyed, Purged, Blank

(* Preferring first-hand series keeps every id.                            *)
LEMMA AuthorityKeepsIds ==
  ASSUME NEW series, NEW s \in series
  PROVE  \E t \in PreferAuthority(series) : t.id = s.id
<1>1. CASE s \in PreferAuthority(series)
  BY <1>1
<1>2. CASE s \notin PreferAuthority(series)
  <2>1. PICK t \in series : t.first /\ t.id = s.id
    BY <1>2 DEF PreferAuthority
  <2>2. t \in PreferAuthority(series)
    BY <2>1 DEF PreferAuthority
  <2> QED
    BY <2>1, <2>2
<1> QED
  BY <1>1, <1>2

--------------------------------------------------------------------------------

(* Every exposition on the board is sound, keyed and purged, whatever is scraped or missed.  *)
THEOREM ExpositionsAreSound == Spec => []IInv
<1>1. Init => IInv
  BY BlankIsGood DEF Init, IInv, Boards
<1>2. IInv /\ [Next]_vars => IInv'
  <2> SUFFICES ASSUME IInv, [Next]_vars
               PROVE  IInv'
    OBVIOUS
  <2>1. ASSUME NEW r \in Routers, NEW f, NEW at, Scraped(r, f, at)
        PROVE  IInv'
    BY <2>1, ExpositionIsSound, ExpositionIsKeyed, ExpositionIsPurged DEF IInv, Boards, Scraped
  <2>2. ASSUME NEW r \in Routers, Missed(r)
        PROVE  IInv'
    BY <2>2, BlankIsGood DEF IInv, Boards, Missed
  <2>3. ASSUME NEW m, NEW b, Joins(m, b) \/ Leaves(m, b)
        PROVE  IInv'
    BY <2>3 DEF IInv, Boards, Joins, Leaves
  <2>4. CASE UNCHANGED vars
    BY <2>4 DEF IInv, Boards, vars
  <2> QED
    BY <2>1, <2>2, <2>3, <2>4 DEF Next
<1> QED
  BY <1>1, <1>2, PTL DEF Spec

(* The type invariant, with what it says of every single exposition: a     *)
(* graph of its own, every id once, none of the box's own MACs.            *)
THEOREM TypeCorrect == Spec => []TypeOK
<1> DEFINE T == assoc \in [Radios -> SUBSET Stations] /\ posing \subseteq Routers \ Gateways
              /\ read \cup settled \subseteq Radios
<1>1. Init => T
  BY DEF Init
<1>2. T /\ [Next]_vars => T'
  <2> SUFFICES ASSUME T, [Next]_vars
               PROVE  T'
    OBVIOUS
  <2>1. ASSUME NEW r \in Routers, NEW f \in Findings(r), NEW at, Scraped(r, f, at)
        PROVE  T'
    <3>1. f.ok \subseteq Own(r)
      BY <2>1 DEF Findings
    <3> QED
      BY <2>1, <3>1 DEF Scraped, Own
  <2>2. ASSUME NEW r \in Routers, Missed(r)
        PROVE  T'
    BY <2>2 DEF Missed, Own
  <2>3. ASSUME NEW m \in Stations, NEW b \in Radios, Joins(m, b) \/ Leaves(m, b)
        PROVE  T'
    BY <2>3 DEF Joins, Leaves
  <2>4. CASE UNCHANGED vars
    BY <2>4 DEF vars
  <2> QED
    BY <2>1, <2>2, <2>3, <2>4 DEF Next
<1>3. T /\ IInv => TypeOK
  BY DEF IInv, Sound, Closed, Keyed, Purged, TypeOK, Ids
<1> QED
  BY <1>1, <1>2, <1>3, ExpositionsAreSound, PTL DEF Spec

(* Whichever routers are selected and however old their expositions are,   *)
(* both ends of every edge that the dashboard's queries leave are nodes    *)
(* that its queries leave.                                                 *)
THEOREM NoEdgeDangles == Spec => []NoDanglingEdge
<1>1. IInv => NoDanglingEdge
  <2> SUFFICES ASSUME IInv, NEW view \in SUBSET Routers,
                      NEW e \in RenderedEdges(board, view),
                      NEW id \in {e.source, e.target}
               PROVE  id \in {n.id : n \in RenderedNodes(board, view)}
    BY DEF NoDanglingEdge
  <2>1. PICK r \in view : e \in board[r].edges
    BY DEF RenderedEdges, PreferAuthority, EdgeSeries
  <2>2. Sound(board[r])
    BY <2>1 DEF IInv
  <2>3. PICK n \in board[r].nodes : n.id = id
    BY <2>1, <2>2 DEF Sound, Closed
  <2>4. n \in NodeSeries(board, view)
    BY <2>1, <2>3 DEF NodeSeries
  <2>5. PICK t \in PreferAuthority(NodeSeries(board, view)) : t.id = id
    BY <2>3, <2>4, AuthorityKeepsIds
  <2>6. InfraMacs(board, view) \subseteq Macs
    BY DEF InfraMacs, IInv, Sound
  <2>7. \A m \in InfraMacs(board, view) : e.source # Client(m)
    BY <2>1, <2>2, <2>6 DEF Sound, Downward
  <2>8. \A m \in InfraMacs(board, view) : e.target # Client(m)
    BY DEF RenderedEdges
  <2>9. t \in RenderedNodes(board, view)
    BY <2>5, <2>7, <2>8 DEF RenderedNodes
  <2> QED
    BY <2>5, <2>9
<1> QED
  BY <1>1, ExpositionsAreSound, PTL

--------------------------------------------------------------------------------
(* A network with one gateway.                                             *)

OneGateway == Gateways = {NextHop}

LEMMA GatewaysNameThemselves ==
  ASSUME NEW r \in Routers, NEW f \in Findings(r), IsGateway(r, f)
  PROVE  RouterId(r, f) \in {<<"router", r>>, <<"named", r>>, <<"upstream", r>>}
BY DEF Findings, IsGateway, detect_role, RouterId

(* What box r may claim to have seen itself.                               *)
Shared(id) == id[1] \in {"internet", "client"}
MayClaim(r, id) ==
  \/ id = <<"ap", r>>
  \/ \E b \in Own(r) : id = <<"bss", b>>
  \/ /\ r \in Gateways \cup posing
     /\ Shared(id) \/ id \in {<<kind, r>> : kind \in {"modem", "port", "router", "named", "upstream"}}

ClaimsAreOwn ==
  /\ Boards
  /\ \A r \in Routers : \A n \in board[r].nodes : n.first => MayClaim(r, n.id)

LEMMA ScrapeClaims ==
  ASSUME NEW r \in Routers, NEW f \in Findings(r), NEW at,
         Scraped(r, f, at), NEW n \in Nodes(r, f, at), n.first
  PROVE  MayClaim(r, n.id)'
<1>1. PICK id \in NodeIds(r, f, at) :
        n = [id |-> id, router |-> r, first |-> IsGateway(r, f) \/ id \in RadioNodes(r, f)]
  BY DEF Nodes
<1>2. n.id = id /\ (IsGateway(r, f) \/ id \in RadioNodes(r, f))
  BY <1>1
<1>3. CASE id \in RadioNodes(r, f)
  BY <1>2, <1>3 DEF RadioNodes, MayClaim, Own
<1>4. CASE id \notin RadioNodes(r, f)
  <2>1. r \in Gateways \cup posing'
    BY <1>2, <1>4 DEF Scraped
  <2>2. id \in StandIns(r, f, at) \/ id \in GatewayNodes(r, f)
    BY <1>4 DEF NodeIds
  <2>3. Shared(id) \/ id \in {<<kind, r>> : kind \in {"modem", "port", "router", "named", "upstream"}}
    <3>1. CASE id = RouterId(r, f)
      BY <1>2, <1>4, <3>1, GatewaysNameThemselves
    <3>2. CASE \E m : id = Client(m)
      BY <3>2 DEF Client, Shared
    <3>3. CASE id \in GatewayNodes(r, f)
      BY <3>3 DEF GatewayNodes, Shared
    <3> QED
      BY <2>2, <3>1, <3>2, <3>3 DEF StandIns
  <2> QED
    BY <1>2, <2>1, <2>3 DEF MayClaim, Shared
<1> QED
  BY <1>3, <1>4

(* In a network with one gateway, whatever cannot be read, no two boxes    *)
(* claim the same node, but for the internet and the clients that a box    *)
(* claims which could not find out that it is none.                        *)
THEOREM NoNodeCollides ==
  ASSUME OneGateway
  PROVE  Spec => []NoCollidingNodes
<1>1. Init => ClaimsAreOwn
  BY DEF Init, ClaimsAreOwn, Boards, Blank
<1>2. ClaimsAreOwn /\ [Next]_vars => ClaimsAreOwn'
  <2> SUFFICES ASSUME ClaimsAreOwn, [Next]_vars
               PROVE  ClaimsAreOwn'
    OBVIOUS
  <2>1. ASSUME NEW r \in Routers, NEW f \in Findings(r), NEW at, Scraped(r, f, at)
        PROVE  ClaimsAreOwn'
    <3>1. board' = [board EXCEPT ![r] = Exposition(r, f, at)]
      BY <2>1 DEF Scraped
    <3>2. Exposition(r, f, at).nodes = Nodes(r, f, at)
      BY DEF Exposition
    <3>3. ASSUME NEW q \in Routers, q # r, NEW id, MayClaim(q, id)
          PROVE  MayClaim(q, id)'
      BY <2>1, <3>3 DEF Scraped, MayClaim, Shared, Own
    <3> QED
      BY <2>1, <3>1, <3>2, <3>3, ScrapeClaims DEF ClaimsAreOwn, Boards
  <2>2. ASSUME NEW r \in Routers, Missed(r)
        PROVE  ClaimsAreOwn'
    <3>1. board' = [board EXCEPT ![r] = Blank]
      BY <2>2 DEF Missed
    <3>2. ASSUME NEW q \in Routers, q # r, NEW id, MayClaim(q, id)
          PROVE  MayClaim(q, id)'
      BY <2>2, <3>2 DEF Missed, MayClaim, Shared, Own
    <3> QED
      BY <3>1, <3>2 DEF ClaimsAreOwn, Boards, Blank
  <2>3. CASE UNCHANGED <<board, posing>>
    BY <2>3 DEF ClaimsAreOwn, Boards, MayClaim, Shared, Own
  <2> QED
    BY <2>1, <2>2, <2>3 DEF Next, Joins, Leaves, vars
<1>3. ClaimsAreOwn => NoCollidingNodes
  <2> SUFFICES ASSUME ClaimsAreOwn, NEW r \in Routers, NEW q \in Routers,
                      NEW n \in board[r].nodes, NEW o \in board[q].nodes,
                      n.first, o.first, n.id = o.id, r # q
               PROVE  {r, q} \cap posing # {} /\ n.id[1] \in {"internet", "client"}
    BY DEF NoCollidingNodes
  <2>1. MayClaim(r, n.id) /\ MayClaim(q, n.id)
    BY DEF ClaimsAreOwn
  <2>2. ~(r \in Gateways /\ q \in Gateways)
    BY DEF OneGateway
  <2>3. \A b \in Own(r), c \in Own(q) : b # c
    BY DEF Own
  <2>4. Shared(n.id) /\ r \in Gateways \cup posing /\ q \in Gateways \cup posing
    BY <2>1, <2>3 DEF MayClaim, Shared
  <2> QED
    BY <2>2, <2>4 DEF Shared
<1> QED
  BY <1>1, <1>2, <1>3, PTL DEF Spec

--------------------------------------------------------------------------------
(* Where a client is drawn.                                                *)

(* What read and settled say of the exposition of box r: its table of      *)
(* stations has every station of a list that was read and has not changed, *)
(* and none that such a list does not name.                                *)
Shows(r, f, at) ==
  /\ board[r] = Exposition(r, f, at)
  /\ IsGateway(r, f) => r \in Gateways \cup posing
  /\ read \cap Own(r) \subseteq f.ok
  /\ \A b \in read \cap settled \cap Own(r) : \A m \in assoc[b] : m \in DOMAIN at
  /\ \A m \in DOMAIN at : at[m] \in Own(r) /\ (at[m] \in settled => m \in assoc[at[m]])

Silent(r) == board[r] = Blank /\ read \cap Own(r) = {}

ShownInv ==
  /\ Boards
  /\ assoc \in [Radios -> SUBSET Stations] /\ read \subseteq Radios
  /\ \A r \in Routers : Silent(r) \/ \E f \in Findings(r) : \E at : Shows(r, f, at)

LEMMA ScrapeShows ==
  ASSUME Boards, NEW r \in Routers, NEW f \in Findings(r), NEW at \in Lists(f.ok), Scraped(r, f, at)
  PROVE  Shows(r, f, at)'
<1>1. f.ok \subseteq Own(r)
  BY DEF Findings
<1>2. board'[r] = Exposition(r, f, at) /\ assoc' = assoc
  BY DEF Scraped, Boards
<1>3. IsGateway(r, f) => r \in Gateways \cup posing'
  BY DEF Scraped
<1>4. read' \cap Own(r) \subseteq f.ok
  BY DEF Scraped
<1>5. ASSUME NEW b \in f.ok, NEW m \in assoc[b] PROVE m \in DOMAIN at
  BY DEF Lists
<1>6. ASSUME NEW m \in DOMAIN at PROVE at[m] \in Own(r) /\ m \in assoc[at[m]]
  BY <1>1 DEF Lists
<1> QED
  BY <1>2, <1>3, <1>4, <1>5, <1>6 DEF Shows, Own, Exposition, Nodes, Edges

(* What other boxes and their radios do changes nothing.                   *)
LEMMA OthersShow ==
  ASSUME NEW q, board'[q] = board[q], q \in posing' <=> q \in posing,
         read' \cap Own(q) \subseteq read,
         settled' \cap Own(q) \subseteq settled,
         \A b \in settled' \cap Own(q) : assoc'[b] = assoc[b]
  PROVE  /\ Silent(q) => Silent(q)'
         /\ \A f, at : Shows(q, f, at) => Shows(q, f, at)'
<1>1. Silent(q) => Silent(q)'
  BY DEF Silent, Own
<1>2. ASSUME NEW f, NEW at, Shows(q, f, at)
      PROVE  Shows(q, f, at)'
  <2>1. board'[q] = Exposition(q, f, at)
    BY <1>2 DEF Shows
  <2>2. IsGateway(q, f) => q \in Gateways \cup posing'
    BY <1>2 DEF Shows
  <2>3. read' \cap Own(q) \subseteq f.ok
    BY <1>2 DEF Shows
  <2>4. \A b \in read' \cap settled' \cap Own(q) : \A m \in assoc'[b] : m \in DOMAIN at
    BY <1>2 DEF Shows
  <2>5. \A m \in DOMAIN at : at[m] \in Own(q) /\ (at[m] \in settled' => m \in assoc'[at[m]])
    BY <1>2 DEF Shows
  <2> QED
    BY <2>1, <2>2, <2>3, <2>4, <2>5 DEF Shows, Own, Exposition, Nodes, Edges
<1> QED
  BY <1>1, <1>2

LEMMA NextShownInv == ShownInv /\ [Next]_vars => ShownInv'
<1> SUFFICES ASSUME ShownInv, [Next]_vars
             PROVE  ShownInv'
  OBVIOUS
<1> DEFINE Good(q) == Silent(q) \/ \E f \in Findings(q) : \E at : Shows(q, f, at)
<1>f. ASSUME NEW q \in Routers, Good(q), Silent(q) => Silent(q)',
             \A f, at : Shows(q, f, at) => Shows(q, f, at)'
      PROVE  Good(q)'
  BY <1>f DEF Findings, Own
<1>r. (read \subseteq Radios)'
  BY DEF ShownInv, Next, Scraped, Missed, Joins, Leaves, Findings, Own, vars
<1>1. ASSUME NEW r \in Routers, NEW f \in Findings(r), NEW at \in Lists(f.ok),
             Scraped(r, f, at)
      PROVE  ShownInv'
  <2>1. Boards' /\ assoc' = assoc /\ \A q \in Routers : q # r => board'[q] = board[q]
    BY <1>1 DEF Scraped, ShownInv, Boards
  <2>2. Good(r)'
    <3>1. Shows(r, f, at)'
      BY <1>1, ScrapeShows DEF ShownInv
    <3>2. Findings(r)' = Findings(r)
      BY DEF Findings, Own
    <3> QED
      BY <3>1, <3>2
  <2>3. ASSUME NEW q \in Routers, q # r PROVE Good(q)'
    <3>1. Own(q) \cap Own(r) = {} /\ f.ok \subseteq Own(r)
      BY <2>3 DEF Own, Findings
    <3>2. /\ q \in posing' <=> q \in posing
          /\ read' \cap Own(q) \subseteq read
          /\ settled' \cap Own(q) \subseteq settled
      BY <1>1, <2>3, <3>1 DEF Scraped
    <3> QED
      BY <1>f, <2>1, <2>3, <3>2, OthersShow DEF ShownInv
  <2> QED
    BY <1>r, <2>1, <2>2, <2>3 DEF ShownInv
<1>2. ASSUME NEW r \in Routers, Missed(r)
      PROVE  ShownInv'
  <2>1. Boards' /\ assoc' = assoc /\ \A q \in Routers : q # r => board'[q] = board[q]
    BY <1>2 DEF Missed, ShownInv, Boards
  <2>2. Silent(r)'
    BY <1>2 DEF Missed, ShownInv, Boards, Silent, Own
  <2>3. ASSUME NEW q \in Routers, q # r PROVE Good(q)'
    <3>1. Own(q) \cap Own(r) = {}
      BY <2>3 DEF Own
    <3>2. /\ q \in posing' <=> q \in posing
          /\ read' \cap Own(q) \subseteq read
          /\ settled' \cap Own(q) \subseteq settled
      BY <1>2, <2>3, <3>1 DEF Missed
    <3> QED
      BY <1>f, <2>1, <2>3, <3>2, OthersShow DEF ShownInv
  <2> QED
    BY <1>r, <2>1, <2>2, <2>3 DEF ShownInv
<1>3. ASSUME NEW m \in Stations, NEW b \in Radios, Joins(m, b) \/ Leaves(m, b)
      PROVE  ShownInv'
  <2>1. /\ settled' = settled \ {b} /\ UNCHANGED <<board, posing, read>>
        /\ \E s \in SUBSET Stations : assoc' = [assoc EXCEPT ![b] = s]
    BY <1>3 DEF Joins, Leaves, ShownInv
  <2>2. /\ assoc' \in [Radios -> SUBSET Stations]
        /\ \A c \in Radios : c # b => assoc'[c] = assoc[c]
    BY <2>1 DEF ShownInv
  <2>3. ASSUME NEW q \in Routers PROVE Good(q)'
    <3>1. \A c \in settled' \cap Own(q) : assoc'[c] = assoc[c]
      BY <2>1, <2>2 DEF Own
    <3> QED
      BY <1>f, <2>1, <2>3, <3>1, OthersShow DEF ShownInv
  <2> QED
    BY <2>1, <2>2, <2>3 DEF ShownInv, Boards
<1>4. CASE UNCHANGED vars
  <2>1. ASSUME NEW q \in Routers PROVE Good(q)'
    BY <1>f, <1>4, OthersShow DEF vars, ShownInv
  <2> QED
    BY <1>4, <2>1 DEF vars, ShownInv, Boards
<1> QED
  BY <1>1, <1>2, <1>3, <1>4 DEF Next

LEMMA InitShownInv == Init => ShownInv
BY DEF Init, ShownInv, Boards, Silent

(* An edge to a client is an association or a wired guess.                 *)
LEMMA ClientEdges ==
  ASSUME NEW r, NEW f, NEW at, NEW m, NEW e \in Edges(r, f, at), e.target = Client(m)
  PROVE  \/ m \in DOMAIN at /\ e.source = <<"bss", at[m]>>
         \/ /\ e.id = Lan(m) /\ e.source[1] # "bss"
            /\ IsGateway(r, f) /\ m \notin DOMAIN at
<1>1. CASE e \in AssocEdges(r, f, at)
  <2>1. PICK n \in Clients(r, f, at) \cap DOMAIN at :
          e = Edge(r, Assoc(n), <<"bss", at[n]>>, Client(n))
    BY <1>1 DEF AssocEdges
  <2>2. e.source = <<"bss", at[n]>> /\ n = m
    BY <2>1 DEF Edge, Client
  <2> QED
    BY <2>1, <2>2
<1>2. CASE e \in LanEdges(r, f, at)
  <2>1. IsGateway(r, f)
    BY <1>2 DEF LanEdges
  <2>2. PICK n \in Clients(r, f, at) \ DOMAIN at : e = LanEdge(r, f, n)
    BY <1>2 DEF LanEdges
  <2>3. n = m /\ e.id = Lan(n) /\ e.source[1] # "bss"
    BY <2>2 DEF LanEdge, Edge, Client, RouterId
  <2> QED
    BY <2>1, <2>2, <2>3
<1>3. e \notin Uplinks(r, f)
  BY DEF Uplinks, Edge, Client, RouterId
<1>4. e \notin RadioEdges(r, f)
  BY DEF RadioEdges, Edge, Client
<1>5. e \notin PortEdges(r, f)
  BY DEF PortEdges, Edge, Client
<1> QED
  BY <1>1, <1>2, <1>3, <1>4, <1>5 DEF Edges

(* An access point draws the stations in its table.                        *)
LEMMA AccessPointsDrawStations ==
  ASSUME NEW q \in Routers, NEW g \in Findings(q), ~IsGateway(q, g), g.ok # {},
         NEW to, NEW m \in DOMAIN to, to[m] \in Own(q), m \notin OwnMacs[q]
  PROVE  \E a \in Edges(q, g, to) : a.id = Assoc(m)
<1>1. m \in Clients(q, g, to)
  BY DEF Clients, KnownModem, HasModem
<1> DEFINE a == Edge(q, Assoc(m), <<"bss", to[m]>>, Client(m))
<1>2. a \in AssocEdges(q, g, to)
  BY <1>1 DEF AssocEdges
<1>3. g.wifi
  BY DEF Findings
<1>4. a.source \in NodeIds(q, g, to)
  BY <1>3 DEF Edge, NodeIds, RadioNodes
<1>5. a.target \in NodeIds(q, g, to)
  BY <1>1 DEF Edge, NodeIds, StandIns
<1>6. a \in Edges(q, g, to)
  BY <1>2, <1>4, <1>5 DEF Edges
<1>7. a.id = Assoc(m)
  BY DEF Edge
<1> QED
  BY <1>6, <1>7

(* Once every list has been read since it last changed and no box poses as *)
(* a gateway, a network with one gateway is drawn with each client on the  *)
(* radio it is on.                                                         *)
THEOREM ClientsFound ==
  ASSUME OneGateway
  PROVE  Spec => []ClientsAreWhereTheyAre
<1>1. ShownInv => ClientsAreWhereTheyAre
  <2> SUFFICES ASSUME ShownInv, read \cap settled = Radios, posing = {},
                      NEW m \in Macs \ InfraMacs(board, Routers),
                      NEW d \in RenderedEdges(board, Routers), d.target = Client(m)
               PROVE  LET on == {b \in Radios : m \in assoc[b]}
                      IN  /\ Cardinality(on) = 1 => d.source \in {<<"bss", b>> : b \in on}
                          /\ on = {} => d.source[1] # "bss"
    BY DEF ClientsAreWhereTheyAre
  <2> DEFINE on == {b \in Radios : m \in assoc[b]}
  <2>0. \A q \in Routers : Own(q) \subseteq read \cap settled
    BY DEF Own
  <2>1. PICK r \in Routers : d \in board[r].edges
    BY DEF RenderedEdges, PreferAuthority, EdgeSeries
  <2>s. PICK f \in Findings(r) : \E at : Shows(r, f, at)
    BY <2>1 DEF ShownInv, Silent, Blank
  <2>2. PICK at : Shows(r, f, at)
    BY <2>s
  <2>3. d \in Edges(r, f, at)
    BY <2>1, <2>2 DEF Shows, Exposition
  <2>4. CASE m \in DOMAIN at /\ d.source = <<"bss", at[m]>>
    <3>1. at[m] \in Own(r) /\ m \in assoc[at[m]]
      BY <2>0, <2>2, <2>4 DEF Shows
    <3>2. at[m] \in on
      BY <3>1 DEF Own
    <3> QED
      BY <2>4, <3>2
  <2>5. CASE /\ d.id = Lan(m) /\ d.source[1] # "bss"
             /\ IsGateway(r, f) /\ m \notin DOMAIN at
    <3>1. ASSUME NEW b \in on
          PROVE  FALSE
      <4>1. b \in Radios /\ m \in assoc[b] /\ RouterOf[b] \in Routers
        BY TopologyAssumption
      <4>2. PICK q \in Routers : q = RouterOf[b]
        BY <4>1
      <4>3. b \in Own(q)
        BY <4>1, <4>2 DEF Own
      <4>4. q # r
        BY <2>0, <2>2, <2>5, <4>1, <4>3 DEF Shows
      <4>s. PICK g \in Findings(q) : \E to : Shows(q, g, to)
        BY <2>0, <4>3 DEF ShownInv, Silent
      <4>5. PICK to : Shows(q, g, to)
        BY <4>s
      <4>6. ~IsGateway(q, g)
        <5>1. r \in Gateways /\ (IsGateway(q, g) => q \in Gateways)
          BY <2>2, <2>5, <4>5 DEF Shows
        <5> QED
          BY <4>4, <5>1 DEF OneGateway
      <4>7. m \notin OwnMacs[q]
        BY <4>5 DEF InfraMacs, Shows, Exposition
      <4>8. g.ok # {} /\ m \in DOMAIN to /\ to[m] \in Own(q)
        BY <2>0, <4>1, <4>3, <4>5 DEF Shows
      <4>9. PICK a \in Edges(q, g, to) : a.id = Assoc(m)
        BY <4>6, <4>7, <4>8, AccessPointsDrawStations
      <4>10. a \in EdgeSeries(board, Routers)
        BY <4>5, <4>9 DEF EdgeSeries, Shows, Exposition
      <4>11. a.id[1] = "assoc" /\ d.id = Lan(a.id[2])
        BY <2>5, <4>9 DEF Assoc
      <4> QED
        BY <4>10, <4>11 DEF RenderedEdges
    <3>2. Cardinality(on) # 1
      BY <3>1, FS_EmptySet
    <3> QED
      BY <2>5, <3>2
  <2> QED
    BY <2>3, <2>4, <2>5, ClientEdges
<1> QED
  BY <1>1, InitShownInv, NextShownInv, PTL DEF Spec

(* Only a wired guess has the id of one.                                   *)
LEMMA LanIds ==
  ASSUME NEW r, NEW f, NEW at, NEW m, NEW e \in Edges(r, f, at), e.id = Lan(m)
  PROVE  f.ok # {} /\ m \notin DOMAIN at
<1>1. CASE e \in LanEdges(r, f, at)
  <2>1. f.ok # {}
    BY <1>1 DEF LanEdges
  <2>2. PICK n \in Clients(r, f, at) \ DOMAIN at : e = LanEdge(r, f, n)
    BY <1>1 DEF LanEdges
  <2>3. n = m
    BY <2>2 DEF LanEdge, Edge, Lan
  <2> QED
    BY <2>1, <2>2, <2>3
<1>2. e \notin AssocEdges(r, f, at)
  BY DEF AssocEdges, Edge, Assoc, Lan
<1>3. e \notin Uplinks(r, f)
  BY DEF Uplinks, Edge, Lan
<1>4. e \notin RadioEdges(r, f)
  BY DEF RadioEdges, Edge, Lan
<1>5. e \notin PortEdges(r, f)
  BY DEF PortEdges, Edge, Lan
<1> QED
  BY <1>1, <1>2, <1>3, <1>4, <1>5 DEF Edges

(* Whatever roles, other lists and routes could not be read, a station     *)
(* whose list was read and has not changed since is linked by no           *)
(* exposition of its box like a wired host.                                *)
THEOREM StationsAreNotWired == Spec => []GuessesOnlyUnread
<1>1. ShownInv => GuessesOnlyUnread
  <2> SUFFICES ASSUME ShownInv, NEW b \in read \cap settled, NEW m \in assoc[b],
                      NEW e \in board[RouterOf[b]].edges, e.id = Lan(m)
               PROVE  FALSE
    BY DEF GuessesOnlyUnread, NotWired
  <2>1. PICK r \in Routers : r = RouterOf[b] /\ b \in Own(r)
    BY TopologyAssumption DEF Own, ShownInv
  <2>s. PICK f \in Findings(r) : \E at : Shows(r, f, at)
    BY <2>1 DEF ShownInv, Silent
  <2>2. PICK at : Shows(r, f, at)
    BY <2>s
  <2>3. m \in DOMAIN at /\ e \in Edges(r, f, at)
    BY <2>1, <2>2 DEF Shows, Exposition
  <2> QED
    BY <2>3, LanIds
<1> QED
  BY <1>1, InitShownInv, NextShownInv, PTL DEF Spec

================================================================================
