--------------------------- MODULE DashboardBuild ---------------------------
(***************************************************************************)
(* The dashboard generators of scripts/: their sources are edited, a run   *)
(* builds its dashboards, validates them and writes every copy in turn,    *)
(* and Grafana re-reads the provisioned copies.  A run can be cut short at *)
(* any point, and a copy is truncated before it is written.                *)
(*                                                                         *)
(* Drafts are the versions of the generators' sources; Layouts gives the   *)
(* tabs that each makes of a dashboard.                                    *)
(***************************************************************************)
EXTENDS PanelGrid, FiniteSets

CONSTANTS Generators,
          Copies,       \* what a run writes: per generator, a sequence of <<dashboard, directory>>
          V2,           \* generators of v2 dashboards, which validate
          Titles,       \* per dashboard, the tabs its validator expects
          Budget,       \* per dashboard, the numbers of panels its validator accepts
          Drafts, Committed,
          Layouts,      \* per dashboard and draft, a sequence of tabs
          Provisioned,  \* the directory that Grafana reads
          Profiles,     \* what setup.sh can be asked to install
          MaxEdits,     \* bound: edits of the generators
          MaxCuts       \* bound: runs cut short

CopiesOf(g) == {Copies[g][i] : i \in DOMAIN Copies[g]}
Files == UNION {CopiesOf(g) : g \in Generators}
Dashboards == {f[1] : f \in Files}
DashboardsOf(g) == {f[1] : f \in CopiesOf(g)}

Torn == "torn"          \* cut between two characters: not JSON
Garbled == "garbled"    \* cut within a character: not even UTF-8
NoRun == [gen |-> "none"]

Place == [id : Nat, x : Int, y : Int, w : Int, h : Int,
          reads : SUBSET STRING, needs : SUBSET STRING, rest : STRING]

ASSUME DraftAssumption == Committed \in Drafts /\ Drafts \cap {Torn, Garbled} = {}
ASSUME GeneratorAssumption == V2 \subseteq Generators /\ NoRun.gen \notin Generators
ASSUME CopiesAssumption ==
    /\ \A g \in Generators : Copies[g] \in Seq(Files) /\ Copies[g] # <<>>
    /\ \A g \in Generators : \A i, j \in DOMAIN Copies[g] : Copies[g][i] = Copies[g][j] => i = j
    /\ \A g, h \in Generators : g # h => DashboardsOf(g) \cap DashboardsOf(h) = {}
ASSUME LayoutAssumption ==
    \A d \in Dashboards, v \in Drafts : \A t \in DOMAIN Layouts[d][v] :
        Layouts[d][v][t].panels \in Seq(Place)
ASSUME BoundAssumption == MaxEdits \in Nat /\ MaxCuts \in Nat

-----------------------------------------------------------------------------
(* What the generators check *)

\* <<tab, position>> of every panel of a layout.
Slots(layout) == UNION {{t} \X DOMAIN layout[t].panels : t \in DOMAIN layout}
At(layout, s) == layout[s[1]].panels[s[2]]

\* DashboardBuilder.add and validate_dashboard
Valid(d, layout) ==
    /\ [t \in DOMAIN layout |-> layout[t].title] = Titles[d]
    /\ Cardinality(Slots(layout)) \in Budget[d]
    /\ \A s, u \in Slots(layout) : At(layout, s).id = At(layout, u).id => s = u
    /\ \A s \in Slots(layout) : Fits(At(layout, s))
    /\ \A s, u \in Slots(layout) :
        s[1] = u[1] /\ s[2] # u[2] => ~Overlap(At(layout, s), At(layout, u))

\* make_dashboard of the classic generator
ClassicValid(layout) ==
    \A s \in Slots(layout) : At(layout, s).x + At(layout, s).w <= Columns

Passing(g) ==
    {v \in Drafts : \A d \in DashboardsOf(g) :
        IF g \in V2 THEN Valid(d, Layouts[d][v]) ELSE ClassicValid(Layouts[d][v])}

PassingDrafts == [g \in Generators |-> Passing(g)]

ASSUME CommittedAssumption == \A g \in V2 : Committed \in PassingDrafts[g]

-----------------------------------------------------------------------------
VARIABLES
    source,     \* per generator: the draft in scripts/
    run,        \* the generator that runs, its draft, the copy it is at, whether that is open
    file,       \* the copies
    shown,      \* per dashboard: what Grafana has loaded
    installed,  \* profiles installed on the router
    edits, cuts,
    short       \* history: generators whose last run that wrote anything was cut short

vars == <<source, run, file, shown, installed, edits, cuts, short>>

Target == Copies[run.gen][run.next]
Read(d) == <<d, Provisioned>>
Provided == {d \in Dashboards : Read(d) \in Files}

Init ==
    /\ source = [g \in Generators |-> Committed]
    /\ run = NoRun
    /\ file = [f \in Files |-> Committed]
    /\ shown = [d \in Provided |-> Committed]
    /\ installed = {"core"}
    /\ edits = 0
    /\ cuts = 0
    /\ short = {}

Edits(g, v) ==
    /\ edits < MaxEdits
    /\ source' = [source EXCEPT ![g] = v]
    /\ edits' = edits + 1
    /\ UNCHANGED <<run, file, shown, installed, cuts, short>>

\* A draft that does not pass ends the run before anything is written.
Begins(g) ==
    /\ run = NoRun
    /\ source[g] \in PassingDrafts[g]
    /\ run' = [gen |-> g, draft |-> source[g], next |-> 1, open |-> FALSE]
    /\ UNCHANGED <<source, file, shown, installed, edits, cuts, short>>

\* main of a v2 generator decodes the old copy first, and dies if it cannot.
Opens ==
    /\ run # NoRun /\ ~run.open
    /\ IF run.gen \in V2 /\ file[Target] = Garbled
       THEN /\ run' = NoRun
            /\ short' = short \cup {run.gen}
            /\ UNCHANGED file
       ELSE /\ run' = [run EXCEPT !.open = TRUE]
            /\ file' = [file EXCEPT ![Target] = Torn]
            /\ UNCHANGED short
    /\ UNCHANGED <<source, shown, installed, edits, cuts>>

SlipStopEarly ==
    /\ run # NoRun /\ run.open
    /\ file' = [file EXCEPT ![Target] = run.draft]
    /\ run' = NoRun
    /\ short' = short \ {run.gen}
    /\ UNCHANGED <<source, shown, installed, edits, cuts>>

Writes ==
    /\ run # NoRun /\ run.open
    /\ file' = [file EXCEPT ![Target] = run.draft]
    /\ IF run.next = Len(Copies[run.gen])
       THEN run' = NoRun /\ short' = short \ {run.gen}
       ELSE /\ run' = [run EXCEPT !.next = @ + 1, !.open = FALSE]
            /\ UNCHANGED short
    /\ UNCHANGED <<source, shown, installed, edits, cuts>>

\* Interrupted, killed, or out of disk space.  Only the v2 generators write
\* characters of more than one byte.
CutShort ==
    /\ run # NoRun /\ cuts < MaxCuts
    /\ run' = NoRun
    /\ short' = short \cup {run.gen}
    /\ \/ UNCHANGED file
       \/ run.open /\ run.gen \in V2 /\ file' = [file EXCEPT ![Target] = Garbled]
    /\ cuts' = cuts + 1
    /\ UNCHANGED <<source, shown, installed, edits>>

\* Somebody checks a broken copy out again.
Restores(f) ==
    /\ run = NoRun /\ file[f] \in {Torn, Garbled}
    /\ file' = [file EXCEPT ![f] = Committed]
    /\ UNCHANGED <<source, run, shown, installed, edits, cuts, short>>

SlipRefreshBetweenRuns(d) ==
    /\ run = NoRun
    /\ file[Read(d)] \in Drafts /\ shown[d] # file[Read(d)]
    /\ shown' = [shown EXCEPT ![d] = file[Read(d)]]
    /\ UNCHANGED <<source, run, file, installed, edits, cuts, short>>

\* Every 30 seconds; a file that is not JSON leaves the dashboard as it was.
Refreshes(d) ==
    /\ file[Read(d)] \in Drafts /\ shown[d] # file[Read(d)]
    /\ shown' = [shown EXCEPT ![d] = file[Read(d)]]
    /\ UNCHANGED <<source, run, file, installed, edits, cuts, short>>

\* setup.sh is run for these profiles; what an earlier run installed stays.
SetupRuns(profiles) ==
    /\ installed' = installed \cup profiles
    /\ UNCHANGED <<source, run, file, shown, edits, cuts, short>>

Next ==
    \/ \E g \in Generators : Begins(g) \/ \E v \in Drafts : Edits(g, v)
    \/ Opens \/ Writes \/ CutShort
    \/ \E f \in Files : Restores(f)
    \/ \E d \in Provided : Refreshes(d)
    \/ \E profiles \in Profiles : SetupRuns(profiles)

Spec == Init /\ [][Next]_vars

\* Grafana's file provider polls.
FairSpec == Spec /\ \A d \in Provided : WF_vars(Refreshes(d))

-----------------------------------------------------------------------------
(* Properties *)

TypeOK ==
    /\ source \in [Generators -> Drafts]
    /\ \/ run = NoRun
       \/ /\ run \in [gen : Generators, draft : Drafts, next : Nat, open : BOOLEAN]
          /\ run.next \in DOMAIN Copies[run.gen]
    /\ file \in [Files -> Drafts \cup {Torn, Garbled}]
    /\ shown \in [Provided -> Drafts]
    /\ installed \subseteq {"core"} \cup UNION Profiles
    /\ edits \in 0 .. MaxEdits /\ cuts \in 0 .. MaxCuts
    /\ short \subseteq Generators

\* Panels of a layout that lie on the grid, apart from one another, each under
\* an id of its own, in the tabs that the validator knows.
Sound(d, layout) ==
    /\ [t \in DOMAIN layout |-> layout[t].title] = Titles[d]
    /\ \A s \in Slots(layout) :
        /\ Cells(At(layout, s)) # {}
        /\ Cells(At(layout, s)) \subseteq (0 .. Columns - 1) \X Nat
    /\ \A s, u \in Slots(layout) : s # u =>
        /\ At(layout, s).id # At(layout, u).id
        /\ s[1] = u[1] => Cells(At(layout, s)) \cap Cells(At(layout, u)) = {}

SoundDrafts == [d \in Dashboards |-> {v \in Drafts : Sound(d, Layouts[d][v])}]

V2Files == UNION {CopiesOf(g) : g \in V2}

(* Whatever is in scripts/ and wherever runs are cut short, a copy of a v2
   dashboard that can be imported, and what Grafana shows of it, is sound. *)
BoardsAreSound ==
    \A f \in V2Files :
        /\ file[f] \in Drafts => file[f] \in SoundDrafts[f[1]]
        /\ f[1] \in Provided => shown[f[1]] \in SoundDrafts[f[1]]

(* Between runs, the copies of one dashboard are whole and the same unless the
   last run of its generator was cut short. *)
CopiesAgree ==
    \A g \in Generators \ short : run = NoRun \/ run.gen # g =>
        \A e, f \in CopiesOf(g) : file[e] \in Drafts /\ file[e] = file[f]

(* Once the provisioned copy of a dashboard stays readable, Grafana shows it. *)
ShownCatchesUp ==
    \A d \in Provided : <>[](file[Read(d)] \in Drafts) => <>[](shown[d] = file[Read(d)])
=============================================================================
