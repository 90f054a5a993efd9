----------------------- MODULE DashboardBuild_proofs ------------------------
(***************************************************************************)
(* Proofs about the dashboard generators, for any dashboards, drafts,      *)
(* copies and bounds: what is published is sound, and copies agree.        *)
(***************************************************************************)
EXTENDS DashboardBuild, TLAPS

(* The cells of two panels on the grid meet exactly if Overlap says so. *)
LEMMA OverlapIsSharedCell ==
    ASSUME NEW p \in Place, NEW q \in Place, Fits(p), Fits(q)
    PROVE  Overlap(p, q) <=> Cells(p) \cap Cells(q) # {}
<1>1. /\ p.x \in Int /\ p.y \in Int /\ p.w \in Int /\ p.h \in Int
      /\ q.x \in Int /\ q.y \in Int /\ q.w \in Int /\ q.h \in Int
      /\ p.w > 0 /\ p.h > 0 /\ q.w > 0 /\ q.h > 0
  BY DEF Place, Fits
<1>2. ASSUME Overlap(p, q) PROVE Cells(p) \cap Cells(q) # {}
  <2>1. PICK x \in Int : x \in p.x .. (p.x + p.w - 1) /\ x \in q.x .. (q.x + q.w - 1)
    <3>1. CASE p.x <= q.x
      <4>1. q.x \in p.x .. (p.x + p.w - 1) /\ q.x \in q.x .. (q.x + q.w - 1)
        BY <1>1, <1>2, <3>1 DEF Overlap
      <4>2. QED BY <4>1, <1>1
    <3>2. CASE q.x < p.x
      <4>1. p.x \in p.x .. (p.x + p.w - 1) /\ p.x \in q.x .. (q.x + q.w - 1)
        BY <1>1, <1>2, <3>2 DEF Overlap
      <4>2. QED BY <4>1, <1>1
    <3>3. QED BY <3>1, <3>2, <1>1
  <2>2. PICK y \in Int : y \in p.y .. (p.y + p.h - 1) /\ y \in q.y .. (q.y + q.h - 1)
    <3>1. CASE p.y <= q.y
      <4>1. q.y \in p.y .. (p.y + p.h - 1) /\ q.y \in q.y .. (q.y + q.h - 1)
        BY <1>1, <1>2, <3>1 DEF Overlap
      <4>2. QED BY <4>1, <1>1
    <3>2. CASE q.y < p.y
      <4>1. p.y \in p.y .. (p.y + p.h - 1) /\ p.y \in q.y .. (q.y + q.h - 1)
        BY <1>1, <1>2, <3>2 DEF Overlap
      <4>2. QED BY <4>1, <1>1
    <3>3. QED BY <3>1, <3>2, <1>1
  <2>3. <<x, y>> \in Cells(p) /\ <<x, y>> \in Cells(q)
    BY <2>1, <2>2 DEF Cells
  <2>4. QED BY <2>3
<1>3. ASSUME Cells(p) \cap Cells(q) # {} PROVE Overlap(p, q)
  <2>1. PICK c : c \in Cells(p) /\ c \in Cells(q)
    BY <1>3
  <2>2. PICK x \in p.x .. (p.x + p.w - 1), y \in p.y .. (p.y + p.h - 1) : c = <<x, y>>
    BY <2>1 DEF Cells
  <2>3. x \in q.x .. (q.x + q.w - 1) /\ y \in q.y .. (q.y + q.h - 1)
    BY <2>1, <2>2 DEF Cells
  <2>4. QED BY <2>2, <2>3, <1>1 DEF Overlap
<1>4. QED BY <1>2, <1>3

(* A panel that fits covers cells, and only cells of the grid. *)
LEMMA FittingCells ==
    ASSUME NEW p \in Place, Fits(p)
    PROVE  Cells(p) # {} /\ Cells(p) \subseteq (0 .. Columns - 1) \X Nat
<1>1. p.x \in Int /\ p.y \in Int /\ p.w \in Int /\ p.h \in Int
  BY DEF Place
<1>2. <<p.x, p.y>> \in Cells(p)
  BY <1>1 DEF Cells, Fits
<1>3. ASSUME NEW c \in Cells(p) PROVE c \in (0 .. Columns - 1) \X Nat
  <2>1. PICK x \in p.x .. (p.x + p.w - 1), y \in p.y .. (p.y + p.h - 1) : c = <<x, y>>
    BY <1>3 DEF Cells
  <2>2. x \in 0 .. Columns - 1 /\ y \in Nat
    BY <1>1, <2>1 DEF Fits, Columns
  <2>3. QED BY <2>1, <2>2
<1>4. QED BY <1>2, <1>3

(* What validate_dashboard lets through is sound. *)
LEMMA ValidIsSound ==
    ASSUME NEW d \in Dashboards, NEW v \in Drafts, Valid(d, Layouts[d][v])
    PROVE  Sound(d, Layouts[d][v])
<1> DEFINE layout == Layouts[d][v]
<1>1. ASSUME NEW s \in Slots(layout) PROVE At(layout, s) \in Place
  <2>1. PICK t \in DOMAIN layout : s \in {t} \X DOMAIN layout[t].panels
    BY <1>1 DEF Slots
  <2>2. s[1] = t /\ s[2] \in DOMAIN layout[t].panels
    BY <2>1
  <2>3. layout[t].panels \in Seq(Place)
    BY LayoutAssumption
  <2>4. layout[t].panels[s[2]] \in Place
    BY <2>2, <2>3
  <2>5. QED BY <2>2, <2>4 DEF At
<1>2. ASSUME NEW s \in Slots(layout)
      PROVE  Cells(At(layout, s)) # {} /\ Cells(At(layout, s)) \subseteq (0 .. Columns - 1) \X Nat
  <2>1. Fits(At(layout, s))
    BY DEF Valid
  <2>2. QED BY <2>1, <1>1, FittingCells
<1>3. ASSUME NEW s \in Slots(layout), NEW u \in Slots(layout), s # u
      PROVE  At(layout, s).id # At(layout, u).id
  BY <1>3 DEF Valid
<1>4. ASSUME NEW s \in Slots(layout), NEW u \in Slots(layout), s # u, s[1] = u[1]
      PROVE  Cells(At(layout, s)) \cap Cells(At(layout, u)) = {}
  <2>1. s[2] # u[2]
    <3>1. \E t \in DOMAIN layout : s \in {t} \X DOMAIN layout[t].panels
      BY DEF Slots
    <3>2. \E t \in DOMAIN layout : u \in {t} \X DOMAIN layout[t].panels
      BY DEF Slots
    <3>3. s = <<s[1], s[2]>> /\ u = <<u[1], u[2]>>
      BY <3>1, <3>2
    <3>4. QED BY <3>3, <1>4
  <2>2. Fits(At(layout, s)) /\ Fits(At(layout, u)) /\ ~Overlap(At(layout, s), At(layout, u))
    BY <2>1, <1>4 DEF Valid
  <2>3. At(layout, s) \in Place /\ At(layout, u) \in Place
    BY <1>1
  <2>4. QED BY <2>2, <2>3, OverlapIsSharedCell
<1>5. [t \in DOMAIN layout |-> layout[t].title] = Titles[d]
  BY DEF Valid
<1>6. QED BY <1>2, <1>3, <1>4, <1>5 DEF Sound

-----------------------------------------------------------------------------
LEMMA FileFacts ==
    /\ \A g \in Generators : \A i \in DOMAIN Copies[g] : Copies[g][i] \in CopiesOf(g)
    /\ \A g \in Generators : CopiesOf(g) \subseteq Files
    /\ \A g \in Generators : 1 \in DOMAIN Copies[g] /\ DOMAIN Copies[g] = 1 .. Len(Copies[g])
    /\ \A g \in Generators : Len(Copies[g]) \in Nat
    /\ \A f \in Files : f[1] \in Dashboards
<1>1. \A g \in Generators : Copies[g] \in Seq(Files) /\ Copies[g] # <<>>
  BY CopiesAssumption
<1>2. \A g \in Generators : \A i \in DOMAIN Copies[g] : Copies[g][i] \in CopiesOf(g)
  BY DEF CopiesOf
<1>3. \A g \in Generators : CopiesOf(g) \subseteq Files
  BY DEF Files
<1>4. ASSUME NEW g \in Generators
      PROVE  /\ 1 \in DOMAIN Copies[g] /\ DOMAIN Copies[g] = 1 .. Len(Copies[g])
             /\ Len(Copies[g]) \in Nat
  BY <1>1
<1>5. \A f \in Files : f[1] \in Dashboards
  BY DEF Dashboards
<1>6. QED BY <1>2, <1>3, <1>4, <1>5

LEMMA InitTypes == Init => TypeOK
  BY DraftAssumption, BoundAssumption DEF Init, TypeOK

LEMMA NextTypes == TypeOK /\ [Next]_vars => TypeOK'
<1> SUFFICES ASSUME TypeOK, [Next]_vars PROVE TypeOK'
  OBVIOUS
<1> USE DEF TypeOK
<1>1. CASE UNCHANGED vars
  BY <1>1 DEF vars
<1>2. ASSUME NEW g \in Generators, Begins(g) PROVE TypeOK'
  <2>1. 1 \in DOMAIN Copies[g]
    BY FileFacts
  <2>2. run' \in [gen : Generators, draft : Drafts, next : Nat, open : BOOLEAN]
    BY <1>2 DEF Begins
  <2>3. run'.next \in DOMAIN Copies[run'.gen]
    BY <1>2, <2>1 DEF Begins
  <2>4. QED BY <1>2, <2>2, <2>3 DEF Begins
<1>3. ASSUME NEW g \in Generators, NEW v \in Drafts, Edits(g, v) PROVE TypeOK'
  BY <1>3, BoundAssumption DEF Edits
<1> DEFINE Running == /\ run \in [gen : Generators, draft : Drafts, next : Nat, open : BOOLEAN]
                      /\ run.next \in DOMAIN Copies[run.gen]
<1>4. CASE Opens
  <2>1. Running
    BY <1>4 DEF Opens
  <2>2. CASE run' = NoRun /\ short' = short \cup {run.gen} /\ UNCHANGED file
    BY <2>1, <2>2, <1>4 DEF Opens
  <2>3. CASE /\ run' = [run EXCEPT !.open = TRUE]
             /\ file' = [file EXCEPT ![Target] = Torn]
             /\ UNCHANGED short
    <3>1. run' \in [gen : Generators, draft : Drafts, next : Nat, open : BOOLEAN]
          /\ run'.next = run.next /\ run'.gen = run.gen
      BY <2>1, <2>3
    <3>2. file' \in [Files -> Drafts \cup {Torn, Garbled}]
      BY <2>3
    <3>3. QED BY <2>1, <3>1, <3>2, <2>3, <1>4 DEF Opens
  <2>4. QED BY <2>2, <2>3, <1>4 DEF Opens
<1>5. CASE Writes
  <2>1. Running
    BY <1>5 DEF Writes
  <2>2. file' \in [Files -> Drafts \cup {Torn, Garbled}]
    BY <2>1, <1>5 DEF Writes
  <2>3. CASE run' = NoRun /\ short' = short \ {run.gen}
    BY <2>1, <2>2, <2>3, <1>5 DEF Writes
  <2>4. CASE /\ run.next # Len(Copies[run.gen])
             /\ run' = [run EXCEPT !.next = @ + 1, !.open = FALSE] /\ UNCHANGED short
    <3>1. run' \in [gen : Generators, draft : Drafts, next : Nat, open : BOOLEAN]
          /\ run'.next = run.next + 1 /\ run'.gen = run.gen
      <4>1. run' = [gen |-> run.gen, draft |-> run.draft, next |-> run.next + 1, open |-> FALSE]
        BY <2>1, <2>4
      <4>2. QED BY <2>1, <4>1
    <3>2. run'.next \in DOMAIN Copies[run'.gen]
      BY <2>1, <2>4, <3>1, FileFacts
    <3>3. QED BY <2>2, <3>1, <3>2, <2>4, <1>5 DEF Writes
  <2>5. QED BY <2>3, <2>4, <1>5 DEF Writes
<1>6. CASE CutShort
  <2>1. run.gen \in Generators
    BY <1>6 DEF CutShort
  <2>2. file' \in [Files -> Drafts \cup {Torn, Garbled}]
    BY <1>6 DEF CutShort
  <2>3. QED BY <1>6, <2>1, <2>2, BoundAssumption DEF CutShort
<1>7. ASSUME NEW f \in Files, Restores(f) PROVE TypeOK'
  BY <1>7, DraftAssumption DEF Restores
<1>8. ASSUME NEW d \in Provided, Refreshes(d) PROVE TypeOK'
  BY <1>8 DEF Refreshes
<1>9. ASSUME NEW p \in Profiles, SetupRuns(p) PROVE TypeOK'
  BY <1>9 DEF SetupRuns
<1>10. QED BY <1>1, <1>2, <1>3, <1>4, <1>5, <1>6, <1>7, <1>8, <1>9 DEF Next

(* Sources, runs, copies and what Grafana has loaded keep their types. *)
THEOREM TypeCorrect == Spec => []TypeOK
  BY InitTypes, NextTypes, PTL DEF Spec

-----------------------------------------------------------------------------
(* Every copy of a v2 dashboard that can be read comes from a draft that its
   generator lets through. *)
PassedOnly ==
    /\ run # NoRun => run.draft \in PassingDrafts[run.gen]
    /\ \A g \in V2 : \A f \in CopiesOf(g) :
        /\ file[f] \in Drafts => file[f] \in PassingDrafts[g]
        /\ f[1] \in Provided => shown[f[1]] \in PassingDrafts[g]

(* A copy belongs to one generator, and so does a dashboard. *)
LEMMA OneGenerator ==
    ASSUME NEW g \in Generators, NEW h \in Generators,
           NEW e \in CopiesOf(g), NEW f \in CopiesOf(h), e[1] = f[1]
    PROVE  g = h
<1>1. e[1] \in DashboardsOf(g) /\ f[1] \in DashboardsOf(h)
  BY DEF DashboardsOf
<1>2. QED BY <1>1, CopiesAssumption

(* The copy that a run is at is one of its generator's. *)
LEMMA TargetIsOwn ==
    ASSUME TypeOK, run # NoRun
    PROVE  run.gen \in Generators /\ Target \in CopiesOf(run.gen)
BY FileFacts DEF TypeOK, Target

LEMMA InitPassed == Init => PassedOnly
<1> SUFFICES ASSUME Init PROVE PassedOnly
  OBVIOUS
<1>1. \A g \in V2 : CopiesOf(g) \subseteq Files
  BY FileFacts, GeneratorAssumption
<1>2. QED BY <1>1, CommittedAssumption DEF Init, PassedOnly

LEMMA NextPassed == TypeOK /\ PassedOnly /\ [Next]_vars => PassedOnly'
<1> SUFFICES ASSUME TypeOK, PassedOnly, [Next]_vars PROVE PassedOnly'
  OBVIOUS
<1> DEFINE Fine(f, g) == file[f] \in Drafts => file[f] \in PassingDrafts[g]
<1>1. \A g \in V2 : g \in Generators /\ CopiesOf(g) \subseteq Files
  BY FileFacts, GeneratorAssumption
\* It is enough that the copies are fine, if nothing is refreshed.
<1>2. ASSUME run' # NoRun => run'.draft \in PassingDrafts[run'.gen],
             \A g \in V2 : \A f \in CopiesOf(g) : Fine(f, g)',
             UNCHANGED shown
      PROVE  PassedOnly'
  BY <1>2 DEF PassedOnly
<1>3. CASE UNCHANGED vars
  BY <1>3 DEF vars, PassedOnly
<1>4. ASSUME NEW g \in Generators, Begins(g) PROVE PassedOnly'
  BY <1>4 DEF Begins, PassedOnly
<1>5. ASSUME NEW g \in Generators, NEW v \in Drafts, Edits(g, v) PROVE PassedOnly'
  BY <1>5 DEF Edits, PassedOnly
\* A step of a run that leaves a version in no copy but the one it is at.
<1>6. ASSUME run # NoRun, NEW v, v \in Drafts => v = run.draft,
             file' = [file EXCEPT ![Target] = v]
      PROVE  \A g \in V2 : \A f \in CopiesOf(g) : Fine(f, g)'
  <2> SUFFICES ASSUME NEW g \in V2, NEW f \in CopiesOf(g) PROVE Fine(f, g)'
    OBVIOUS
  <2>1. run.gen \in Generators /\ Target \in CopiesOf(run.gen)
    BY <1>6, TargetIsOwn
  <2>2. f \in Files /\ file \in [Files -> Drafts \cup {Torn, Garbled}]
    BY <1>1 DEF TypeOK
  <2>3. CASE f = Target
    <3>1. g = run.gen
      BY <2>1, <2>3, <1>1, OneGenerator
    <3>2. file'[f] = v
      BY <2>2, <2>3, <1>6
    <3>3. QED BY <3>1, <3>2, <1>6 DEF PassedOnly
  <2>4. CASE f # Target
    BY <2>2, <2>4, <1>6 DEF PassedOnly
  <2>5. QED BY <2>3, <2>4
<1>7. ASSUME UNCHANGED file PROVE \A g \in V2 : \A f \in CopiesOf(g) : Fine(f, g)'
  BY <1>7 DEF PassedOnly
<1>8. Torn \notin Drafts /\ Garbled \notin Drafts
  BY DraftAssumption
<1>9. CASE Opens
  <2>1. run' # NoRun => run'.draft \in PassingDrafts[run'.gen]
    <3>1. run # NoRun /\ run \in [gen : Generators, draft : Drafts, next : Nat, open : BOOLEAN]
      BY <1>9 DEF Opens, TypeOK
    <3>2. CASE run' = NoRun
      BY <3>2
    <3>3. CASE run' = [run EXCEPT !.open = TRUE]
      BY <3>1, <3>3 DEF PassedOnly
    <3>4. QED BY <3>2, <3>3, <1>9 DEF Opens
  <2>2. \A g \in V2 : \A f \in CopiesOf(g) : Fine(f, g)'
    BY <1>6, <1>7, <1>8, <1>9 DEF Opens
  <2>3. QED BY <1>2, <2>1, <2>2, <1>9 DEF Opens
<1>10. CASE Writes
  <2>1. run' # NoRun => run'.draft \in PassingDrafts[run'.gen]
    <3>1. run # NoRun /\ run \in [gen : Generators, draft : Drafts, next : Nat, open : BOOLEAN]
      BY <1>10 DEF Writes, TypeOK
    <3>2. CASE run' = NoRun
      BY <3>2
    <3>3. CASE run' = [run EXCEPT !.next = @ + 1, !.open = FALSE]
      BY <3>1, <3>3 DEF PassedOnly
    <3>4. QED BY <3>2, <3>3, <1>10 DEF Writes
  <2>2. \A g \in V2 : \A f \in CopiesOf(g) : Fine(f, g)'
    BY <1>6, <1>10 DEF Writes
  <2>3. QED BY <1>2, <2>1, <2>2, <1>10 DEF Writes
<1>11. CASE CutShort
  <2>1. \A g \in V2 : \A f \in CopiesOf(g) : Fine(f, g)'
    BY <1>6, <1>7, <1>8, <1>11 DEF CutShort
  <2>2. QED BY <1>2, <2>1, <1>11 DEF CutShort
<1>12. ASSUME NEW e \in Files, Restores(e) PROVE PassedOnly'
  <2>1. \A g \in V2 : \A f \in CopiesOf(g) : Fine(f, g)'
    BY <1>1, <1>12, CommittedAssumption DEF Restores, PassedOnly, TypeOK
  <2>2. QED BY <1>2, <2>1, <1>12 DEF Restores
<1>13. ASSUME NEW d \in Provided, Refreshes(d) PROVE PassedOnly'
  <2>1. ASSUME NEW g \in V2, NEW f \in CopiesOf(g), f[1] \in Provided
        PROVE  shown'[f[1]] \in PassingDrafts[g]
    <3>1. CASE f[1] = d
      <4>1. PICK h \in Generators : Read(d) \in CopiesOf(h)
        BY DEF Provided, Files
      <4>2. Read(d)[1] = f[1]
        BY <3>1 DEF Read
      <4>3. h = g
        BY <1>1, <4>1, <4>2, OneGenerator
      <4>4. file[Read(d)] \in PassingDrafts[g]
        BY <4>1, <4>3, <1>13 DEF Refreshes, PassedOnly
      <4>5. shown'[f[1]] = file[Read(d)]
        BY <3>1, <1>13 DEF Refreshes, TypeOK
      <4>6. QED BY <4>4, <4>5
    <3>2. CASE f[1] # d
      BY <2>1, <3>2, <1>13 DEF Refreshes, PassedOnly, TypeOK
    <3>3. QED BY <3>1, <3>2
  <2>2. Provided' = Provided
    BY DEF Provided
  <2>3. QED BY <2>1, <2>2, <1>13 DEF Refreshes, PassedOnly
<1>14. ASSUME NEW p \in Profiles, SetupRuns(p) PROVE PassedOnly'
  BY <1>14 DEF SetupRuns, PassedOnly
<1>15. QED BY <1>3, <1>4, <1>5, <1>9, <1>10, <1>11, <1>12, <1>13, <1>14 DEF Next

LEMMA PassedIsSound == PassedOnly => BoardsAreSound
<1>1. ASSUME NEW g \in V2, NEW f \in CopiesOf(g), NEW v \in PassingDrafts[g]
      PROVE  v \in SoundDrafts[f[1]]
  <2>1. g \in Generators /\ f[1] \in Dashboards /\ f[1] \in DashboardsOf(g)
    BY FileFacts, GeneratorAssumption DEF DashboardsOf
  <2>2. v \in Drafts /\ Valid(f[1], Layouts[f[1]][v])
    BY <2>1 DEF PassingDrafts, Passing
  <2>3. Sound(f[1], Layouts[f[1]][v])
    BY <2>1, <2>2, ValidIsSound
  <2>4. QED BY <2>1, <2>2, <2>3 DEF SoundDrafts
<1>2. QED BY <1>1 DEF PassedOnly, BoardsAreSound, V2Files

(* Copies of v2 dashboards that can be imported, and what Grafana shows of
   them, are sound, wherever runs are cut short. *)
THEOREM PublishedIsSound == Spec => []BoardsAreSound
BY InitTypes, NextTypes, InitPassed, NextPassed, PassedIsSound, PTL DEF Spec

-----------------------------------------------------------------------------
(* The copies that a run has got past hold its draft, and those of a generator
   that does not run hold one draft, unless its last run was cut short. *)
Alike(g) == \E v \in Drafts : \A f \in CopiesOf(g) : file[f] = v
InStep ==
    /\ run # NoRun => \A i \in DOMAIN Copies[run.gen] :
        i < run.next => file[Copies[run.gen][i]] = run.draft
    /\ \A g \in Generators \ short : run = NoRun \/ run.gen # g => Alike(g)

LEMMA InitInStep == Init => InStep
BY FileFacts, DraftAssumption DEF Init, InStep, Alike

LEMMA NextInStep == TypeOK /\ InStep /\ [Next]_vars => InStep'
<1> SUFFICES ASSUME TypeOK, InStep, [Next]_vars PROVE InStep'
  OBVIOUS
<1> DEFINE Running == run \in [gen : Generators, draft : Drafts, next : Nat, open : BOOLEAN]
<1>1. run # NoRun => Running /\ run.next \in DOMAIN Copies[run.gen] /\ run.gen \in Generators
  BY DEF TypeOK
<1>2. file \in [Files -> Drafts \cup {Torn, Garbled}]
  BY DEF TypeOK
<1>3. NoRun.gen \notin Generators
  BY GeneratorAssumption
<1>4. ASSUME UNCHANGED <<run, file, short>> PROVE InStep'
  BY <1>4 DEF InStep, Alike
\* A step of a run leaves the copies of other generators alone.
<1>5. ASSUME run # NoRun, NEW v, file' = [file EXCEPT ![Target] = v],
             NEW g \in Generators \ short, g # run.gen
      PROVE  Alike(g)'
  <2>1. Target \in CopiesOf(run.gen)
    BY <1>5, TargetIsOwn
  <2>2. \A f \in CopiesOf(g) : f \in Files /\ f # Target
    BY <1>1, <1>5, <2>1, FileFacts, OneGenerator
  <2>3. \A f \in CopiesOf(g) : file'[f] = file[f]
    BY <1>2, <1>5, <2>2
  <2>4. Alike(g)
    BY <1>5 DEF InStep
  <2>5. QED BY <2>3, <2>4 DEF Alike
\* It leaves the copies that the run has got past alone too.
<1>6. ASSUME run # NoRun, NEW v, file' = [file EXCEPT ![Target] = v],
             NEW i \in DOMAIN Copies[run.gen], i < run.next
      PROVE  file'[Copies[run.gen][i]] = run.draft
  <2>1. i # run.next
    BY <1>1, <1>6, FileFacts
  <2>2. Copies[run.gen][i] # Target
    BY <1>1, <1>6, <2>1, CopiesAssumption DEF Target
  <2>3. Copies[run.gen][i] \in Files
    BY <1>1, <1>6, FileFacts
  <2>4. file[Copies[run.gen][i]] = run.draft
    BY <1>6 DEF InStep
  <2>5. QED BY <1>2, <1>6, <2>2, <2>3, <2>4
<1>7. ASSUME run # NoRun, run' = NoRun, short' = short \cup {run.gen},
             file' = file \/ \E v : file' = [file EXCEPT ![Target] = v]
      PROVE  InStep'
  <2> SUFFICES ASSUME NEW g \in Generators \ short' PROVE Alike(g)'
    BY <1>7 DEF InStep
  <2>1. g \notin short /\ g # run.gen
    BY <1>7
  <2>2. CASE file' = file
    BY <2>1, <2>2 DEF InStep, Alike
  <2>3. CASE \E v : file' = [file EXCEPT ![Target] = v]
    BY <1>5, <1>7, <2>1, <2>3
  <2>4. QED BY <1>7, <2>2, <2>3
<1>8. ASSUME NEW g \in Generators, Begins(g) PROVE InStep'
  <2>1. run'.next = 1 /\ run'.gen = g /\ run' # NoRun
    BY <1>3, <1>8 DEF Begins
  <2>2. \A i \in DOMAIN Copies[g] : ~(i < 1)
    BY FileFacts
  <2>3. \A h \in Generators \ short : Alike(h)
    BY <1>8 DEF Begins, InStep
  <2>4. QED BY <2>1, <2>2, <2>3, <1>8 DEF Begins, InStep, Alike
<1>9. CASE Opens
  <2>1. CASE run' = NoRun /\ short' = short \cup {run.gen} /\ UNCHANGED file
    BY <2>1, <1>7, <1>9 DEF Opens
  <2>2. CASE /\ run' = [run EXCEPT !.open = TRUE]
             /\ file' = [file EXCEPT ![Target] = Torn]
             /\ UNCHANGED short
    <3>1. run # NoRun
      BY <1>9 DEF Opens
    <3>2. run'.gen = run.gen /\ run'.next = run.next /\ run'.draft = run.draft /\ run' # NoRun
      BY <1>1, <1>3, <2>2, <3>1
    <3>3. \A i \in DOMAIN Copies[run.gen] : i < run.next => file'[Copies[run.gen][i]] = run.draft
      BY <1>6, <2>2, <3>1
    <3>4. \A g \in Generators \ short : g # run.gen => Alike(g)'
      BY <1>5, <2>2, <3>1
    <3>5. QED BY <2>2, <3>2, <3>3, <3>4 DEF InStep
  <2>3. QED BY <2>1, <2>2, <1>9 DEF Opens
<1>10. CASE Writes
  <2>1. run # NoRun /\ file' = [file EXCEPT ![Target] = run.draft]
    BY <1>10 DEF Writes
  <2>2. file'[Target] = run.draft
    BY <1>1, <1>2, <2>1, TargetIsOwn, FileFacts
  <2>3. \A i \in DOMAIN Copies[run.gen] :
          i < run.next + 1 => file'[Copies[run.gen][i]] = run.draft
    <3> TAKE i \in DOMAIN Copies[run.gen]
    <3>1. CASE i = run.next
      BY <2>2, <3>1 DEF Target
    <3>2. CASE i < run.next
      BY <1>6, <2>1, <3>2
    <3>3. i \in Nat /\ run.next \in Nat
      BY <1>1, <2>1, FileFacts
    <3>4. QED BY <3>1, <3>2, <3>3
  <2>4. \A g \in Generators \ short : g # run.gen => Alike(g)'
    BY <1>5, <2>1
  <2>5. CASE run.next = Len(Copies[run.gen]) /\ run' = NoRun /\ short' = short \ {run.gen}
    <3>1. \A i \in DOMAIN Copies[run.gen] : i < run.next + 1
      BY <1>1, <2>1, <2>5, FileFacts
    <3>2. \A f \in CopiesOf(run.gen) : file'[f] = run.draft
      BY <2>3, <3>1 DEF CopiesOf
    <3>3. \A g \in Generators : g = run.gen => Alike(g)'
      BY <1>1, <2>1, <3>2 DEF Alike
    <3>4. QED BY <2>4, <2>5, <3>3 DEF InStep
  <2>6. CASE run' = [run EXCEPT !.next = @ + 1, !.open = FALSE] /\ UNCHANGED short
    <3>1. run' = [gen |-> run.gen, draft |-> run.draft, next |-> run.next + 1, open |-> FALSE]
      BY <1>1, <2>1, <2>6
    <3>2. run'.gen = run.gen /\ run'.next = run.next + 1 /\ run'.draft = run.draft /\ run' # NoRun
      BY <1>1, <1>3, <2>1, <3>1
    <3>3. QED BY <2>3, <2>4, <2>6, <3>2 DEF InStep
  <2>7. QED BY <2>5, <2>6, <1>10 DEF Writes
<1>11. CASE CutShort
  BY <1>7, <1>11 DEF CutShort
<1>12. ASSUME NEW e \in Files, Restores(e) PROVE InStep'
  <2> SUFFICES ASSUME NEW g \in Generators \ short PROVE Alike(g)'
    BY <1>12 DEF Restores, InStep
  <2>1. Alike(g)
    BY <1>12 DEF Restores, InStep
  <2>2. e \notin CopiesOf(g)
    <3>1. PICK v \in Drafts : \A f \in CopiesOf(g) : file[f] = v
      BY <2>1 DEF Alike
    <3>2. file[e] \notin Drafts
      BY <1>12, DraftAssumption DEF Restores
    <3>3. QED BY <3>1, <3>2
  <2>3. \A f \in CopiesOf(g) : file'[f] = file[f]
    BY <1>2, <1>12, <2>2, FileFacts DEF Restores
  <2>4. QED BY <2>1, <2>3 DEF Alike
<1>13. CASE UNCHANGED vars
  BY <1>4, <1>13 DEF vars
<1>14. ASSUME NEW g \in Generators, NEW v \in Drafts, Edits(g, v) PROVE InStep'
  BY <1>4, <1>14 DEF Edits
<1>15. ASSUME NEW d \in Provided, Refreshes(d) PROVE InStep'
  BY <1>4, <1>15 DEF Refreshes
<1>16. ASSUME NEW p \in Profiles, SetupRuns(p) PROVE InStep'
  BY <1>4, <1>16 DEF SetupRuns
<1>17. QED BY <1>8, <1>9, <1>10, <1>11, <1>12, <1>13, <1>14, <1>15, <1>16 DEF Next

LEMMA InStepAgrees == InStep => CopiesAgree
BY DEF InStep, CopiesAgree, Alike

(* Between runs the copies of a dashboard are whole and agree, unless the last run of its
   generator was cut short. *)
THEOREM PublishedCopiesAgree == Spec => []CopiesAgree
BY InitTypes, NextTypes, InitInStep, NextInStep, InStepAgrees, PTL DEF Spec
=============================================================================
