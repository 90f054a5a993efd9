----------------------------- MODULE PanelGrid -----------------------------
(***************************************************************************)
(* What the dashboard generators have in common: a panel and its place on  *)
(* the grid of 24 columns, a tab with the list of its panels, the colour   *)
(* of a stat tile, and the test for overlapping panels that every          *)
(* validate_dashboard makes.  What a panel shows is abstracted to the      *)
(* sources its queries read, to those among them without which they give   *)
(* no result, and to what it shows then.                                   *)
(***************************************************************************)
EXTENDS Integers, Sequences

Columns == 24

\* A panel whose queries each do with one of what it reads: "or", sums of
\* defaults, queries side by side.  Without any it shows its "no value" text.
Panel(id, x, y, w, h, reads) ==
    [id |-> id, x |-> x, y |-> y, w |-> w, h |-> h, reads |-> reads, needs |-> {},
     rest |-> "no value"]

\* A tile whose query ends in "or vector(n)" has the colour of n instead.
Tile(id, x, y, w, h, reads, rest) ==
    [Panel(id, x, y, w, h, reads) EXCEPT !.rest = rest]

SlipEitherWillDo(panel, sources) == [panel EXCEPT !.reads = sources]

\* A panel whose query multiplies or joins what it reads from these sources, so
\* that it has no result, and the tile its default, when one of them is missing.
Joining(panel, sources) == [panel EXCEPT !.needs = sources]

Tab(title, panels) == [title |-> title, panels |-> panels]

Unmapped == [v \in {} |-> "no colour"]

\* The colour of a value: the mapping's if it names the value, otherwise that
\* of the last step <<colour, from>> reached (the first is the base step).
Colour(steps, mapping, value) ==
    LET reached == {1} \cup {i \in DOMAIN steps : steps[i][2] <= value}
    IN  IF value \in DOMAIN mapping THEN mapping[value]
        ELSE steps[CHOOSE i \in reached : \A j \in reached : j <= i][1]

Fits(p) ==
    /\ 0 <= p.x /\ p.x <= Columns - 1
    /\ 0 <= p.y
    /\ 1 <= p.w /\ p.w <= Columns
    /\ 0 < p.h
    /\ p.x + p.w <= Columns

SlipTouchRows(p, q) ==
    /\ p.x < q.x + q.w /\ q.x < p.x + p.w
    /\ p.y < q.y + q.h - 1 /\ q.y < p.y + p.h - 1

Overlap(p, q) ==
    /\ p.x < q.x + q.w /\ q.x < p.x + p.w
    /\ p.y < q.y + q.h /\ q.y < p.y + p.h

\* The cells a panel covers, the reference for Fits and Overlap.
Cells(p) == (p.x .. (p.x + p.w - 1)) \X (p.y .. (p.y + p.h - 1))
=============================================================================
