----------------------------- MODULE SnapshotBoard -----------------------------
(***************************************************************************)
(* What a scraper of /var/prometheus may rely on, whatever the helper      *)
(* scripts do behind it: for each helper there is at most one file, and    *)
(* that file is a whole snapshot of what the helper's source really was at *)
(* some moment up to now.  A snapshot is posted in one step; the installer *)
(* and a reboot may take the whole board down.                             *)
(***************************************************************************)
EXTENDS Naturals, Sequences

CONSTANTS
  Helpers,    \* the helper scripts
  None,       \* "no such file"
  MaxEpoch    \* bound on the changes of the world

VARIABLES
  world,      \* world[e]: did the helpers' source answer in epoch e?
  board       \* board[h]: the snapshot on display for helper h, or None

boardVars == <<world, board>>

(* The snapshot a run takes if it looks at the world w in epoch e.         *)
SnapshotOf(w, e) == [epoch |-> e, up |-> w[e]]

BoardInit ==
  /\ world \in {<<b>> : b \in BOOLEAN}
  /\ board = [h \in Helpers |-> None]

(* The source starts or stops answering, or merely has something new to    *)
(* report.                                                                 *)
WorldChanges ==
  /\ Len(world) < MaxEpoch
  /\ \E b \in BOOLEAN : world' = Append(world, b)
  /\ UNCHANGED board

Post(h) ==
  /\ \E e \in 1..Len(world) :
        board' = [board EXCEPT ![h] = SnapshotOf(world, e)]
  /\ UNCHANGED world

TakeDown ==
  /\ board' = [h \in Helpers |-> None]
  /\ UNCHANGED world

BoardNext ==
  \/ WorldChanges
  \/ \E h \in Helpers : Post(h)
  \/ TakeDown

BoardSpec == BoardInit /\ [][BoardNext]_boardVars

================================================================================
