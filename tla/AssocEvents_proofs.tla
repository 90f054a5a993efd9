-------------------------- MODULE AssocEvents_proofs --------------------------
(***************************************************************************)
(* Proofs about AssocEvents, for any interfaces, networks and bounds.  The *)
(* first part is about the order of the lines in the state file, which     *)
(* decides what is forgotten; the second about the state file as a whole;  *)
(* the last about runs of cron alone.                                      *)
(***************************************************************************)
EXTENDS AssocEvents, FiniteSetTheorems, WellFoundedInduction, TLAPS

--------------------------------------------------------------------------------
(* Finite sets.                                                            *)

LEMMA Smaller ==
  ASSUME NEW T, IsFiniteSet(T), NEW S \in SUBSET T
  PROVE  /\ IsFiniteSet(S) /\ Cardinality(S) \in Nat /\ Cardinality(T) \in Nat
         /\ Cardinality(S) <= Cardinality(T)
         /\ S # T => Cardinality(S) < Cardinality(T)
<1>1. IsFiniteSet(S) /\ Cardinality(S) <= Cardinality(T)
      /\ (Cardinality(S) = Cardinality(T) => S = T)
  BY FS_Subset
<1>2. Cardinality(S) \in Nat /\ Cardinality(T) \in Nat
  BY <1>1, FS_CardinalityType
<1> QED
  BY <1>1, <1>2

LEMMA SomeLines ==
  ASSUME NEW S \in SUBSET Lines
  PROVE  IsFiniteSet(S) /\ Cardinality(S) \in Nat
<1>1. IsFiniteSet(Lines)
  BY BoundAssumption, FS_Interval DEF Lines
<1> QED
  BY <1>1, Smaller

(* A non-empty set of positions has a last one.                            *)
LEMMA LastPosition ==
  ASSUME NEW n \in Nat, NEW P \in SUBSET (1..n), P # {}
  PROVE  \E k \in P : \A j \in P : j <= k
<1> DEFINE D == {n - k : k \in P}
<1>1. D \in SUBSET Nat
  OBVIOUS
<1>2. PICK q \in P : TRUE
  OBVIOUS
<1>3. n - q \in D
  OBVIOUS
<1>4. PICK m \in D : \A d \in D : m <= d
  <2> DEFINE R == {p \in Nat \X Nat : p[1] < p[2]}
  <2>0. R = OpToRel(<, Nat)
    BY Zenon DEF OpToRel
  <2>1. IsWellFoundedOn(R, Nat)
    BY <2>0, NatLessThanWellFounded, Zenon
  <2> HIDE DEF D
  <2>2. PICK m \in D : \A d \in D : <<d, m>> \notin R
    <3> HIDE DEF R
    <3> QED
      BY <1>1, <1>3, <2>1, WFMin
  <2>3. m \in Nat /\ \A d \in D : d \in Nat
    BY <1>1
  <2>4. ASSUME NEW d \in D PROVE m <= d
    <3>1. ~(d < m)
      BY <2>2, <2>3
    <3> QED
      BY <2>3, <3>1
  <2> QED
    BY <2>4
<1>5. PICK k \in P : m = n - k
  OBVIOUS
<1>6. ASSUME NEW j \in P PROVE j <= k
  <2>1. n - j \in D
    OBVIOUS
  <2>2. n - k <= n - j
    BY <1>4, <1>5, <2>1
  <2>3. k \in Nat /\ j \in Nat
    OBVIOUS
  <2> HIDE DEF D
  <2> QED
    BY <2>2, <2>3
<1> QED
  BY <1>6

--------------------------------------------------------------------------------
(* The order of the state file.                                            *)

(* Of two lines one stands behind the other, and what stands behind that   *)
(* one also stands behind the other.                                       *)
Chain(seen) ==
  /\ seen \in [DOMAIN seen -> SUBSET DOMAIN seen]
  /\ \A f \in DOMAIN seen : f \notin seen[f]
  /\ \A f, g \in DOMAIN seen : f = g \/ g \in seen[f] \/ f \in seen[g]
  /\ \A f \in DOMAIN seen : \A g \in seen[f] : seen[g] \subseteq seen[f]

(* The lines the awk program knows at its end, before it forgets some.     *)
Numbered(old, lines, known) == DOMAIN old \cup About(lines, known)

Behind(f, old, lines, known) ==
  Older(f, old, lines, known) \cup About(lines, Newer(f, lines, known))

(* How many numbers are newer than that of f.                              *)
Rank(f, old, lines, known) ==
  Cardinality(Newer(f, lines, known)) + Cardinality(Older(f, old, lines, known))

LEMMA CacheShape ==
  ASSUME NEW seen
  PROVE  seen \in Caches <=> /\ DOMAIN seen \in SUBSET Lines
                            /\ seen \in [DOMAIN seen -> SUBSET DOMAIN seen]
  BY DEF Caches

(* A log line that is read has a last position, and the newer ones are     *)
(* those behind that.                                                      *)
LEMMA LastReading ==
  ASSUME NEW lines \in Seq(Lines), NEW known \in SUBSET DOMAIN lines,
         NEW f \in About(lines, known)
  PROVE  \E k \in known : /\ lines[k] = f
                          /\ Newer(f, lines, known) = {j \in known : j > k}
<1> DEFINE P == {j \in known : lines[j] = f}
<1>1. P \in SUBSET (1..Len(lines)) /\ P # {} /\ Len(lines) \in Nat
  BY DEF About
<1>2. PICK k \in P : \A j \in P : j <= k
  <2> HIDE DEF P
  <2> QED
    BY <1>1, LastPosition
<1>3. \A j \in known : j \in Int
  OBVIOUS
<1>4. Newer(f, lines, known) = {j \in known : j > k}
  BY <1>2, <1>3 DEF Newer
<1> QED
  BY <1>2, <1>4

LEMMA BehindOrders ==
  ASSUME NEW old, Chain(old), NEW lines \in Seq(Lines), NEW known \in SUBSET DOMAIN lines,
         NEW f \in Numbered(old, lines, known)
  PROVE  /\ Behind(f, old, lines, known) \subseteq Numbered(old, lines, known)
         /\ f \notin Behind(f, old, lines, known)
         /\ \A g \in Numbered(old, lines, known) :
              \/ f = g
              \/ g \in Behind(f, old, lines, known)
              \/ f \in Behind(g, old, lines, known)
<1> DEFINE read == About(lines, known)
<1>1. Older(f, old, lines, known) \subseteq DOMAIN old
  BY DEF Older, Chain, Numbered
<1>2. About(lines, Newer(f, lines, known)) \subseteq read
  BY DEF About, Newer
<1>3. f \notin Older(f, old, lines, known)
  BY DEF Older, Chain, Numbered
<1>4. f \notin About(lines, Newer(f, lines, known))
  <2>1. \A k \in known : ~(k < k)
    OBVIOUS
  <2> QED
    BY <2>1 DEF About, Newer
<1>5. ASSUME NEW a \in read, NEW b \in Numbered(old, lines, known) \ read
      PROVE  a \in Behind(b, old, lines, known)
  <2>1. Newer(b, lines, known) = known
    BY <1>5 DEF Newer, About
  <2> QED
    BY <2>1, <1>5 DEF Behind, About
<1>6. ASSUME NEW a \in Numbered(old, lines, known) \ read, NEW b \in Numbered(old, lines, known) \ read
      PROVE  a = b \/ b \in Behind(a, old, lines, known) \/ a \in Behind(b, old, lines, known)
  BY <1>6 DEF Behind, Older, Chain, Numbered
<1>7. ASSUME NEW a \in read, NEW b \in read
      PROVE  a = b \/ b \in Behind(a, old, lines, known) \/ a \in Behind(b, old, lines, known)
  <2>1. PICK k \in known : lines[k] = a /\ Newer(a, lines, known) = {j \in known : j > k}
    BY LastReading
  <2>2. PICK m \in known : lines[m] = b /\ Newer(b, lines, known) = {j \in known : j > m}
    BY LastReading
  <2>3. k = m \/ k > m \/ m > k
    OBVIOUS
  <2> QED
    BY <2>1, <2>2, <2>3 DEF Behind, About
<1> QED
  BY <1>1, <1>2, <1>3, <1>4, <1>5, <1>6, <1>7 DEF Behind, Numbered

LEMMA RankIsNat ==
  ASSUME NEW old \in Caches, NEW lines \in Seq(Lines), NEW known \in SUBSET DOMAIN lines,
         NEW f \in Numbered(old, lines, known)
  PROVE  /\ IsFiniteSet(known)
         /\ Newer(f, lines, known) \in SUBSET known /\ IsFiniteSet(Newer(f, lines, known))
         /\ Cardinality(Newer(f, lines, known)) \in Nat
         /\ Older(f, old, lines, known) \in SUBSET Lines
         /\ IsFiniteSet(Older(f, old, lines, known))
         /\ Cardinality(Older(f, old, lines, known)) \in Nat
         /\ Rank(f, old, lines, known) \in Nat
<1>1. IsFiniteSet(known)
  <2>1. DOMAIN lines = 1..Len(lines) /\ Len(lines) \in Nat
    OBVIOUS
  <2>2. IsFiniteSet(DOMAIN lines)
    BY <2>1, FS_Interval
  <2> QED
    BY <2>2, FS_Subset
<1>2. Newer(f, lines, known) \in SUBSET known
  BY DEF Newer
<1>3. Older(f, old, lines, known) \in SUBSET Lines
  BY CacheShape DEF Older, Numbered
<1>4. /\ IsFiniteSet(Newer(f, lines, known)) /\ Cardinality(Newer(f, lines, known)) \in Nat
      /\ IsFiniteSet(Older(f, old, lines, known)) /\ Cardinality(Older(f, old, lines, known)) \in Nat
  BY <1>1, <1>2, <1>3, Smaller, SomeLines
<1> QED
  BY <1>1, <1>2, <1>3, <1>4 DEF Rank

(* Whoever stands behind f has fewer newer numbers, and what stands behind *)
(* it stands behind f, too.                                                *)
LEMMA BehindRanks ==
  ASSUME NEW old \in Caches, Chain(old), NEW lines \in Seq(Lines), NEW known \in SUBSET DOMAIN lines,
         NEW f \in Numbered(old, lines, known), NEW g \in Behind(f, old, lines, known)
  PROVE  /\ Behind(g, old, lines, known) \subseteq Behind(f, old, lines, known)
         /\ Rank(g, old, lines, known) < Rank(f, old, lines, known)
         /\ Rank(g, old, lines, known) \in Nat /\ Rank(f, old, lines, known) \in Nat
<1> DEFINE read == About(lines, known)
           new(x) == Newer(x, lines, known)
           older(x) == Older(x, old, lines, known)
<1>0. g \in Numbered(old, lines, known)
  BY BehindOrders
<1>1. IsFiniteSet(known)
  BY RankIsNat
<1>2. ASSUME NEW x \in Numbered(old, lines, known)
      PROVE  /\ new(x) \in SUBSET known /\ IsFiniteSet(new(x)) /\ Cardinality(new(x)) \in Nat
             /\ older(x) \in SUBSET Lines /\ IsFiniteSet(older(x)) /\ Cardinality(older(x)) \in Nat
  BY RankIsNat
<1>3. CASE g \in About(lines, new(f))
  <2>1. PICK k \in new(f) : lines[k] = g
    BY <1>3 DEF About
  <2>2. g \in read /\ older(g) = {}
    BY <2>1, <1>2 DEF About, Older
  <2>3. new(g) \subseteq new(f) /\ k \notin new(g)
    <3>1. \A j \in new(g) : j \in known /\ k < j
      BY <2>1 DEF Newer
    <3>2. \A j \in known : lines[j] = f => j < k
      BY <2>1 DEF Newer
    <3>4. ~(k < k) /\ k \in known
      BY <2>1 DEF Newer
    <3>5. \A j \in known : j \in Int
      OBVIOUS
    <3>3. \A i, j \in known : i < k /\ k < j => i < j
      BY <3>4, <3>5
    <3> QED
      BY <3>1, <3>2, <3>3, <3>4 DEF Newer
  <2>4. Behind(g, old, lines, known) \subseteq Behind(f, old, lines, known)
    BY <2>2, <2>3 DEF Behind, About
  <2>5. Cardinality(new(g)) < Cardinality(new(f))
    BY <2>1, <2>3, <1>2, Smaller
  <2>6. Cardinality(older(g)) = 0
    BY <2>2, FS_EmptySet
  <2> HIDE DEF new, older
  <2>7. Rank(g, old, lines, known) = Cardinality(new(g)) + 0
        /\ Rank(f, old, lines, known) = Cardinality(new(f)) + Cardinality(older(f))
    BY <2>6 DEF Rank, new, older
  <2> QED
    BY <1>0, <1>2, <2>4, <2>5, <2>7
<1>4. CASE g \in older(f)
  <2>1. f \notin read /\ f \in DOMAIN old /\ older(f) = old[f]
    BY <1>4 DEF Older, Numbered
  <2>2. new(f) = known
    BY <2>1 DEF Newer, About
  <2>3. /\ Behind(g, old, lines, known) \subseteq Behind(f, old, lines, known)
        /\ older(g) \subseteq older(f) \ {g}
    <3>1. g \in DOMAIN old /\ old[g] \subseteq old[f] /\ g \notin old[g]
      <4>1. old[f] \subseteq DOMAIN old /\ g \in old[f]
        BY <1>4, <2>1 DEF Chain
      <4>2. g \notin old[g]
        BY <4>1 DEF Chain
      <4>3. old[g] \subseteq old[f]
        BY <2>1, <4>1 DEF Chain
      <4> QED
        BY <4>1, <4>2, <4>3
    <3>2. older(g) \subseteq old[g]
      BY DEF Older
    <3>3. About(lines, new(g)) \subseteq About(lines, new(f))
      BY <2>2 DEF About, Newer
    <3> QED
      BY <2>1, <3>1, <3>2, <3>3 DEF Behind
  <2>4. Cardinality(older(g)) < Cardinality(older(f))
    BY <1>2, <1>4, <2>3, Smaller
  <2>5. Cardinality(new(g)) <= Cardinality(new(f))
    BY <1>0, <1>1, <1>2, <2>2, Smaller
  <2> HIDE DEF new, older
  <2>6. Rank(g, old, lines, known) = Cardinality(new(g)) + Cardinality(older(g))
        /\ Rank(f, old, lines, known) = Cardinality(new(f)) + Cardinality(older(f))
    BY DEF Rank, new, older
  <2> QED
    BY <1>0, <1>2, <2>3, <2>4, <2>5, <2>6
<1> QED
  BY <1>3, <1>4 DEF Behind

(* What is kept is again an order, and never more than the cache holds.    *)
LEMMA RenumberedShape ==
  ASSUME NEW old \in Caches, Chain(old), NEW lines \in Seq(Lines), NEW known \in SUBSET DOMAIN lines
  PROVE  LET new == Renumbered(old, lines, known) IN
           /\ new \in Caches /\ Chain(new)
           /\ DOMAIN new = {f \in Numbered(old, lines, known) : Rank(f, old, lines, known) < CacheSize}
           /\ \A f \in DOMAIN new : new[f] = Behind(f, old, lines, known)
           /\ Cardinality(DOMAIN new) <= CacheSize
<1> DEFINE new == Renumbered(old, lines, known)
           all == Numbered(old, lines, known)
           kept == {f \in all : Rank(f, old, lines, known) < CacheSize}
<1>1. new = [f \in kept |-> Behind(f, old, lines, known)]
  BY DEF Renumbered, Numbered, Rank, Behind, Remembered
<1>2. DOMAIN new = kept /\ \A f \in kept : new[f] = Behind(f, old, lines, known)
  BY <1>1
<1>3. all \in SUBSET Lines
  <2>1. DOMAIN old \in SUBSET Lines
    BY CacheShape
  <2>2. About(lines, known) \subseteq Lines
    BY DEF About
  <2> QED
    BY <2>1, <2>2 DEF Numbered
<1>4. CacheSize \in Nat \ {0}
  BY BoundAssumption
<1>5. ASSUME NEW f \in kept, NEW g \in Behind(f, old, lines, known)
      PROVE  /\ g \in kept
             /\ Rank(g, old, lines, known) < Rank(f, old, lines, known)
             /\ Behind(g, old, lines, known) \subseteq Behind(f, old, lines, known)
  <2>1. g \in all
    BY BehindOrders
  <2>2. /\ Rank(g, old, lines, known) < Rank(f, old, lines, known)
        /\ Behind(g, old, lines, known) \subseteq Behind(f, old, lines, known)
        /\ Rank(g, old, lines, known) \in Nat /\ Rank(f, old, lines, known) \in Nat
    BY BehindRanks
  <2>3. Rank(g, old, lines, known) < CacheSize
    BY <2>2, <1>4
  <2> QED
    BY <2>1, <2>2, <2>3
<1>6. new \in [kept -> SUBSET kept]
  <2>1. \A f \in kept : Behind(f, old, lines, known) \in SUBSET kept
    BY <1>5
  <2> HIDE DEF new, kept
  <2> QED
    BY <1>1, <2>1
<1>7. Chain(new)
  <2>1. \A f \in kept : f \notin new[f]
    BY <1>2, BehindOrders
  <2>2. \A f, g \in kept : f = g \/ g \in new[f] \/ f \in new[g]
    BY <1>2, BehindOrders
  <2>3. \A f \in kept : \A g \in new[f] : new[g] \subseteq new[f]
    BY <1>2, <1>5
  <2> HIDE DEF new, kept
  <2> QED
    BY <1>2, <1>6, <2>1, <2>2, <2>3 DEF Chain
<1>8. new \in Caches
  <2>1. DOMAIN new \in SUBSET Lines
    BY <1>2, <1>3
  <2> HIDE DEF new, kept
  <2> QED
    BY <1>2, <1>6, <2>1, CacheShape
<1>9. Cardinality(kept) <= CacheSize
  <2> DEFINE rank == [f \in kept |-> Rank(f, old, lines, known)]
  <2>1. ASSUME NEW f \in kept
        PROVE  Rank(f, old, lines, known) \in 0..CacheSize - 1
    <3>1. Rank(f, old, lines, known) \in Nat
      BY RankIsNat
    <3> HIDE DEF all
    <3> QED
      BY <3>1, <1>4
  <2>2. ASSUME NEW f \in kept, NEW g \in kept, rank[f] = rank[g]
        PROVE  f = g
    <3>1. g \notin Behind(f, old, lines, known) /\ f \notin Behind(g, old, lines, known)
      <4>1. Rank(f, old, lines, known) = Rank(g, old, lines, known)
            /\ Rank(f, old, lines, known) \in Int
        BY <2>1, <2>2
      <4> HIDE DEF rank
      <4> QED
        BY <4>1, <1>5
    <3> QED
      BY <3>1, BehindOrders
  <2>3. rank \in [kept -> 0..CacheSize - 1]
    BY <2>1
  <2> HIDE DEF rank, kept
  <2>4. rank \in Injection(kept, 0..CacheSize - 1)
    BY <2>2, <2>3 DEF Injection, IsInjective
  <2>5. IsFiniteSet(0..CacheSize - 1) /\ Cardinality(0..CacheSize - 1) = CacheSize
    <3>1. CacheSize - 1 \in Int /\ ~(0 > CacheSize - 1) /\ (CacheSize - 1) - 0 + 1 = CacheSize
      BY <1>4
    <3> QED
      BY <3>1, FS_Interval
  <2> QED
    BY <2>4, <2>5, FS_Injection
<1> HIDE DEF new, kept
<1>10. Cardinality(DOMAIN new) <= CacheSize
  BY <1>2, <1>9
<1> QED
  BY <1>2, <1>7, <1>8, <1>10 DEF new, kept

(* What a cut leaves is an order, too.                                     *)
LEMMA PartShape ==
  ASSUME NEW whole \in States, Chain(whole.seen),
         NEW counters, NEW front \in Fronts(whole.seen)
  PROVE  LET part == Part(whole, counters, front) IN
           /\ part \in States /\ Chain(part.seen)
           /\ DOMAIN part.seen = front
           /\ \A f \in front : part.seen[f] \subseteq whole.seen[f]
           /\ Cardinality(front) <= Cardinality(DOMAIN whole.seen)
<1> DEFINE part == Part(whole, counters, front)
           seen == [f \in front |-> whole.seen[f] \cap front]
           counter == [s \in Ssids |-> IF s \in counters THEN whole.counter[s] ELSE 0]
<1>1. part = [counter |-> counter, seen |-> seen]
  BY DEF Part
<1>2. part.counter = counter /\ part.seen = seen
  BY <1>1
<1>3. whole.counter \in Counters /\ whole.seen \in Caches
  BY DEF States
<1>4. front \in SUBSET DOMAIN whole.seen /\ DOMAIN whole.seen \in SUBSET Lines
  BY <1>3, CacheShape DEF Fronts
<1>5. counter \in Counters
  BY <1>3 DEF Counters
<1>6. DOMAIN seen = front /\ \A f \in front : seen[f] = whole.seen[f] \cap front
  OBVIOUS
<1>7. seen \in [front -> SUBSET front]
  OBVIOUS
<1> HIDE DEF seen, counter
<1>8. seen \in Caches
  BY <1>4, <1>6, <1>7, CacheShape
<1>9. Chain(seen)
  BY <1>4, <1>6, <1>7 DEF Chain
<1>10. part \in States
  BY <1>1, <1>5, <1>8 DEF States
<1>11. Cardinality(front) <= Cardinality(DOMAIN whole.seen)
  BY <1>4, SomeLines, Smaller
<1> HIDE DEF part
<1>12. part.seen = seen /\ \A f \in front : part.seen[f] \subseteq whole.seen[f]
  BY <1>2, <1>6
<1> QED
  BY <1>6, <1>9, <1>10, <1>11, <1>12 DEF part

--------------------------------------------------------------------------------
(* The state file and the ring.  They are true of any launchers.           *)

OfSsid(files, s, past) == {f \in files : SsidOf[past[f]] = s}

(* The lines of a ring, of n so far: each is the one before it or the next *)
(* one of the log.                                                         *)
Steady(q, n) ==
  /\ q \in Seq(1..n) /\ Len(q) <= RingSize
  /\ \A i, j \in DOMAIN q : i <= j => q[i] <= q[j] /\ q[j] - q[i] <= j - i

(* What a state file says of the log so far: it knows lines of the log     *)
(* only, and has counted those it knows.                                   *)
Sound(file, past) ==
  /\ file \in States /\ Chain(file.seen)
  /\ Cardinality(DOMAIN file.seen) <= CacheSize
  /\ DOMAIN file.seen \subseteq DOMAIN past
  /\ \A s \in Ssids : file.counter[s] >= Cardinality(OfSsid(DOMAIN file.seen, s, past))

Runs == [at : {"idle", "armed", "ifaces", "read", "merged", "saved", "counted", "unavailable"},
         ifs : SUBSET Ifaces, lines : Seq(Lines), draft : States, out : Counters]

SoundRun(r, past) ==
  r \in Runs /\ Steady(r.lines, Len(past)) /\ Sound(r.draft, past)

SoundLog ==
  /\ history \in Seq(Ifaces) /\ Len(history) <= MaxEvents
  /\ Steady(ring, Len(history))
  /\ ring # <<>> => ring[Len(ring)] = Len(history)
  /\ up \subseteq Ifaces

SoundRuns ==
  /\ DOMAIN run = Launchers /\ run = [l \in Launchers |-> run[l]]
  /\ \A l \in Launchers : SoundRun(run[l], history)

SoundShown ==
  /\ shown \in [available : BOOLEAN, counter : Counters]
  /\ used \in [faults : 0..MaxFaults, losses : 0..MaxFaults, setups : 0..MaxFaults]
  /\ used.losses <= used.faults /\ used.setups <= used.faults

(* The inductive invariant of a router on which both cron and setup.sh     *)
(* start runs.                                                             *)
SharedInv == SoundLog /\ Sound(saved, history) /\ SoundRuns /\ SoundShown

LEMMA OfSsidFinite ==
  ASSUME NEW files \in SUBSET Lines, NEW s, NEW past
  PROVE  /\ OfSsid(files, s, past) \in SUBSET Lines
         /\ IsFiniteSet(OfSsid(files, s, past)) /\ Cardinality(OfSsid(files, s, past)) \in Nat
<1>1. OfSsid(files, s, past) \in SUBSET Lines
  BY DEF OfSsid
<1> QED
  BY <1>1, SomeLines

(* A set of lines that is covered by two others is no larger than both.    *)
LEMMA OfSsidCovered ==
  ASSUME NEW A \in SUBSET Lines, NEW B \in SUBSET Lines, NEW C \in SUBSET Lines,
         A \subseteq B \cup C, NEW s, NEW past
  PROVE  Cardinality(OfSsid(A, s, past))
           <= Cardinality(OfSsid(B, s, past)) + Cardinality(OfSsid(C, s, past))
<1> DEFINE a == OfSsid(A, s, past)
           b == OfSsid(B, s, past)
           c == OfSsid(C, s, past)
<1>1. a \subseteq b \cup c
  BY DEF OfSsid
<1>2. /\ a \in SUBSET Lines /\ IsFiniteSet(a) /\ Cardinality(a) \in Nat
      /\ b \in SUBSET Lines /\ IsFiniteSet(b) /\ Cardinality(b) \in Nat
      /\ c \in SUBSET Lines /\ IsFiniteSet(c) /\ Cardinality(c) \in Nat
  BY OfSsidFinite
<1> HIDE DEF a, b, c
<1>3. /\ IsFiniteSet(b \cup c)
      /\ Cardinality(b \cup c) = Cardinality(b) + Cardinality(c) - Cardinality(b \cap c)
  BY <1>2, FS_Union
<1>4. Cardinality(b \cap c) \in Nat
  <2>1. b \cap c \in SUBSET Lines
    BY <1>2
  <2> QED
    BY <2>1, SomeLines
<1>5. Cardinality(a) <= Cardinality(b \cup c)
  BY <1>1, <1>3, Smaller
<1>6. Cardinality(a) <= Cardinality(b) + Cardinality(c)
  BY <1>2, <1>3, <1>4, <1>5
<1> QED
  BY <1>6 DEF a, b, c

(* Two disjoint sets within a third are together no larger than it.        *)
LEMMA OfSsidPacked ==
  ASSUME NEW A \in SUBSET Lines, NEW B \in SUBSET Lines, NEW C \in SUBSET Lines,
         B \subseteq A, C \subseteq A, B \cap C = {}, NEW s, NEW past
  PROVE  Cardinality(OfSsid(B, s, past)) + Cardinality(OfSsid(C, s, past))
           <= Cardinality(OfSsid(A, s, past))
<1> DEFINE a == OfSsid(A, s, past)
           b == OfSsid(B, s, past)
           c == OfSsid(C, s, past)
<1>1. b \cup c \subseteq a /\ b \cap c = {}
  BY DEF OfSsid
<1>2. /\ IsFiniteSet(a) /\ Cardinality(a) \in Nat
      /\ IsFiniteSet(b) /\ Cardinality(b) \in Nat
      /\ IsFiniteSet(c) /\ Cardinality(c) \in Nat
  BY OfSsidFinite
<1> HIDE DEF a, b, c
<1>3. Cardinality(b \cup c) = Cardinality(b) + Cardinality(c) - Cardinality(b \cap c)
  BY <1>2, FS_Union
<1>4. Cardinality(b \cap c) = 0
  BY <1>1, FS_EmptySet
<1>5. Cardinality(b \cup c) <= Cardinality(a)
  BY <1>1, <1>2, Smaller
<1>6. Cardinality(b) + Cardinality(c) <= Cardinality(a)
  BY <1>2, <1>3, <1>4, <1>5
<1> QED
  BY <1>6 DEF a, b, c

LEMMA CountedSum ==
  ASSUME NEW counter \in Counters, NEW fresh \in SUBSET Lines
  PROVE  /\ Counted(counter, fresh) \in Counters
         /\ \A s \in Ssids : /\ counter[s] \in Nat /\ Counted(counter, fresh)[s] \in Nat
                             /\ Counted(counter, fresh)[s]
                                  = counter[s] + Cardinality(OfSsid(fresh, s, history))
<1>1. \A s \in Ssids : counter[s] \in Nat
  BY DEF Counters
<1>2. \A s \in Ssids : Cardinality(OfSsid(fresh, s, history)) \in Nat
  BY OfSsidFinite
<1>3. Counted(counter, fresh)
        = [s \in Ssids |-> counter[s] + Cardinality(OfSsid(fresh, s, history))]
  BY DEF Counted, OfSsid
<1>4. \A s \in Ssids : counter[s] + Cardinality(OfSsid(fresh, s, history)) \in Nat
  BY <1>1, <1>2
<1> QED
  BY <1>1, <1>3, <1>4 DEF Counters

LEMMA KnownLines ==
  ASSUME NEW n \in Nat, NEW lines, Steady(lines, n), n <= MaxEvents, NEW ifs
  PROVE  /\ lines \in Seq(Lines) /\ Known(lines, ifs) \in SUBSET DOMAIN lines
         /\ About(lines, Known(lines, ifs)) \subseteq 1..n
         /\ About(lines, Known(lines, ifs)) \in SUBSET Range(lines)
         /\ Range(lines) \subseteq 1..n /\ 1..n \subseteq Lines
<1>1. 1..n \subseteq Lines
  BY BoundAssumption DEF Lines
<1>2. lines \in Seq(1..n)
  BY DEF Steady
<1>3. \A k \in DOMAIN lines : lines[k] \in 1..n /\ lines[k] \in Lines
  BY <1>1, <1>2
<1>4. lines \in Seq(Lines)
  BY <1>2, <1>3
<1>5. Known(lines, ifs) \in SUBSET DOMAIN lines
  BY DEF Known
<1> QED
  BY <1>1, <1>3, <1>4, <1>5 DEF About, Range

(* The awk program leaves a sound state file.                              *)
LEMMA MergeSound ==
  ASSUME NEW old, Sound(old, history), NEW lines, Steady(lines, Len(history)),
         history \in Seq(Ifaces), Len(history) <= MaxEvents, NEW ifs
  PROVE  Sound(Merge(old, lines, ifs), history)
<1> DEFINE known == Known(lines, ifs)
           fresh == About(lines, known) \ DOMAIN old.seen
           new == Merge(old, lines, ifs)
<1>1. /\ old.counter \in Counters /\ old.seen \in Caches /\ Chain(old.seen)
      /\ DOMAIN old.seen \subseteq DOMAIN history
  BY DEF Sound, States
<1>2. /\ DOMAIN history = 1..Len(history) /\ Len(history) \in Nat
  OBVIOUS
<1>3. /\ lines \in Seq(Lines) /\ known \in SUBSET DOMAIN lines
      /\ About(lines, known) \subseteq DOMAIN history /\ DOMAIN history \subseteq Lines
  BY <1>2, KnownLines
<1>4. new.counter = Counted(old.counter, fresh) /\ new.seen = Renumbered(old.seen, lines, known)
      /\ new = [counter |-> Counted(old.counter, fresh), seen |-> Renumbered(old.seen, lines, known)]
  BY DEF Merge
<1> HIDE DEF known, new
<1>5. /\ new.seen \in Caches /\ Chain(new.seen)
      /\ DOMAIN new.seen \subseteq DOMAIN old.seen \cup fresh
      /\ Cardinality(DOMAIN new.seen) <= CacheSize
  <2> DEFINE seen == Renumbered(old.seen, lines, known)
  <2>1. /\ seen \in Caches /\ Chain(seen)
        /\ DOMAIN seen \subseteq Numbered(old.seen, lines, known)
        /\ Cardinality(DOMAIN seen) <= CacheSize
    <3>1. /\ seen \in Caches /\ Chain(seen)
          /\ DOMAIN seen = {f \in Numbered(old.seen, lines, known) :
                              Rank(f, old.seen, lines, known) < CacheSize}
          /\ Cardinality(DOMAIN seen) <= CacheSize
      BY <1>1, <1>3, RenumberedShape, Zenon
    <3> HIDE DEF seen
    <3> QED
      BY <3>1
  <2>2. Numbered(old.seen, lines, known) \subseteq DOMAIN old.seen \cup fresh
    BY DEF Numbered
  <2> HIDE DEF seen, fresh
  <2>3. new.seen = seen
    BY <1>4 DEF seen
  <2> QED
    BY <2>1, <2>2, <2>3
<1>6. fresh \in SUBSET Lines /\ DOMAIN old.seen \in SUBSET Lines /\ DOMAIN new.seen \in SUBSET Lines
  BY <1>1, <1>3, <1>5
<1> HIDE DEF fresh
<1>7. new.counter \in Counters
  BY <1>1, <1>4, <1>6, CountedSum
<1>8. ASSUME NEW s \in Ssids
      PROVE  new.counter[s] >= Cardinality(OfSsid(DOMAIN new.seen, s, history))
  <2>1. old.counter[s] >= Cardinality(OfSsid(DOMAIN old.seen, s, history))
    BY DEF Sound
  <2>2. /\ old.counter[s] \in Nat
        /\ new.counter[s] = old.counter[s] + Cardinality(OfSsid(fresh, s, history))
    BY <1>1, <1>4, <1>6, CountedSum
  <2>3. Cardinality(OfSsid(DOMAIN new.seen, s, history))
          <= Cardinality(OfSsid(DOMAIN old.seen, s, history)) + Cardinality(OfSsid(fresh, s, history))
    BY <1>5, <1>6, OfSsidCovered
  <2>4. /\ Cardinality(OfSsid(DOMAIN new.seen, s, history)) \in Nat
        /\ Cardinality(OfSsid(DOMAIN old.seen, s, history)) \in Nat
        /\ Cardinality(OfSsid(fresh, s, history)) \in Nat
    BY <1>6, OfSsidFinite
  <2> QED
    BY <2>1, <2>2, <2>3, <2>4
<1>9. new \in States
  BY <1>4, <1>5, <1>7 DEF States
<1>10. DOMAIN new.seen \subseteq DOMAIN history
  BY <1>1, <1>3, <1>5 DEF fresh
<1>11. Sound(new, history)
  BY <1>5, <1>8, <1>9, <1>10 DEF Sound
<1> QED
  BY <1>11 DEF new

(* A state file that is cut short is sound: it may have lost lines that it *)
(* has counted, but it remembers none that it has not.                     *)
LEMMA CutSound ==
  ASSUME NEW whole, NEW past, Sound(whole, past), DOMAIN past \subseteq Lines,
         NEW part \in Truncations(whole)
  PROVE  /\ Sound(part, past)
         /\ DOMAIN part.seen \subseteq DOMAIN whole.seen
         /\ \A f \in DOMAIN part.seen : part.seen[f] \subseteq whole.seen[f]
         /\ \A s \in Ssids : part.counter[s] <= whole.counter[s]
<1>1. whole \in States /\ whole.counter \in Counters /\ whole.seen \in Caches /\ Chain(whole.seen)
  BY DEF Sound, States
<1>2. PICK counters \in SUBSET Ssids, front \in Fronts(whole.seen) :
        /\ part = Part(whole, counters, front)
        /\ front = {} \/ counters = Ssids
  <2>1. CASE \E counters \in SUBSET Ssids : part = Part(whole, counters, {})
    <3>1. {} \in Fronts(whole.seen)
      BY DEF Fronts
    <3> QED
      BY <2>1, <3>1
  <2>2. CASE \E front \in Fronts(whole.seen) : part = Part(whole, Ssids, front)
    BY <2>2
  <2> QED
    BY <2>1, <2>2 DEF Truncations
<1>3. /\ part \in States /\ Chain(part.seen)
      /\ DOMAIN part.seen = front
      /\ \A f \in front : part.seen[f] \subseteq whole.seen[f]
      /\ Cardinality(front) <= Cardinality(DOMAIN whole.seen)
  BY <1>1, <1>2, PartShape
<1>4. part.counter = [s \in Ssids |-> IF s \in counters THEN whole.counter[s] ELSE 0]
  BY <1>2 DEF Part
<1>5. \A s \in Ssids : whole.counter[s] \in Nat /\ part.counter[s] <= whole.counter[s]
  <2>1. \A s \in Ssids : whole.counter[s] \in Nat
    BY <1>1 DEF Counters
  <2> QED
    BY <1>4, <2>1
<1>6. front \in SUBSET DOMAIN whole.seen /\ DOMAIN whole.seen \in SUBSET Lines
  BY <1>1, CacheShape DEF Fronts
<1>7. Cardinality(front) <= CacheSize
  <2>1. Cardinality(DOMAIN whole.seen) <= CacheSize
    BY DEF Sound
  <2>2. Cardinality(front) \in Nat /\ Cardinality(DOMAIN whole.seen) \in Nat
    BY <1>6, SomeLines, Smaller
  <2> QED
    BY <1>3, <2>1, <2>2, BoundAssumption
<1>8. ASSUME NEW s \in Ssids
      PROVE  part.counter[s] >= Cardinality(OfSsid(front, s, past))
  <2>1. CASE front = {}
    <3>1. OfSsid(front, s, past) = {}
      BY <2>1 DEF OfSsid
    <3>2. Cardinality(OfSsid(front, s, past)) = 0
      BY <3>1, FS_EmptySet
    <3>3. part.counter[s] >= 0
      BY <1>4, <1>5
    <3> QED
      BY <3>2, <3>3
  <2>2. CASE counters = Ssids
    <3>1. part.counter[s] = whole.counter[s]
      BY <1>4, <2>2
    <3>2. Cardinality(OfSsid(front, s, past)) <= Cardinality(OfSsid(DOMAIN whole.seen, s, past))
      <4>1. OfSsid(front, s, past) \in SUBSET OfSsid(DOMAIN whole.seen, s, past)
        BY <1>6 DEF OfSsid
      <4> QED
        BY <1>6, <4>1, OfSsidFinite, Smaller
    <3>3. whole.counter[s] >= Cardinality(OfSsid(DOMAIN whole.seen, s, past))
      BY DEF Sound
    <3>4. /\ Cardinality(OfSsid(front, s, past)) \in Nat
          /\ Cardinality(OfSsid(DOMAIN whole.seen, s, past)) \in Nat
      BY <1>6, OfSsidFinite
    <3> QED
      BY <1>5, <3>1, <3>2, <3>3, <3>4
  <2> QED
    BY <1>2, <2>1, <2>2
<1>9. DOMAIN part.seen \subseteq DOMAIN past
  BY <1>3, <1>6 DEF Sound
<1>10. Sound(part, past)
  BY <1>3, <1>7, <1>8, <1>9 DEF Sound
<1> QED
  BY <1>3, <1>5, <1>6, <1>10

(* The log growing takes nothing from a state file.                        *)
LEMMA SoundLater ==
  ASSUME NEW past \in Seq(Ifaces), NEW i \in Ifaces, NEW file, Sound(file, past)
  PROVE  Sound(file, Append(past, i))
<1> DEFINE now == Append(past, i)
<1>1. \A f \in DOMAIN past : f \in DOMAIN now /\ now[f] = past[f]
  OBVIOUS
<1>2. DOMAIN file.seen \subseteq DOMAIN past
  BY DEF Sound
<1> HIDE DEF now
<1>3. \A s \in Ssids : OfSsid(DOMAIN file.seen, s, now) = OfSsid(DOMAIN file.seen, s, past)
  BY <1>1, <1>2 DEF OfSsid
<1>4. Sound(file, now)
  BY <1>1, <1>2, <1>3 DEF Sound
<1> QED
  BY <1>4 DEF now

LEMMA SteadyLater ==
  ASSUME NEW n \in Nat, NEW q, Steady(q, n)
  PROVE  Steady(q, n + 1)
<1>1. q \in Seq(1..n + 1)
  <2>1. q \in Seq(1..n) /\ 1..n \subseteq 1..n + 1
    BY DEF Steady
  <2> QED
    BY <2>1
<1> QED
  BY <1>1 DEF Steady

(* A line is logged that is the newest one again or the next.              *)
LEMMA SteadyLog ==
  ASSUME NEW n \in Nat, NEW m \in Nat, n <= m, NEW q, Steady(q, n), NEW f \in 1..m,
         q # <<>> => q[Len(q)] <= f /\ f - q[Len(q)] <= 1
  PROVE  LET new == Append(IF Len(q) = RingSize THEN Tail(q) ELSE q, f) IN
           /\ Steady(new, m)
           /\ new # <<>> /\ new[Len(new)] = f
           /\ Range(new) \subseteq Range(q) \cup {f}
<1> DEFINE rest == IF Len(q) = RingSize THEN Tail(q) ELSE q
           new == Append(rest, f)
<1>0. RingSize \in Nat \ {0}
  BY BoundAssumption
<1>1. q \in Seq(1..m) /\ Len(q) \in Nat /\ Len(q) <= RingSize
  <2>1. q \in Seq(1..n) /\ 1..n \subseteq 1..m
    BY DEF Steady
  <2> QED
    BY <2>1 DEF Steady
<1>2. \A i, j \in DOMAIN q : i <= j => q[i] <= q[j] /\ q[j] - q[i] <= j - i
  BY DEF Steady
<1>3. PICK d \in {0, 1} :
        /\ rest \in Seq(1..m) /\ Len(rest) \in Nat /\ Len(rest) < RingSize
        /\ Len(q) = Len(rest) + d
        /\ \A i \in 1..Len(rest) : rest[i] = q[i + d]
  <2>1. CASE Len(q) = RingSize
    <3>1. rest = Tail(q) /\ q # <<>>
      BY <1>0, <1>1, <2>1
    <3>2. Tail(q) \in Seq(1..m) /\ Len(Tail(q)) = Len(q) - 1
      BY <1>1, <3>1
    <3>3. \A i \in 1..Len(Tail(q)) : Tail(q)[i] = q[i + 1]
      BY <1>1, <3>1
    <3> QED
      BY <1>0, <1>1, <2>1, <3>1, <3>2, <3>3
  <2>2. CASE Len(q) # RingSize
    BY <1>0, <1>1, <2>2
  <2> QED
    BY <2>1, <2>2
<1> HIDE DEF rest
<1>4. /\ new \in Seq(1..m) /\ Len(new) = Len(rest) + 1 /\ new[Len(rest) + 1] = f
      /\ \A i \in 1..Len(rest) : new[i] = rest[i]
  BY <1>3
<1> HIDE DEF new
<1>5. \A i \in 1..Len(rest) : i + d \in DOMAIN q /\ q[i + d] \in 1..m /\ new[i] = q[i + d]
  <2>1. \A i \in 1..Len(rest) : i + d \in 1..Len(q)
    BY <1>1, <1>3
  <2>2. DOMAIN q = 1..Len(q) /\ \A k \in 1..Len(q) : q[k] \in 1..m
    BY <1>1
  <2> QED
    BY <1>3, <1>4, <2>1, <2>2
<1>6. ASSUME NEW i \in 1..Len(rest)
      PROVE  q[i + d] <= f /\ f - q[i + d] <= Len(rest) + 1 - i
  <2>1. q # <<>> /\ Len(q) \in DOMAIN q /\ i + d \in DOMAIN q /\ i + d <= Len(q)
    BY <1>1, <1>3
  <2>2. q[i + d] <= q[Len(q)] /\ q[Len(q)] - q[i + d] <= Len(q) - (i + d)
    BY <1>2, <2>1
  <2>3. q[Len(q)] <= f /\ f - q[Len(q)] <= 1
    BY <2>1
  <2>4. q[i + d] \in Nat /\ q[Len(q)] \in Nat
    BY <1>1, <2>1
  <2>5. Len(q) - (i + d) = Len(rest) - i
    BY <1>1, <1>3
  <2>6. f \in Nat /\ Len(rest) - i \in Int /\ Len(rest) + 1 - i = (Len(rest) - i) + 1
    BY <1>3
  <2> QED
    BY <2>2, <2>3, <2>4, <2>5, <2>6
<1>7. ASSUME NEW i \in DOMAIN new, NEW j \in DOMAIN new, i <= j
      PROVE  new[i] <= new[j] /\ new[j] - new[i] <= j - i
  <2>0. DOMAIN new = 1..Len(rest) + 1
    BY <1>3, <1>4
  <2>1. CASE j \in 1..Len(rest)
    <3>1. i \in 1..Len(rest)
      BY <1>3, <1>7, <2>0, <2>1
    <3>2. i + d <= j + d
      BY <1>3, <1>7, <2>0
    <3>3. q[i + d] <= q[j + d] /\ q[j + d] - q[i + d] <= (j + d) - (i + d)
      BY <1>2, <1>5, <2>1, <3>1, <3>2
    <3>4. (j + d) - (i + d) = j - i
      BY <1>3, <2>0
    <3> QED
      BY <1>5, <2>1, <3>1, <3>3, <3>4
  <2>2. CASE j = Len(rest) + 1 /\ i \in 1..Len(rest)
    BY <1>4, <1>5, <1>6, <2>2
  <2>3. CASE j = Len(rest) + 1 /\ i = Len(rest) + 1
    BY <1>3, <1>4, <2>3
  <2> QED
    BY <1>3, <2>0, <2>1, <2>2, <2>3
<1>8. Len(new) <= RingSize
  BY <1>0, <1>3, <1>4
<1>9. Steady(new, m)
  BY <1>4, <1>7, <1>8 DEF Steady
<1>10. Range(new) \subseteq Range(q) \cup {f}
  <2>1. DOMAIN new = 1..Len(rest) + 1
    BY <1>3, <1>4
  <2>2. \A i \in DOMAIN new : i \in 1..Len(rest) \/ i = Len(rest) + 1
    BY <1>3, <2>1
  <2> QED
    BY <1>4, <1>5, <2>2 DEF Range
<1>11. new # <<>> /\ new[Len(new)] = f
  BY <1>3, <1>4
<1> QED
  BY <1>9, <1>10, <1>11 DEF new, rest

Close(f, g) == f - g < RingSize /\ g - f < RingSize

(* Two lines that stood in the ring together are close.                    *)
LEMMA SteadyClose ==
  ASSUME NEW n \in Nat, NEW q, Steady(q, n), NEW f \in Range(q), NEW g \in Range(q)
  PROVE  Close(f, g)
<1>1. PICK i \in DOMAIN q : q[i] = f
  BY DEF Range
<1>2. PICK j \in DOMAIN q : q[j] = g
  BY DEF Range
<1>3. q \in Seq(1..n) /\ Len(q) \in Nat /\ Len(q) <= RingSize /\ DOMAIN q = 1..Len(q)
  BY DEF Steady
<1>4. f \in Nat /\ g \in Nat /\ i \in Nat /\ j \in Nat
  BY <1>1, <1>2, <1>3
<1>5. RingSize \in Nat /\ j - i < RingSize /\ i - j < RingSize
  BY <1>3, BoundAssumption
<1>6. i <= j => q[i] <= q[j] /\ q[j] - q[i] <= j - i
  BY DEF Steady
<1>7. j <= i => q[j] <= q[i] /\ q[i] - q[j] <= i - j
  BY DEF Steady
<1>8. CASE i <= j
  BY <1>1, <1>2, <1>4, <1>5, <1>6, <1>8 DEF Close
<1>9. CASE j <= i
  BY <1>1, <1>2, <1>4, <1>5, <1>7, <1>9 DEF Close
<1> QED
  BY <1>4, <1>8, <1>9

LEMMA RunParts ==
  ASSUME NEW r \in Runs
  PROVE  /\ r.ifs \in SUBSET Ifaces /\ r.lines \in Seq(Lines)
         /\ r.draft \in States /\ r.out \in Counters
         /\ r.at \in {"idle", "armed", "ifaces", "read", "merged", "saved", "counted", "unavailable"}
  BY DEF Runs

LEMMA EmptySound ==
  ASSUME NEW past \in Seq(Ifaces)
  PROVE  Sound(Empty, past) /\ Zero \in Counters /\ Steady(<<>>, Len(past))
<1>1. Zero \in Counters
  BY DEF Zero, Counters
<1>2. DOMAIN Empty.seen = {} /\ Empty.counter = Zero
  BY DEF Empty
<1>3. Empty.seen \in Caches /\ Chain(Empty.seen)
  <2>1. Empty.seen \in [{} -> SUBSET {}]
    BY DEF Empty
  <2> QED
    BY <1>2, <2>1, CacheShape DEF Chain
<1>4. Empty \in States
  <2>1. Empty = [counter |-> Zero, seen |-> Empty.seen]
    BY DEF Empty
  <2> QED
    BY <1>1, <1>3, <2>1 DEF States
<1>5. Cardinality(DOMAIN Empty.seen) <= CacheSize
  BY <1>2, FS_EmptySet, BoundAssumption
<1>6. ASSUME NEW s \in Ssids
      PROVE  Empty.counter[s] >= Cardinality(OfSsid(DOMAIN Empty.seen, s, past))
  <2>1. OfSsid(DOMAIN Empty.seen, s, past) = {}
    BY <1>2 DEF OfSsid
  <2>2. Cardinality(OfSsid(DOMAIN Empty.seen, s, past)) = 0
    BY <2>1, FS_EmptySet
  <2>3. Empty.counter[s] = 0
    BY <1>2 DEF Zero
  <2> QED
    BY <2>2, <2>3
<1>7. Sound(Empty, past)
  BY <1>2, <1>3, <1>4, <1>5, <1>6 DEF Sound
<1>8. Steady(<<>>, Len(past))
  BY BoundAssumption DEF Steady
<1> QED
  BY <1>1, <1>7, <1>8

LEMMA IdleSound ==
  ASSUME NEW past \in Seq(Ifaces)
  PROVE  SoundRun(Idle, past)
<1>1. Sound(Empty, past) /\ Zero \in Counters /\ Steady(<<>>, Len(past))
  BY EmptySound
<1>2. Empty \in States
  BY <1>1 DEF Sound
<1>3. Idle \in Runs
  BY <1>1, <1>2 DEF Idle, Runs
<1> QED
  BY <1>1, <1>3 DEF SoundRun, Idle

LEMMA RunLater ==
  ASSUME NEW past \in Seq(Ifaces), NEW i \in Ifaces, NEW r, SoundRun(r, past)
  PROVE  SoundRun(r, Append(past, i))
<1>1. Len(past) \in Nat /\ Len(Append(past, i)) = Len(past) + 1
  OBVIOUS
<1>2. Steady(r.lines, Len(past)) /\ Sound(r.draft, past) /\ r \in Runs
  BY DEF SoundRun
<1>3. Steady(r.lines, Len(past) + 1)
  BY <1>1, <1>2, SteadyLater
<1>4. Sound(r.draft, Append(past, i))
  BY <1>2, SoundLater
<1> QED
  BY <1>1, <1>2, <1>3, <1>4 DEF SoundRun

(* What a step of the run that l started changes: that run, and the state  *)
(* file, which becomes the run's draft.                                    *)
RunMoves(l) ==
  /\ UNCHANGED <<history, ring, up>>
  /\ run' = [run EXCEPT ![l] = run'[l]]
  /\ SoundRun(run'[l], history)
  /\ saved' \in {saved, run[l].draft}
  /\ shown'.counter \in {shown.counter, run[l].out}
  /\ shown' = [available |-> shown'.available, counter |-> shown'.counter]
  /\ shown'.available \in BOOLEAN
  /\ used' \in [faults : 0..MaxFaults, losses : 0..MaxFaults, setups : 0..MaxFaults]
  /\ used'.losses <= used'.faults /\ used'.setups <= used'.faults
  /\ used'.setups \in {used.setups, used.setups + 1}

StepOf(l) ==
  Starts(l) \/ RunStep(l) \/ GivesUp(l) \/ ReadsNoLog(l) \/ MergeCutShort(l) \/ Killed(l)

LEMMA FaultCounts ==
  ASSUME SharedInv, Fault
  PROVE  /\ used' \in [faults : 0..MaxFaults, losses : 0..MaxFaults, setups : 0..MaxFaults]
         /\ used'.losses <= used'.faults /\ used'.setups <= used'.faults
         /\ used'.losses = used.losses /\ used'.setups = used.setups
<1>1. /\ used \in [faults : 0..MaxFaults, losses : 0..MaxFaults, setups : 0..MaxFaults]
      /\ used.losses <= used.faults /\ used.setups <= used.faults
  BY DEF SharedInv, SoundShown
<1>2. used.faults < MaxFaults /\ used' = [used EXCEPT !.faults = @ + 1] /\ MaxFaults \in Nat
  BY BoundAssumption DEF Fault
<1> QED
  BY <1>1, <1>2

LEMMA RunTouched ==
  ASSUME SharedInv, NEW l \in Launchers, NEW r, run' = [run EXCEPT ![l] = r]
  PROVE  run'[l] = r /\ run' = [run EXCEPT ![l] = run'[l]]
<1>1. l \in DOMAIN run
  BY DEF SharedInv, SoundRuns
<1> QED
  BY <1>1

LEMMA RunStepMoves ==
  ASSUME SharedInv, NEW l \in Launchers, StepOf(l)
  PROVE  RunMoves(l)
<1> DEFINE r == run[l]
           n == Len(history)
<1>1. /\ SoundRun(r, history) /\ r \in Runs /\ Steady(r.lines, n) /\ Sound(r.draft, history)
  BY DEF SharedInv, SoundRuns, SoundRun
<1>2. /\ r.ifs \in SUBSET Ifaces /\ r.lines \in Seq(Lines)
      /\ r.draft \in States /\ r.out \in Counters
  BY <1>1, RunParts
<1>3. /\ history \in Seq(Ifaces) /\ n \in Nat /\ n <= MaxEvents /\ Steady(ring, n)
      /\ up \in SUBSET Ifaces /\ Sound(saved, history)
  BY DEF SharedInv, SoundLog
<1>4. ring \in Seq(Lines)
  BY <1>3, KnownLines
<1>5. /\ shown = [available |-> shown.available, counter |-> shown.counter]
      /\ shown.available \in BOOLEAN /\ shown.counter \in Counters
      /\ used \in [faults : 0..MaxFaults, losses : 0..MaxFaults, setups : 0..MaxFaults]
      /\ used.losses <= used.faults /\ used.setups <= used.faults
  BY DEF SharedInv, SoundShown
<1>6. SoundRun(Idle, history)
  BY <1>3, IdleSound
<1>7. DOMAIN history \subseteq Lines
  BY <1>3, BoundAssumption DEF Lines
<1>8. Starts(l) => RunMoves(l)
  <2> SUFFICES ASSUME Starts(l) PROVE RunMoves(l)
    OBVIOUS
  <2>1. run'[l] = [r EXCEPT !.at = "armed"] /\ run' = [run EXCEPT ![l] = run'[l]]
    BY RunTouched DEF Starts, Advance
  <2>2. SoundRun(run'[l], history)
    BY <1>1, <2>1 DEF SoundRun, Runs
  <2>3. /\ used' \in [faults : 0..MaxFaults, losses : 0..MaxFaults, setups : 0..MaxFaults]
        /\ used'.losses <= used'.faults /\ used'.setups <= used'.faults
        /\ used'.setups \in {used.setups, used.setups + 1}
    <3>1. MaxFaults \in Nat
      BY BoundAssumption
    <3>2. CASE l = "setup"
      <4>1. /\ used.faults < MaxFaults
            /\ used' = [used EXCEPT !.faults = @ + 1, !.setups = @ + 1]
        BY <3>2 DEF Starts
      <4>2. /\ used.faults + 1 \in 0..MaxFaults /\ used.setups + 1 \in 0..MaxFaults
            /\ used.losses <= used.faults + 1 /\ used.setups + 1 <= used.faults + 1
        BY <1>5, <3>1, <4>1
      <4> QED
        BY <1>5, <4>1, <4>2
    <3>3. CASE l # "setup"
      BY <1>5, <3>3 DEF Starts
    <3> QED
      BY <3>2, <3>3
  <2> QED
    BY <1>5, <2>1, <2>2, <2>3 DEF Starts, RunMoves
<1>9. ReadWireless(l) => RunMoves(l)
  <2> SUFFICES ASSUME ReadWireless(l) PROVE RunMoves(l)
    OBVIOUS
  <2> DEFINE next == [r EXCEPT !.at = IF up = {} THEN "unavailable" ELSE "ifaces", !.ifs = up]
  <2>0. run' = [run EXCEPT ![l] = next]
    BY DEF ReadWireless, Advance
  <2>2. SoundRun(next, history)
    BY <1>1, <1>3 DEF SoundRun, Runs
  <2> HIDE DEF next
  <2>1. run'[l] = next /\ run' = [run EXCEPT ![l] = run'[l]]
    BY <2>0, RunTouched
  <2> QED
    BY <1>5, <2>1, <2>2 DEF ReadWireless, RunMoves
<1>10. ReadLog(l) => RunMoves(l)
  <2> SUFFICES ASSUME ReadLog(l) PROVE RunMoves(l)
    OBVIOUS
  <2>1. run'[l] = [r EXCEPT !.at = "read", !.lines = ring] /\ run' = [run EXCEPT ![l] = run'[l]]
    BY RunTouched DEF ReadLog, Advance
  <2>2. SoundRun(run'[l], history)
    BY <1>1, <1>3, <1>4, <2>1 DEF SoundRun, Runs
  <2> QED
    BY <1>5, <2>1, <2>2 DEF ReadLog, RunMoves
<1>11. MergeState(l) => RunMoves(l)
  <2> SUFFICES ASSUME MergeState(l) PROVE RunMoves(l)
    OBVIOUS
  <2>1. /\ run'[l] = [Idle EXCEPT !.at = "merged", !.draft = Merge(saved, r.lines, r.ifs)]
        /\ run' = [run EXCEPT ![l] = run'[l]]
    BY RunTouched DEF MergeState, Advance
  <2>2. Sound(Merge(saved, r.lines, r.ifs), history)
    BY <1>1, <1>3, MergeSound
  <2>3. SoundRun(run'[l], history)
    BY <1>6, <2>1, <2>2 DEF SoundRun, Runs, Idle, Sound
  <2> QED
    BY <1>5, <2>1, <2>3 DEF MergeState, RunMoves
<1>12. SaveState(l) => RunMoves(l)
  <2> SUFFICES ASSUME SaveState(l) PROVE RunMoves(l)
    OBVIOUS
  <2>1. run'[l] = [Idle EXCEPT !.at = "saved"] /\ run' = [run EXCEPT ![l] = run'[l]]
    BY RunTouched DEF SaveState, Advance
  <2>2. SoundRun(run'[l], history)
    BY <1>6, <2>1 DEF SoundRun, Runs, Idle
  <2> QED
    BY <1>5, <2>1, <2>2 DEF SaveState, RunMoves
<1>13. PrintCounters(l) => RunMoves(l)
  <2> SUFFICES ASSUME PrintCounters(l) PROVE RunMoves(l)
    OBVIOUS
  <2>1. /\ run'[l] = [r EXCEPT !.at = "counted", !.out = saved.counter]
        /\ run' = [run EXCEPT ![l] = run'[l]]
    BY RunTouched DEF PrintCounters, Advance
  <2>2. saved.counter \in Counters
    BY <1>3 DEF Sound, States
  <2>3. SoundRun(run'[l], history)
    BY <1>1, <2>1, <2>2 DEF SoundRun, Runs
  <2> QED
    BY <1>5, <2>1, <2>3 DEF PrintCounters, RunMoves
<1>14. Publish(l) => RunMoves(l)
  <2> SUFFICES ASSUME Publish(l) PROVE RunMoves(l)
    OBVIOUS
  <2>1. run'[l] = Idle /\ run' = [run EXCEPT ![l] = run'[l]]
    BY RunTouched DEF Publish, Advance
  <2>2. /\ shown'.counter \in {shown.counter, r.out} /\ shown'.available \in BOOLEAN
        /\ shown' = [available |-> shown'.available, counter |-> shown'.counter]
    BY <1>5 DEF Publish
  <2> QED
    BY <1>5, <1>6, <2>1, <2>2 DEF Publish, RunMoves
<1>15. GivesUp(l) => RunMoves(l)
  <2> SUFFICES ASSUME GivesUp(l) PROVE RunMoves(l)
    OBVIOUS
  <2>1. run'[l] = [Idle EXCEPT !.at = "unavailable"] /\ run' = [run EXCEPT ![l] = run'[l]]
    BY RunTouched DEF GivesUp, Advance
  <2>2. SoundRun(run'[l], history)
    BY <1>6, <2>1 DEF SoundRun, Runs, Idle
  <2>3. /\ used' \in [faults : 0..MaxFaults, losses : 0..MaxFaults, setups : 0..MaxFaults]
        /\ used'.losses <= used'.faults /\ used'.setups <= used'.faults
        /\ used'.setups \in {used.setups, used.setups + 1}
    BY FaultCounts DEF GivesUp
  <2> QED
    BY <1>5, <2>1, <2>2, <2>3 DEF GivesUp, RunMoves
<1>16. ReadsNoLog(l) => RunMoves(l)
  <2> SUFFICES ASSUME ReadsNoLog(l) PROVE RunMoves(l)
    OBVIOUS
  <2>1. run'[l] = [r EXCEPT !.at = "read", !.lines = <<>>] /\ run' = [run EXCEPT ![l] = run'[l]]
    BY RunTouched DEF ReadsNoLog, Advance
  <2>2. Steady(<<>>, n) /\ <<>> \in Seq(Lines)
    BY <1>3, EmptySound
  <2>3. SoundRun(run'[l], history)
    <3>1. run'[l] \in Runs
      BY <1>1, <2>1, <2>2 DEF Runs
    <3>2. run'[l].lines = <<>> /\ run'[l].draft = r.draft
      BY <1>1, <2>1 DEF Runs
    <3> QED
      BY <1>1, <2>2, <3>1, <3>2 DEF SoundRun
  <2>4. /\ used' \in [faults : 0..MaxFaults, losses : 0..MaxFaults, setups : 0..MaxFaults]
        /\ used'.losses <= used'.faults /\ used'.setups <= used'.faults
        /\ used'.setups \in {used.setups, used.setups + 1}
    BY FaultCounts DEF ReadsNoLog
  <2> QED
    BY <1>5, <2>1, <2>3, <2>4 DEF ReadsNoLog, RunMoves
<1>17. MergeCutShort(l) => RunMoves(l)
  <2> SUFFICES ASSUME MergeCutShort(l) PROVE RunMoves(l)
    OBVIOUS
  <2> DEFINE whole == Merge(saved, r.lines, r.ifs)
  <2>1. PICK part \in Truncations(whole) :
          Advance(l, [Idle EXCEPT !.at = "merged", !.draft = part])
    BY DEF MergeCutShort
  <2>2. /\ run'[l] = [Idle EXCEPT !.at = "merged", !.draft = part]
        /\ run' = [run EXCEPT ![l] = run'[l]]
    BY <2>1, RunTouched DEF Advance
  <2>3. Sound(whole, history)
    BY <1>1, <1>3, MergeSound
  <2>4. Sound(part, history)
    <3> HIDE DEF whole
    <3> QED
      BY <1>7, <2>3, CutSound
  <2>5. SoundRun(run'[l], history)
    <3>1. part \in States
      BY <2>4 DEF Sound
    <3> QED
      BY <1>6, <2>2, <2>4, <3>1 DEF SoundRun, Runs, Idle
  <2>6. /\ used' \in [faults : 0..MaxFaults, losses : 0..MaxFaults, setups : 0..MaxFaults]
        /\ used'.losses <= used'.faults /\ used'.setups <= used'.faults
        /\ used'.setups \in {used.setups, used.setups + 1}
    <3>1. used.faults < MaxFaults /\ used' = [used EXCEPT !.faults = @ + 1, !.losses = @ + 1]
      BY DEF MergeCutShort
    <3>2. MaxFaults \in Nat
      BY BoundAssumption
    <3>3. /\ used.faults + 1 \in 0..MaxFaults /\ used.losses + 1 \in 0..MaxFaults
          /\ used.losses + 1 <= used.faults + 1 /\ used.setups <= used.faults + 1
      BY <1>5, <3>1, <3>2
    <3> QED
      BY <1>5, <3>1, <3>3
  <2> QED
    BY <1>5, <2>2, <2>5, <2>6 DEF MergeCutShort, RunMoves
<1>18. Killed(l) => RunMoves(l)
  <2> SUFFICES ASSUME Killed(l) PROVE RunMoves(l)
    OBVIOUS
  <2>1. run'[l] = Idle /\ run' = [run EXCEPT ![l] = run'[l]]
    BY RunTouched DEF Killed, Advance
  <2>2. /\ used' \in [faults : 0..MaxFaults, losses : 0..MaxFaults, setups : 0..MaxFaults]
        /\ used'.losses <= used'.faults /\ used'.setups <= used'.faults
        /\ used'.setups \in {used.setups, used.setups + 1}
    BY FaultCounts DEF Killed
  <2> QED
    BY <1>5, <1>6, <2>1, <2>2 DEF Killed, RunMoves
<1> QED
  BY <1>8, <1>9, <1>10, <1>11, <1>12, <1>13, <1>14, <1>15, <1>16, <1>17, <1>18 DEF StepOf, RunStep

LEMMA SharedInvInit ==
  ASSUME Init
  PROVE  SharedInv
<1>0. history \in Seq(Ifaces)
  BY DEF Init
<1>1. Sound(Empty, history) /\ Zero \in Counters /\ Steady(<<>>, Len(history))
  BY <1>0, EmptySound
<1>2. SoundRun(Idle, history)
  BY <1>0, IdleSound
<1>3. SoundLog
  BY <1>0, <1>1, BoundAssumption DEF Init, SoundLog
<1>4. SoundRuns
  BY <1>2 DEF Init, SoundRuns
<1>5. SoundShown
  BY <1>1, BoundAssumption DEF Init, SoundShown
<1> QED
  BY <1>1, <1>3, <1>4, <1>5 DEF Init, SharedInv

LEMMA SharedInvRunStep ==
  ASSUME SharedInv, NEW l \in Launchers, RunMoves(l)
  PROVE  SharedInv'
<1>1. SoundLog'
  BY DEF SharedInv, SoundLog, RunMoves
<1>2. SoundRuns'
  <2>1. DOMAIN run = Launchers /\ \A k \in Launchers : SoundRun(run[k], history)
    BY DEF SharedInv, SoundRuns
  <2>2. run' = [run EXCEPT ![l] = run'[l]] /\ SoundRun(run'[l], history) /\ history' = history
    BY DEF RunMoves
  <2>3. DOMAIN run' = Launchers /\ run' = [k \in Launchers |-> run'[k]]
        /\ \A k \in Launchers \ {l} : run'[k] = run[k]
    BY <2>1, <2>2
  <2> QED
    BY <2>1, <2>2, <2>3 DEF SoundRuns
<1>3. Sound(saved, history)'
  <2>1. Sound(saved, history) /\ Sound(run[l].draft, history)
    BY DEF SharedInv, SoundRuns, SoundRun
  <2>2. saved' \in {saved, run[l].draft} /\ history' = history
    BY DEF RunMoves
  <2> QED
    BY <2>1, <2>2
<1>4. SoundShown'
  <2>1. shown.counter \in Counters /\ run[l].out \in Counters
    BY RunParts DEF SharedInv, SoundRuns, SoundRun, SoundShown
  <2> QED
    BY <2>1 DEF RunMoves, SoundShown
<1> QED
  BY <1>1, <1>2, <1>3, <1>4 DEF SharedInv

LEMMA SharedInvRouterStep ==
  ASSUME SharedInv,
         (\E i \in Ifaces : Associates(i) \/ Flaps(i)) \/ RepeatsLine \/ Reboot
  PROVE  SharedInv'
<1>1. /\ history \in Seq(Ifaces) /\ Len(history) \in Nat /\ Len(history) <= MaxEvents
      /\ Steady(ring, Len(history)) /\ up \in SUBSET Ifaces
      /\ ring # <<>> => ring[Len(ring)] = Len(history)
  BY DEF SharedInv, SoundLog
<1>2. /\ DOMAIN run = Launchers /\ run = [l \in Launchers |-> run[l]]
      /\ \A l \in Launchers : SoundRun(run[l], history)
  BY DEF SharedInv, SoundRuns
<1>3. Sound(saved, history)
  BY DEF SharedInv
<1>4. /\ shown \in [available : BOOLEAN, counter : Counters]
      /\ used \in [faults : 0..MaxFaults, losses : 0..MaxFaults, setups : 0..MaxFaults]
      /\ used.losses <= used.faults /\ used.setups <= used.faults
  BY DEF SharedInv, SoundShown
<1>5. ASSUME NEW i \in Ifaces, Associates(i)
      PROVE  SharedInv'
  <2>1. /\ history' = Append(history, i) /\ Len(history) < MaxEvents
        /\ ring' = Append(IF Len(ring) = RingSize THEN Tail(ring) ELSE ring, Len(history) + 1)
        /\ UNCHANGED <<up, saved, run, shown, used>>
    BY <1>5 DEF Associates, Log
  <2>2. /\ history' \in Seq(Ifaces) /\ Len(history') = Len(history) + 1
        /\ Len(history') <= MaxEvents
    BY <1>1, <2>1, BoundAssumption
  <2>3. Steady(ring', Len(history) + 1) /\ ring' # <<>> /\ ring'[Len(ring')] = Len(history) + 1
    BY <1>1, <2>1, SteadyLog
  <2>4. SoundLog'
    BY <1>1, <2>1, <2>2, <2>3 DEF SoundLog
  <2>5. \A l \in Launchers : SoundRun(run[l], history')
    BY <1>1, <1>2, <2>1, RunLater
  <2>6. SoundRuns'
    BY <1>2, <2>1, <2>5 DEF SoundRuns
  <2>7. Sound(saved, history')
    BY <1>1, <1>3, <2>1, SoundLater
  <2>8. SoundShown'
    BY <1>4, <2>1 DEF SoundShown
  <2> QED
    BY <2>1, <2>4, <2>6, <2>7, <2>8 DEF SharedInv
<1>6. ASSUME NEW i \in Ifaces, Flaps(i)
      PROVE  SharedInv'
  <2>1. /\ UNCHANGED <<history, ring, saved, run, shown>>
        /\ up' = IF i \in up THEN up \ {i} ELSE up \cup {i}
        /\ Fault
    BY <1>6 DEF Flaps
  <2>2. SoundLog'
    BY <1>1, <2>1 DEF SoundLog
  <2>3. SoundShown'
    BY <1>4, <2>1, FaultCounts DEF SoundShown
  <2>4. SoundRuns'
    BY <1>2, <2>1 DEF SoundRuns
  <2> QED
    BY <1>3, <2>1, <2>2, <2>3, <2>4 DEF SharedInv
<1>7. ASSUME RepeatsLine
      PROVE  SharedInv'
  <2>1. /\ ring # <<>> /\ UNCHANGED <<history, up, saved, run, shown, used>>
        /\ ring' = Append(IF Len(ring) = RingSize THEN Tail(ring) ELSE ring, Len(history))
    BY <1>1, <1>7 DEF RepeatsLine, Log
  <2>2. Len(history) \in 1..Len(history)
    <3>1. ring \in Seq(1..Len(history))
      BY <1>1 DEF Steady
    <3>2. ring[Len(ring)] \in 1..Len(history)
      BY <2>1, <3>1
    <3> QED
      BY <1>1, <2>1, <3>2
  <2>3. Steady(ring', Len(history)) /\ ring' # <<>> /\ ring'[Len(ring')] = Len(history)
    BY <1>1, <2>1, <2>2, SteadyLog
  <2>4. SoundLog'
    BY <1>1, <2>1, <2>3 DEF SoundLog
  <2>5. SoundRuns'
    BY <1>2, <2>1 DEF SoundRuns
  <2>6. SoundShown'
    BY <1>4, <2>1 DEF SoundShown
  <2> QED
    BY <1>3, <2>1, <2>4, <2>5, <2>6 DEF SharedInv
<1>8. ASSUME Reboot
      PROVE  SharedInv'
  <2>1. /\ ring' = <<>> /\ run' = [l \in Launchers |-> Idle]
        /\ shown' = [shown EXCEPT !.available = FALSE]
        /\ UNCHANGED <<history, up, saved>> /\ Fault
    BY <1>8 DEF Reboot
  <2>2. SoundRun(Idle, history)
    BY <1>1, IdleSound
  <2>3. Steady(<<>>, Len(history))
    BY <1>1, EmptySound
  <2>4. SoundLog'
    BY <1>1, <2>1, <2>3 DEF SoundLog
  <2>5. SoundRuns'
    BY <2>1, <2>2 DEF SoundRuns
  <2>6. SoundShown'
    BY <1>4, <2>1, FaultCounts DEF SoundShown
  <2> QED
    BY <1>3, <2>1, <2>4, <2>5, <2>6 DEF SharedInv
<1> QED
  BY <1>5, <1>6, <1>7, <1>8

LEMMA NextSplits ==
  ASSUME Next
  PROVE  \/ (\E i \in Ifaces : Associates(i) \/ Flaps(i)) \/ RepeatsLine \/ Reboot
         \/ \E l \in Launchers : StepOf(l)
  BY DEF Next, StepOf

(* The count of runs that setup.sh started does not go back to zero.       *)
LEMMA SetupsStay ==
  ASSUME SharedInv, [Next]_vars, used'.setups = 0
  PROVE  used.setups = 0
<1>1. used.setups \in Nat
  BY DEF SharedInv, SoundShown
<1>2. used'.setups \in {used.setups, used.setups + 1}
  <2>1. CASE (\E i \in Ifaces : Associates(i) \/ Flaps(i)) \/ RepeatsLine \/ Reboot
    <3>1. Fault => used'.setups = used.setups
      BY FaultCounts
    <3> QED
      BY <2>1, <3>1 DEF Associates, Flaps, RepeatsLine, Reboot, Log
  <2>2. CASE \E l \in Launchers : StepOf(l)
    BY <2>2, RunStepMoves DEF RunMoves
  <2>3. CASE UNCHANGED vars
    BY <2>3 DEF vars
  <2> QED
    BY <2>1, <2>2, <2>3, NextSplits
<1> QED
  BY <1>1, <1>2

LEMMA SharedInvHolds == Spec => []SharedInv
<1>1. Init => SharedInv
  BY SharedInvInit
<1>2. SharedInv /\ [Next]_vars => SharedInv'
  <2>1. SharedInv /\ Next => SharedInv'
    BY NextSplits, RunStepMoves, SharedInvRunStep, SharedInvRouterStep
  <2>2. SharedInv /\ UNCHANGED vars => SharedInv'
    BY DEF vars, SharedInv, SoundLog, SoundRuns, SoundShown
  <2> QED
    BY <2>1, <2>2
<1> QED
  BY <1>1, <1>2, PTL DEF Spec

(* Every variable keeps to its type; in particular the state file never    *)
(* remembers more lines than the 512 that client-conntrack.sh:266 allows,  *)
(* whoever starts runs.                                                    *)
THEOREM TypeCorrect == Spec => []TypeOK
<1>1. SharedInv => TypeOK
  <2> SUFFICES ASSUME SharedInv PROVE TypeOK
    OBVIOUS
  <2>1. /\ history \in Seq(Ifaces) /\ Len(history) <= MaxEvents /\ Len(history) \in Nat
        /\ Steady(ring, Len(history)) /\ up \in SUBSET Ifaces
    BY DEF SharedInv, SoundLog
  <2>2. ring \in Seq(Lines) /\ Len(ring) <= RingSize
    BY <2>1, KnownLines DEF Steady
  <2>3. saved \in States /\ Cardinality(DOMAIN saved.seen) <= CacheSize
    BY DEF SharedInv, Sound
  <2>4. run \in [Launchers -> Runs]
    <3>1. run = [l \in Launchers |-> run[l]] /\ \A l \in Launchers : run[l] \in Runs
      BY DEF SharedInv, SoundRuns, SoundRun
    <3> QED
      BY <3>1
  <2> QED
    BY <2>1, <2>2, <2>3, <2>4 DEF TypeOK, Runs, SharedInv, SoundShown
<1> QED
  BY <1>1, SharedInvHolds, PTL

(* client-conntrack.sh:249-267: a line that the state file remembers has   *)
(* been counted, although runs of cron and setup.sh may both read the file *)
(* before either writes it and the file may be cut short: nothing that     *)
(* happens makes a later run skip a line that was never counted.           *)
THEOREM RememberedIsCounted == Spec => []SeenIsCounted
<1>1. SharedInv => SeenIsCounted
  <2> SUFFICES ASSUME SharedInv, NEW s \in Ssids
               PROVE  saved.counter[s] >= Cardinality({f \in DOMAIN saved.seen : SsidOf[history[f]] = s})
    BY DEF SeenIsCounted
  <2>1. saved.counter[s] >= Cardinality(OfSsid(DOMAIN saved.seen, s, history))
    BY DEF SharedInv, Sound
  <2> QED
    BY <2>1 DEF OfSsid
<1> QED
  BY <1>1, SharedInvHolds, PTL

--------------------------------------------------------------------------------
(* The runs of cron, alone.                                                *)

Watched == Range(ring) \cup Range(run["cron"].lines)

(* Behind a line that can still be read there are only lines that stood in *)
(* the ring together with it.                                              *)
Compact(file, watched) ==
  \A f \in watched \cap DOMAIN file.seen : \A g \in file.seen[f] : Close(f, g)

(* No more has been counted than was logged, not even if each line that    *)
(* can be read and is not remembered were counted now.                     *)
Affordable(file, watched, past, losses) ==
  \A s \in Ssids :
    file.counter[s] + Cardinality(OfSsid(watched \ DOMAIN file.seen, s, past))
      <= Cardinality(OfSsid(DOMAIN past, s, past)) * (1 + losses)

CronOnly == SharedInv /\ At("setup", "idle") /\ used.setups = 0

(* The inductive invariant of runs that do not overlap.                    *)
CronInv ==
  LET r == run["cron"] IN
    /\ CronOnly
    /\ r.lines # <<>> => /\ r.at = "read"
                         /\ Range(ring) \cap DOMAIN saved.seen \subseteq Range(r.lines)
    /\ Compact(saved, Watched) /\ Affordable(saved, Watched, history, used.losses)
    /\ r.at = "merged" => /\ Compact(r.draft, Range(ring))
                          /\ Affordable(r.draft, Range(ring), history, used.losses)

(* What has been shown is not more than what the state file says, and what *)
(* is going to be shown or saved is not less.                              *)
Ascending ==
  LET r == run["cron"] IN
    used.losses = 0 =>
      \A s \in Ssids :
        /\ shown.counter[s] <= saved.counter[s]
        /\ r.at = "merged" => saved.counter[s] <= r.draft.counter[s]
        /\ r.at = "counted" => /\ shown.counter[s] <= r.out[s]
                               /\ r.out[s] <= saved.counter[s]

LEMMA IntervalSize ==
  ASSUME NEW a \in Int, NEW b \in Int, a <= b + 1
  PROVE  IsFiniteSet(a..b) /\ Cardinality(a..b) = b - a + 1
<1>1. IsFiniteSet(a..b) /\ Cardinality(a..b) = IF a > b THEN 0 ELSE b - a + 1
  BY FS_Interval
<1> QED
  BY <1>1

(* There are 2 * RingSize - 2 other lines that may have stood in the ring  *)
(* together with f.                                                        *)
LEMMA FewClose ==
  ASSUME NEW f \in Lines, NEW S \in SUBSET Lines, f \notin S, \A g \in S : Close(f, g)
  PROVE  Cardinality(S) <= 2 * RingSize - 2
<1> DEFINE near == (f - RingSize + 1)..(f + RingSize - 1)
<1>1. RingSize \in Nat \ {0} /\ f \in Nat /\ S \subseteq Nat
  BY BoundAssumption DEF Lines
<1>2. IsFiniteSet(near) /\ Cardinality(near) = 2 * RingSize - 1
  <2>1. f - RingSize + 1 \in Int /\ f + RingSize - 1 \in Int
        /\ f - RingSize + 1 <= (f + RingSize - 1) + 1
        /\ (f + RingSize - 1) - (f - RingSize + 1) + 1 = 2 * RingSize - 1
    BY <1>1
  <2> QED
    BY <2>1, IntervalSize
<1>3. S \cup {f} \subseteq near
  <2>1. \A g \in S : g - f < RingSize /\ f - g < RingSize
    BY DEF Close
  <2> QED
    BY <1>1, <2>1
<1>4. IsFiniteSet(S) /\ Cardinality(S) \in Nat
  BY SomeLines
<1>5. IsFiniteSet(S \cup {f}) /\ Cardinality(S \cup {f}) = Cardinality(S) + 1
  BY <1>4, FS_AddElement
<1> HIDE DEF near
<1>6. Cardinality(S \cup {f}) <= Cardinality(near)
  BY <1>2, <1>3, Smaller
<1> QED
  BY <1>1, <1>2, <1>4, <1>5, <1>6

(* Lines that are read take at most as many numbers as the ring holds, and *)
(* one less if a line is skipped.                                          *)
LEMMA FewKnown ==
  ASSUME NEW n \in Nat, NEW lines, Steady(lines, n), NEW known \in SUBSET DOMAIN lines
  PROVE  /\ IsFiniteSet(known) /\ Cardinality(known) \in Nat /\ Cardinality(known) <= RingSize
         /\ known # DOMAIN lines => Cardinality(known) <= RingSize - 1
<1>1. /\ DOMAIN lines = 1..Len(lines) /\ Len(lines) \in Nat /\ Len(lines) <= RingSize
      /\ RingSize \in Nat
  BY BoundAssumption DEF Steady
<1>2. IsFiniteSet(DOMAIN lines) /\ Cardinality(DOMAIN lines) = Len(lines)
  <2>1. 1 \in Int /\ Len(lines) \in Int /\ 1 <= Len(lines) + 1 /\ Len(lines) - 1 + 1 = Len(lines)
    BY <1>1
  <2>2. IsFiniteSet(1..Len(lines)) /\ Cardinality(1..Len(lines)) = Len(lines)
    BY <2>1, IntervalSize
  <2> QED
    BY <1>1, <2>2
<1>3. /\ IsFiniteSet(known) /\ Cardinality(known) \in Nat
      /\ Cardinality(known) <= Len(lines)
      /\ known # DOMAIN lines => Cardinality(known) < Len(lines)
  BY <1>2, Smaller
<1> QED
  BY <1>1, <1>3

LEMMA WatchedLines ==
  ASSUME SharedInv
  PROVE  /\ Range(ring) \subseteq DOMAIN history
         /\ Range(run["cron"].lines) \subseteq DOMAIN history
         /\ DOMAIN saved.seen \subseteq DOMAIN history
         /\ DOMAIN run["cron"].draft.seen \subseteq DOMAIN history
         /\ DOMAIN history = 1..Len(history) /\ Len(history) \in Nat
         /\ DOMAIN history \subseteq Lines
<1>1. history \in Seq(Ifaces) /\ Len(history) <= MaxEvents /\ Steady(ring, Len(history))
  BY DEF SharedInv, SoundLog
<1>2. SoundRun(run["cron"], history) /\ Sound(saved, history)
  BY DEF SharedInv, SoundRuns, Launchers
<1>3. Len(history) \in Nat /\ DOMAIN history = 1..Len(history)
  BY <1>1
<1>4. Range(ring) \subseteq DOMAIN history /\ DOMAIN history \subseteq Lines
  BY <1>1, <1>3, KnownLines
<1>5. Range(run["cron"].lines) \subseteq DOMAIN history
  BY <1>1, <1>2, <1>3, KnownLines DEF SoundRun
<1> QED
  BY <1>2, <1>3, <1>4, <1>5 DEF SoundRun, Sound

--------------------------------------------------------------------------------
(* What the awk program does to the lines that can still be read.          *)

(* A line that is in the ring and has been seen is never among those that  *)
(* are forgotten: so large must the cache be.                              *)
LEMMA WatchedKept ==
  ASSUME CronInv, CacheSize >= 3 * RingSize - 2, At("cron", "read"),
         NEW f \in Range(ring),
         f \in Numbered(saved.seen, run["cron"].lines, Known(run["cron"].lines, run["cron"].ifs))
  PROVE  LET lines == run["cron"].lines
             known == Known(lines, run["cron"].ifs)
         IN /\ Rank(f, saved.seen, lines, known) < CacheSize
            /\ \A g \in Behind(f, saved.seen, lines, known) : Close(f, g)
<1> DEFINE r == run["cron"]
           lines == r.lines
           known == Known(lines, r.ifs)
           n == Len(history)
           newer == Newer(f, lines, known)
           older == Older(f, saved.seen, lines, known)
<1>1. SharedInv /\ Compact(saved, Watched)
  BY DEF CronInv, CronOnly
<1>2. lines # <<>> => Range(ring) \cap DOMAIN saved.seen \subseteq Range(lines)
  BY DEF CronInv, CronOnly
<1>3. /\ n \in Nat /\ n <= MaxEvents /\ Steady(lines, n)
      /\ saved.seen \in Caches /\ Chain(saved.seen) /\ DOMAIN saved.seen \subseteq Lines
  <2>1. SoundRun(r, history) /\ Sound(saved, history)
    BY <1>1 DEF SharedInv, SoundRuns, Launchers
  <2>2. n \in Nat /\ n <= MaxEvents
    BY <1>1 DEF SharedInv, SoundLog
  <2> QED
    BY <1>1, <2>1, <2>2, WatchedLines DEF SoundRun, Sound, States
<1>4. /\ lines \in Seq(Lines) /\ known \in SUBSET DOMAIN lines
      /\ About(lines, known) \subseteq Range(lines)
  BY <1>3, KnownLines
<1>5. f \in Numbered(saved.seen, lines, known)
  OBVIOUS
<1>6. RingSize \in Nat \ {0} /\ CacheSize \in Nat
  BY BoundAssumption
<1> HIDE DEF lines, known
<1>7. /\ newer \in SUBSET known /\ IsFiniteSet(newer) /\ Cardinality(newer) \in Nat
      /\ older \in SUBSET Lines /\ IsFiniteSet(older) /\ Cardinality(older) \in Nat
  BY <1>3, <1>4, <1>5, RankIsNat
<1>8. Rank(f, saved.seen, lines, known) = Cardinality(newer) + Cardinality(older)
  BY DEF Rank
<1>9. f \in Range(lines) \/ lines = <<>>
  <2>1. f \in DOMAIN saved.seen \/ f \in About(lines, known)
    BY <1>5 DEF Numbered
  <2>2. lines # <<>> => Range(ring) \cap DOMAIN saved.seen \subseteq Range(lines)
    BY <1>2 DEF lines
  <2> QED
    BY <1>4, <2>1, <2>2
<1>10. ASSUME NEW g \in older
       PROVE  f \in DOMAIN saved.seen /\ g \in saved.seen[f] /\ Close(f, g)
  <2>1. f \in DOMAIN saved.seen /\ g \in saved.seen[f]
    BY <1>5 DEF Older, Numbered
  <2>2. f \in Watched
    BY DEF Watched
  <2> QED
    BY <1>1, <2>1, <2>2 DEF Compact
<1>11. \A g \in Behind(f, saved.seen, lines, known) : Close(f, g)
  <2> SUFFICES ASSUME NEW g \in Behind(f, saved.seen, lines, known) PROVE Close(f, g)
    OBVIOUS
  <2>1. CASE g \in older
    BY <1>10, <2>1
  <2>2. CASE g \in About(lines, newer)
    <3>1. g \in About(lines, known)
      BY <1>7, <2>2 DEF About
    <3>2. g \in Range(lines) /\ lines # <<>>
      BY <1>4, <3>1 DEF Range
    <3> QED
      BY <1>3, <1>9, <3>2, SteadyClose
  <2> QED
    BY <2>1, <2>2 DEF Behind
<1>12. ASSUME f \in About(lines, known)
       PROVE  Rank(f, saved.seen, lines, known) < CacheSize
  <2>1. older = {}
    BY <1>12 DEF Older
  <2>2. Cardinality(older) = 0
    BY <2>1, FS_EmptySet
  <2>3. newer # DOMAIN lines
    <3>1. PICK k \in known : lines[k] = f
      BY <1>12 DEF About
    <3>2. k \notin newer
      <4>1. ~(k < k)
        BY <1>4
      <4> QED
        BY <3>1, <4>1 DEF Newer
    <3> QED
      BY <1>4, <3>2
  <2>4. Cardinality(newer) <= RingSize - 1
    BY <1>3, <1>4, <1>7, <2>3, FewKnown
  <2> HIDE DEF newer, older
  <2>5. Rank(f, saved.seen, lines, known) < CacheSize
    BY <1>6, <1>7, <1>8, <2>2, <2>4
  <2> QED
    BY <2>5
<1>13. ASSUME f \notin About(lines, known)
       PROVE  Rank(f, saved.seen, lines, known) < CacheSize
  <2>1. Cardinality(older) <= 2 * RingSize - 2
    <3>1. f \in DOMAIN saved.seen /\ older = saved.seen[f]
      BY <1>5, <1>13 DEF Older, Numbered
    <3>2. f \notin older /\ f \in Lines
      BY <1>3, <3>1 DEF Chain
    <3> HIDE DEF older
    <3> QED
      BY <1>7, <1>10, <3>2, FewClose
  <2>2. known # DOMAIN lines \/ lines = <<>>
    <3>1. ASSUME lines # <<>> PROVE known # DOMAIN lines
      <4>1. PICK k \in DOMAIN lines : lines[k] = f
        BY <1>9, <3>1 DEF Range
      <4>2. k \notin known
        BY <1>13, <4>1 DEF About
      <4> QED
        BY <4>2
    <3> QED
      BY <3>1
  <2>3. Cardinality(newer) <= RingSize - 1
    <3>1. CASE known # DOMAIN lines
      <4>1. newer # DOMAIN lines
        BY <1>4, <1>7, <3>1
      <4> QED
        BY <1>3, <1>4, <1>7, <4>1, FewKnown
    <3>2. CASE lines = <<>>
      <4>1. newer = {}
        BY <1>4, <1>7, <3>2
      <4>2. Cardinality(newer) = 0
        BY <4>1, FS_EmptySet
      <4> QED
        BY <1>6, <4>2
    <3> QED
      BY <2>2, <3>1, <3>2
  <2> HIDE DEF newer, older
  <2>4. Rank(f, saved.seen, lines, known) < CacheSize
    BY <1>6, <1>7, <1>8, <2>1, <2>3
  <2> QED
    BY <2>4
<1>14. Rank(f, saved.seen, lines, known) < CacheSize
  BY <1>12, <1>13
<1> QED
  BY <1>11, <1>14 DEF lines, known

(* What the awk program leaves can be afforded, too: it has counted none   *)
(* but the lines it did not remember, and remembers them all.              *)
LEMMA MergeAffordable ==
  ASSUME CronInv, CacheSize >= 3 * RingSize - 2, At("cron", "read")
  PROVE  LET new == Merge(saved, run["cron"].lines, run["cron"].ifs)
         IN /\ Compact(new, Range(ring))
            /\ Affordable(new, Range(ring), history, used.losses)
            /\ \A s \in Ssids : new.counter[s] >= saved.counter[s]
<1> DEFINE r == run["cron"]
           lines == r.lines
           known == Known(lines, r.ifs)
           fresh == About(lines, known) \ DOMAIN saved.seen
           new == Merge(saved, lines, r.ifs)
<1>1. SharedInv /\ Affordable(saved, Watched, history, used.losses)
  BY DEF CronInv, CronOnly
<1>2. /\ Len(history) \in Nat /\ Len(history) <= MaxEvents /\ Steady(lines, Len(history))
      /\ saved.counter \in Counters /\ saved.seen \in Caches /\ Chain(saved.seen)
  <2>1. SoundRun(r, history) /\ Sound(saved, history)
    BY <1>1 DEF SharedInv, SoundRuns, Launchers
  <2>2. Len(history) \in Nat /\ Len(history) <= MaxEvents
    BY <1>1 DEF SharedInv, SoundLog
  <2> QED
    BY <2>1, <2>2 DEF SoundRun, Sound, States
<1>3. /\ lines \in Seq(Lines) /\ known \in SUBSET DOMAIN lines
      /\ About(lines, known) \subseteq Range(lines) /\ Range(lines) \subseteq Lines
      /\ Range(ring) \subseteq Lines
  BY <1>1, <1>2, KnownLines, WatchedLines
<1>4. new.counter = Counted(saved.counter, fresh) /\ new.seen = Renumbered(saved.seen, lines, known)
  BY DEF Merge
<1>5. /\ DOMAIN new.seen = {f \in Numbered(saved.seen, lines, known) :
                              Rank(f, saved.seen, lines, known) < CacheSize}
      /\ \A f \in DOMAIN new.seen : new.seen[f] = Behind(f, saved.seen, lines, known)
  <2>1. LET seen == Renumbered(saved.seen, lines, known) IN
          /\ DOMAIN seen = {f \in Numbered(saved.seen, lines, known) :
                              Rank(f, saved.seen, lines, known) < CacheSize}
          /\ \A f \in DOMAIN seen : seen[f] = Behind(f, saved.seen, lines, known)
    BY <1>2, <1>3, RenumberedShape, Zenon
  <2> QED
    BY <1>4, <2>1
<1>6. ASSUME NEW f \in Range(ring), f \in Numbered(saved.seen, lines, known)
      PROVE  /\ f \in DOMAIN new.seen
             /\ \A g \in new.seen[f] : Close(f, g)
  <2>1. /\ Rank(f, saved.seen, lines, known) < CacheSize
        /\ \A g \in Behind(f, saved.seen, lines, known) : Close(f, g)
    BY <1>6, WatchedKept, Zenon
  <2> HIDE DEF lines, known, new
  <2> QED
    BY <1>5, <1>6, <2>1
<1>7. Compact(new, Range(ring))
  <2> HIDE DEF lines, known, new
  <2>1. \A f \in Range(ring) \cap DOMAIN new.seen : f \in Numbered(saved.seen, lines, known)
    BY <1>5
  <2> QED
    BY <1>6, <2>1 DEF Compact
<1>8. fresh \subseteq Watched \ DOMAIN saved.seen /\ Watched \subseteq Lines /\ fresh \subseteq Lines
  BY <1>3 DEF Watched
<1>9. Range(ring) \ DOMAIN new.seen \subseteq (Watched \ DOMAIN saved.seen) \ fresh
  <2>1. DOMAIN saved.seen \cup fresh \subseteq Numbered(saved.seen, lines, known)
    BY DEF Numbered
  <2> HIDE DEF lines, known, new, fresh
  <2> QED
    BY <1>6, <2>1 DEF Watched
<1> HIDE DEF new, fresh
<1>10. ASSUME NEW s \in Ssids
       PROVE  /\ new.counter[s] >= saved.counter[s]
              /\ new.counter[s] + Cardinality(OfSsid(Range(ring) \ DOMAIN new.seen, s, history))
                   <= Cardinality(OfSsid(DOMAIN history, s, history)) * (1 + used.losses)
  <2>1. /\ saved.counter[s] \in Nat
        /\ new.counter[s] = saved.counter[s] + Cardinality(OfSsid(fresh, s, history))
    BY <1>2, <1>4, <1>8, CountedSum
  <2>2. Cardinality(OfSsid(fresh, s, history))
          + Cardinality(OfSsid(Range(ring) \ DOMAIN new.seen, s, history))
          <= Cardinality(OfSsid(Watched \ DOMAIN saved.seen, s, history))
    <3>1. /\ fresh \in SUBSET Lines /\ Range(ring) \ DOMAIN new.seen \in SUBSET Lines
          /\ Watched \ DOMAIN saved.seen \in SUBSET Lines
          /\ Range(ring) \ DOMAIN new.seen \subseteq Watched \ DOMAIN saved.seen
          /\ fresh \cap (Range(ring) \ DOMAIN new.seen) = {}
      BY <1>3, <1>8, <1>9
    <3> QED
      BY <1>8, <3>1, OfSsidPacked
  <2>3. saved.counter[s] + Cardinality(OfSsid(Watched \ DOMAIN saved.seen, s, history))
          <= Cardinality(OfSsid(DOMAIN history, s, history)) * (1 + used.losses)
    BY <1>1 DEF Affordable
  <2>4. /\ Cardinality(OfSsid(fresh, s, history)) \in Nat
        /\ Cardinality(OfSsid(Range(ring) \ DOMAIN new.seen, s, history)) \in Nat
        /\ Cardinality(OfSsid(Watched \ DOMAIN saved.seen, s, history)) \in Nat
    BY <1>3, <1>8, OfSsidFinite
  <2>5. Cardinality(OfSsid(DOMAIN history, s, history)) * (1 + used.losses) \in Int
    <3>1. DOMAIN history \in SUBSET Lines
      BY <1>1, WatchedLines
    <3>2. Cardinality(OfSsid(DOMAIN history, s, history)) \in Nat
      BY <3>1, OfSsidFinite
    <3>3. used.losses \in Nat
      BY <1>1 DEF SharedInv, SoundShown
    <3> QED
      BY <3>2, <3>3
  <2> QED
    BY <2>1, <2>2, <2>3, <2>4, <2>5
<1>11. Affordable(new, Range(ring), history, used.losses)
  BY <1>10 DEF Affordable
<1> QED
  BY <1>7, <1>10, <1>11 DEF new

--------------------------------------------------------------------------------
(* What counting can afford.                                               *)

LEMMA TimesMono ==
  ASSUME NEW a \in Nat, NEW b \in Nat, NEW c \in Nat, b <= c
  PROVE  a * b \in Nat /\ a * c \in Nat /\ a * b <= a * c
<1>1. PICK d \in Nat : c = b + d
  <2>1. c - b \in Nat /\ c = b + (c - b)
    OBVIOUS
  <2> QED
    BY <2>1
<1>2. a * c = a * b + a * d
  BY <1>1
<1>3. a * b \in Nat /\ a * d \in Nat
  OBVIOUS
<1> QED
  BY <1>2, <1>3

LEMMA AffordableShrinks ==
  ASSUME NEW file, file.counter \in Counters, NEW past, DOMAIN past \in SUBSET Lines,
         NEW more \in SUBSET Lines, NEW less \in SUBSET more,
         NEW losses \in Nat, Affordable(file, more, past, losses)
  PROVE  Affordable(file, less, past, losses)
<1> SUFFICES ASSUME NEW s \in Ssids
             PROVE  file.counter[s] + Cardinality(OfSsid(less \ DOMAIN file.seen, s, past))
                      <= Cardinality(OfSsid(DOMAIN past, s, past)) * (1 + losses)
  BY DEF Affordable
<1> DEFINE many == OfSsid(more \ DOMAIN file.seen, s, past)
           few == OfSsid(less \ DOMAIN file.seen, s, past)
           all == OfSsid(DOMAIN past, s, past)
<1>1. few \in SUBSET many
  BY DEF OfSsid
<1>2. IsFiniteSet(many) /\ Cardinality(many) \in Nat /\ Cardinality(all) \in Nat
  BY OfSsidFinite
<1>3. file.counter[s] + Cardinality(many) <= Cardinality(all) * (1 + losses)
  BY DEF Affordable
<1>4. file.counter[s] \in Nat
  BY DEF Counters
<1> HIDE DEF few, many, all
<1>5. Cardinality(few) <= Cardinality(many) /\ Cardinality(few) \in Nat
  BY <1>1, <1>2, Smaller
<1>6. Cardinality(all) * (1 + losses) \in Nat
  BY <1>2, TimesMono
<1>7. file.counter[s] + Cardinality(few) <= Cardinality(all) * (1 + losses)
  BY <1>2, <1>3, <1>4, <1>5, <1>6
<1> QED
  BY <1>7 DEF few, all

(* A line that is logged is one more to count, and one more that may be.   *)
LEMMA AffordableLogs ==
  ASSUME NEW past \in Seq(Ifaces), NEW i \in Ifaces, Len(past) < MaxEvents,
         NEW file, file.counter \in Counters, DOMAIN file.seen \subseteq DOMAIN past,
         NEW watched \in SUBSET DOMAIN past, NEW losses \in Nat,
         Affordable(file, watched, past, losses),
         NEW now \in SUBSET (watched \cup {Len(past) + 1})
  PROVE  Affordable(file, now, Append(past, i), losses)
<1> DEFINE later == Append(past, i)
           n == Len(past) + 1
<1>1. /\ DOMAIN past = 1..Len(past) /\ Len(past) \in Nat
      /\ DOMAIN later = DOMAIN past \cup {n} /\ n \notin DOMAIN past
      /\ \A f \in DOMAIN past : later[f] = past[f]
  OBVIOUS
<1>2. DOMAIN past \cup {n} \subseteq Lines
  BY <1>1, BoundAssumption DEF Lines
<1> HIDE DEF later, n
<1>3. ASSUME NEW s \in Ssids
      PROVE  file.counter[s] + Cardinality(OfSsid(now \ DOMAIN file.seen, s, later))
               <= Cardinality(OfSsid(DOMAIN later, s, later)) * (1 + losses)
  <2> DEFINE rest == watched \ DOMAIN file.seen
             a == Cardinality(OfSsid(rest, s, past))
             e == Cardinality(OfSsid({n}, s, later))
             all == Cardinality(OfSsid(DOMAIN past, s, past))
  <2>1. /\ rest \in SUBSET Lines /\ {n} \in SUBSET Lines /\ now \ DOMAIN file.seen \in SUBSET Lines
        /\ now \ DOMAIN file.seen \subseteq rest \cup {n}
        /\ rest \subseteq DOMAIN past /\ DOMAIN past \in SUBSET Lines /\ DOMAIN later \in SUBSET Lines
    BY <1>1, <1>2 DEF n
  <2> HIDE DEF rest
  <2>2. /\ OfSsid(rest, s, later) = OfSsid(rest, s, past)
        /\ OfSsid(DOMAIN past, s, later) = OfSsid(DOMAIN past, s, past)
    BY <1>1, <2>1 DEF OfSsid
  <2>3. Cardinality(OfSsid(now \ DOMAIN file.seen, s, later)) <= a + e
    BY <2>1, <2>2, OfSsidCovered
  <2>4. all + e <= Cardinality(OfSsid(DOMAIN later, s, later))
    <3>1. DOMAIN past \subseteq DOMAIN later /\ {n} \subseteq DOMAIN later /\ DOMAIN past \cap {n} = {}
      BY <1>1
    <3> QED
      BY <2>1, <2>2, <3>1, OfSsidPacked
  <2>5. /\ a \in Nat /\ e \in Nat /\ all \in Nat /\ file.counter[s] \in Nat
        /\ Cardinality(OfSsid(now \ DOMAIN file.seen, s, later)) \in Nat
        /\ Cardinality(OfSsid(DOMAIN later, s, later)) \in Nat
    BY <2>1, OfSsidFinite DEF Counters
  <2>6. file.counter[s] + a <= all * (1 + losses)
    BY DEF Affordable, rest
  <2> HIDE DEF a, e, all
  <2>7. (all + e) * (1 + losses) <= Cardinality(OfSsid(DOMAIN later, s, later)) * (1 + losses)
    <3>1. (1 + losses) * (all + e) <= (1 + losses) * Cardinality(OfSsid(DOMAIN later, s, later))
      BY <2>4, <2>5, TimesMono
    <3> QED
      BY <2>5, <3>1
  <2>8. all * (1 + losses) + e <= (all + e) * (1 + losses)
    <3>1. e * 1 <= e * (1 + losses) /\ e * (1 + losses) \in Nat
      BY <2>5, TimesMono
    <3>2. (all + e) * (1 + losses) = all * (1 + losses) + e * (1 + losses)
      BY <2>5
    <3>3. all * (1 + losses) \in Nat
      BY <2>5, TimesMono
    <3> QED
      BY <2>5, <3>1, <3>2, <3>3
  <2>9. /\ all * (1 + losses) \in Nat /\ (all + e) * (1 + losses) \in Nat
        /\ Cardinality(OfSsid(DOMAIN later, s, later)) * (1 + losses) \in Nat
    BY <2>5, TimesMono
  <2> DEFINE was == all * (1 + losses)
             mid == (all + e) * (1 + losses)
             may == Cardinality(OfSsid(DOMAIN later, s, later)) * (1 + losses)
             open == Cardinality(OfSsid(now \ DOMAIN file.seen, s, later))
  <2>10. /\ was \in Nat /\ mid \in Nat /\ may \in Nat /\ open \in Nat
         /\ file.counter[s] + a <= was /\ was + e <= mid /\ mid <= may /\ open <= a + e
    <3>1. was \in Nat /\ mid \in Nat /\ may \in Nat
      BY <2>9
    <3>2. file.counter[s] + a <= was
      BY <2>6
    <3>3. was + e <= mid
      BY <2>8
    <3>4. mid <= may
      BY <2>7
    <3>5. open \in Nat /\ open <= a + e
      BY <2>3, <2>5
    <3> HIDE DEF was, mid, may, open
    <3> QED
      BY <3>1, <3>2, <3>3, <3>4, <3>5
  <2> HIDE DEF was, mid, may, open
  <2>11. file.counter[s] + open <= may
    BY <2>5, <2>10
  <2> QED
    BY <2>11 DEF open, may
<1>4. Affordable(file, now, later, losses)
  BY <1>3 DEF Affordable
<1> QED
  BY <1>4 DEF later

(* A state file that is cut short may cost one count of every line.        *)
LEMMA AffordableLoss ==
  ASSUME NEW file, file.counter \in Counters, NEW past, DOMAIN past \in SUBSET Lines,
         NEW watched \in SUBSET DOMAIN past, NEW losses \in Nat,
         Affordable(file, watched, past, losses),
         NEW part, part.counter \in Counters,
         \A s \in Ssids : part.counter[s] <= file.counter[s]
  PROVE  Affordable(part, watched, past, losses + 1)
<1> SUFFICES ASSUME NEW s \in Ssids
             PROVE  part.counter[s] + Cardinality(OfSsid(watched \ DOMAIN part.seen, s, past))
                      <= Cardinality(OfSsid(DOMAIN past, s, past)) * (1 + (losses + 1))
  BY DEF Affordable
<1> DEFINE w == OfSsid(watched \ DOMAIN part.seen, s, past)
           u == OfSsid(watched \ DOMAIN file.seen, s, past)
           all == OfSsid(DOMAIN past, s, past)
<1>1. /\ w \in SUBSET all /\ IsFiniteSet(all)
      /\ Cardinality(all) \in Nat /\ Cardinality(u) \in Nat
  <2>1. w \in SUBSET all
    BY DEF OfSsid
  <2>2. watched \ DOMAIN file.seen \in SUBSET Lines
    OBVIOUS
  <2> QED
    BY <2>1, <2>2, OfSsidFinite
<1>2. file.counter[s] + Cardinality(u) <= Cardinality(all) * (1 + losses)
  BY DEF Affordable
<1>3. file.counter[s] \in Nat /\ part.counter[s] \in Nat /\ part.counter[s] <= file.counter[s]
  BY DEF Counters
<1> HIDE DEF w, u, all
<1>4. Cardinality(w) \in Nat /\ Cardinality(w) <= Cardinality(all)
  BY <1>1, Smaller
<1>5. Cardinality(all) * (1 + (losses + 1)) = Cardinality(all) * (1 + losses) + Cardinality(all)
  BY <1>1
<1>6. Cardinality(all) * (1 + losses) \in Nat
  BY <1>1, TimesMono
<1>7. part.counter[s] + Cardinality(w) <= Cardinality(all) * (1 + (losses + 1))
  BY <1>1, <1>2, <1>3, <1>4, <1>5, <1>6
<1> QED
  BY <1>7 DEF w, all

(* More losses can be afforded more.                                       *)
LEMMA AffordableSame ==
  ASSUME NEW file, file.counter \in Counters, NEW past, DOMAIN past \in SUBSET Lines,
         NEW watched \in SUBSET DOMAIN past, NEW losses \in Nat,
         Affordable(file, watched, past, losses)
  PROVE  Affordable(file, watched, past, losses + 1)
<1> file.counter \in Counters /\ \A s \in Ssids : file.counter[s] <= file.counter[s]
  BY DEF Counters
<1> QED
  BY AffordableLoss

--------------------------------------------------------------------------------
(* The steps of a router on which only cron starts runs.                   *)

LEMMA CronFacts ==
  ASSUME SharedInv
  PROVE  /\ saved.counter \in Counters /\ run["cron"].draft.counter \in Counters
         /\ run["cron"].out \in Counters /\ shown.counter \in Counters
         /\ used.losses \in Nat /\ DOMAIN history \in SUBSET Lines
         /\ Watched \in SUBSET DOMAIN history
<1>1. Sound(saved, history) /\ SoundRun(run["cron"], history)
  BY DEF SharedInv, SoundRuns, Launchers
<1>2. run["cron"].out \in Counters
  BY <1>1, RunParts DEF SoundRun
<1>3. used.losses \in Nat /\ shown.counter \in Counters
  BY DEF SharedInv, SoundShown
<1> QED
  BY <1>1, <1>2, <1>3, WatchedLines DEF Sound, SoundRun, States, Watched

(* No lines are read, no line is logged, no draft is made.                 *)
LEMMA QuietStep ==
  ASSUME CronInv, SharedInv',
         history' = history, Range(ring') \subseteq Range(ring), saved' = saved,
         run'["setup"].at = "idle", used'.setups = used.setups, used'.losses = used.losses,
         run'["cron"].lines = <<>>, run'["cron"].at # "merged"
  PROVE  CronInv'
<1>1. SharedInv /\ used.setups = 0
      /\ Compact(saved, Watched) /\ Affordable(saved, Watched, history, used.losses)
  BY DEF CronInv, CronOnly
<1>2. Watched' \subseteq Watched
  BY DEF Watched, Range
<1>3. Affordable(saved, Watched', history, used.losses)
  <2>1. /\ saved.counter \in Counters /\ used.losses \in Nat /\ DOMAIN history \in SUBSET Lines
        /\ Watched \in SUBSET Lines /\ Watched' \in SUBSET Watched
    BY <1>1, <1>2, CronFacts
  <2> QED
    BY <1>1, <2>1, AffordableShrinks
<1>4. Compact(saved, Watched')
  BY <1>1, <1>2 DEF Compact
<1>5. Compact(saved, Watched)' /\ Affordable(saved, Watched, history, used.losses)'
  BY <1>3, <1>4 DEF Compact, Affordable
<1> QED
  BY <1>1, <1>5 DEF CronInv, CronOnly, At

(* The ring alone changes, and gets no line that it did not have.          *)
LEMMA RingStep ==
  ASSUME CronInv, SharedInv',
         history' = history, Range(ring') \subseteq Range(ring), saved' = saved, run' = run,
         used'.setups = used.setups, used'.losses = used.losses
  PROVE  CronInv'
<1> DEFINE r == run["cron"]
<1>1. SharedInv /\ used.setups = 0 /\ At("setup", "idle")
      /\ Compact(saved, Watched) /\ Affordable(saved, Watched, history, used.losses)
  BY DEF CronInv, CronOnly
<1>2. Watched' \subseteq Watched
  BY DEF Watched
<1>3. /\ saved.counter \in Counters /\ r.draft.counter \in Counters
      /\ used.losses \in Nat /\ DOMAIN history \in SUBSET Lines
      /\ Watched \in SUBSET Lines /\ Watched' \in SUBSET Watched
      /\ Range(ring) \in SUBSET Lines /\ Range(ring') \in SUBSET Range(ring)
  BY <1>1, <1>2, CronFacts, WatchedLines
<1>4. Affordable(saved, Watched', history, used.losses) /\ Compact(saved, Watched')
  BY <1>1, <1>3, AffordableShrinks DEF Compact
<1>5. r.at = "merged" => /\ Compact(r.draft, Range(ring'))
                         /\ Affordable(r.draft, Range(ring'), history, used.losses)
  <2> SUFFICES ASSUME r.at = "merged"
               PROVE  /\ Compact(r.draft, Range(ring'))
                      /\ Affordable(r.draft, Range(ring'), history, used.losses)
    OBVIOUS
  <2>1. Compact(r.draft, Range(ring)) /\ Affordable(r.draft, Range(ring), history, used.losses)
    BY DEF CronInv, CronOnly
  <2> HIDE DEF r
  <2> QED
    BY <1>3, <2>1, AffordableShrinks DEF Compact
<1>6. r.lines # <<>> => /\ r.at = "read"
                        /\ Range(ring') \cap DOMAIN saved.seen \subseteq Range(r.lines)
  BY DEF CronInv, CronOnly
<1>7. Compact(saved, Watched)' /\ Affordable(saved, Watched, history, used.losses)'
  BY <1>4 DEF Compact, Affordable
<1>8. r'.at = "merged" => /\ Compact(r.draft, Range(ring))'
                          /\ Affordable(r.draft, Range(ring), history, used.losses)'
  BY <1>5 DEF Compact, Affordable
<1> QED
  BY <1>1, <1>6, <1>7, <1>8 DEF CronInv, CronOnly, At

LEMMA CronInvAssociates ==
  ASSUME CronInv, SharedInv', NEW i \in Ifaces, Associates(i)
  PROVE  CronInv'
<1> DEFINE r == run["cron"]
           n == Len(history) + 1
<1>1. SharedInv /\ used.setups = 0 /\ At("setup", "idle")
      /\ Compact(saved, Watched) /\ Affordable(saved, Watched, history, used.losses)
  BY DEF CronInv, CronOnly
<1>2. /\ history' = Append(history, i) /\ Len(history) < MaxEvents
      /\ ring' = Append(IF Len(ring) = RingSize THEN Tail(ring) ELSE ring, n)
      /\ saved' = saved /\ run' = run /\ used' = used
  BY DEF Associates, Log
<1>3. /\ history \in Seq(Ifaces) /\ Len(history) \in Nat /\ Steady(ring, Len(history))
      /\ ring # <<>> => ring[Len(ring)] = Len(history)
  BY <1>1 DEF SharedInv, SoundLog
<1>4. Range(ring') \subseteq Range(ring) \cup {n}
  BY <1>2, <1>3, SteadyLog
<1>5. /\ saved.counter \in Counters /\ r.draft.counter \in Counters /\ used.losses \in Nat
      /\ Watched \in SUBSET DOMAIN history /\ Range(ring) \in SUBSET DOMAIN history
      /\ DOMAIN saved.seen \subseteq DOMAIN history /\ DOMAIN r.draft.seen \subseteq DOMAIN history
      /\ n \notin DOMAIN history
  BY <1>1, CronFacts, WatchedLines
<1>6. Watched' \in SUBSET (Watched \cup {n})
  BY <1>2, <1>4 DEF Watched
<1> HIDE DEF n
<1>7. Compact(saved, Watched') /\ Affordable(saved, Watched', history', used.losses)
  <2>1. Affordable(saved, Watched', Append(history, i), used.losses)
    BY <1>1, <1>2, <1>3, <1>5, <1>6, AffordableLogs DEF n
  <2>2. Compact(saved, Watched')
    BY <1>1, <1>5, <1>6 DEF Compact
  <2> QED
    BY <1>2, <2>1, <2>2
<1>8. r.at = "merged" => /\ Compact(r.draft, Range(ring'))
                         /\ Affordable(r.draft, Range(ring'), history', used.losses)
  <2> SUFFICES ASSUME r.at = "merged"
               PROVE  /\ Compact(r.draft, Range(ring'))
                      /\ Affordable(r.draft, Range(ring'), history', used.losses)
    OBVIOUS
  <2>1. Compact(r.draft, Range(ring)) /\ Affordable(r.draft, Range(ring), history, used.losses)
    BY DEF CronInv, CronOnly
  <2> HIDE DEF r
  <2>2. Affordable(r.draft, Range(ring'), Append(history, i), used.losses)
    BY <1>2, <1>3, <1>4, <1>5, <2>1, AffordableLogs DEF n
  <2>3. Compact(r.draft, Range(ring'))
    BY <1>4, <1>5, <2>1 DEF Compact
  <2> QED
    BY <1>2, <2>2, <2>3
<1>9. r.lines # <<>> => /\ r.at = "read"
                        /\ Range(ring') \cap DOMAIN saved.seen \subseteq Range(r.lines)
  <2>1. r.lines # <<>> => /\ r.at = "read"
                          /\ Range(ring) \cap DOMAIN saved.seen \subseteq Range(r.lines)
    BY DEF CronInv, CronOnly
  <2> HIDE DEF r
  <2> QED
    BY <1>4, <1>5, <2>1
<1>10. Compact(saved, Watched)' /\ Affordable(saved, Watched, history, used.losses)'
  BY <1>2, <1>7 DEF Compact, Affordable
<1>11. r'.at = "merged" => /\ Compact(r.draft, Range(ring))'
                           /\ Affordable(r.draft, Range(ring), history, used.losses)'
  BY <1>2, <1>8 DEF Compact, Affordable
<1> QED
  BY <1>1, <1>2, <1>9, <1>10, <1>11 DEF CronInv, CronOnly, At

LEMMA CronInvRouterStep ==
  ASSUME CronInv, SharedInv',
         (\E i \in Ifaces : Associates(i) \/ Flaps(i)) \/ RepeatsLine \/ Reboot
  PROVE  CronInv'
<1>1. SharedInv /\ At("setup", "idle")
  BY DEF CronInv, CronOnly
<1>2. /\ Len(history) \in Nat /\ Steady(ring, Len(history))
      /\ ring # <<>> => ring[Len(ring)] = Len(history)
  BY <1>1 DEF SharedInv, SoundLog
<1>3. ASSUME NEW i \in Ifaces, Associates(i)
      PROVE  CronInv'
  BY <1>3, CronInvAssociates
<1>4. ASSUME NEW i \in Ifaces, Flaps(i)
      PROVE  CronInv'
  <2>1. UNCHANGED <<history, ring, saved, run>> /\ Fault
    BY <1>4 DEF Flaps
  <2>2. used'.setups = used.setups /\ used'.losses = used.losses
    BY <1>1, <2>1, FaultCounts
  <2> QED
    BY <2>1, <2>2, RingStep
<1>5. ASSUME RepeatsLine
      PROVE  CronInv'
  <2>1. /\ ring # <<>> /\ UNCHANGED <<history, up, saved, run, shown, used>>
        /\ ring' = Append(IF Len(ring) = RingSize THEN Tail(ring) ELSE ring, Len(history))
    BY <1>2, <1>5 DEF RepeatsLine, Log
  <2>2. Len(history) \in Range(ring) /\ Len(history) \in 1..Len(history)
    <3>1. ring \in Seq(1..Len(history))
      BY <1>2 DEF Steady
    <3>2. Len(ring) \in DOMAIN ring /\ ring[Len(ring)] = Len(history)
      BY <1>2, <2>1, <3>1
    <3> QED
      BY <3>1, <3>2 DEF Range
  <2>3. Range(ring') \subseteq Range(ring) \cup {Len(history)}
    BY <1>2, <2>1, <2>2, SteadyLog
  <2> QED
    BY <2>1, <2>2, <2>3, RingStep
<1>6. ASSUME Reboot
      PROVE  CronInv'
  <2>1. /\ history' = history /\ ring' = <<>> /\ saved' = saved /\ Fault
        /\ run'["cron"] = Idle /\ run'["setup"] = Idle
    BY <1>6 DEF Reboot, Launchers
  <2>2. used'.setups = used.setups /\ used'.losses = used.losses
    BY <1>1, <2>1, FaultCounts
  <2>3. Range(ring') \subseteq Range(ring)
    BY <2>1 DEF Range
  <2>4. Idle.at = "idle" /\ Idle.lines = <<>>
    BY DEF Idle
  <2>5. run'["cron"].lines = <<>> /\ run'["cron"].at # "merged" /\ run'["setup"].at = "idle"
    BY <2>1, <2>4
  <2> QED
    BY <2>1, <2>2, <2>3, <2>5, QuietStep
<1> QED
  BY <1>3, <1>4, <1>5, <1>6

(* setup.sh has started no run, and starts none now.                       *)
LEMMA OnlyCronSteps ==
  ASSUME CronOnly, used'.setups = 0, NEW l \in Launchers, StepOf(l)
  PROVE  /\ l = "cron"
         /\ SharedInv /\ RunMoves("cron") /\ run'["setup"] = run["setup"]
         /\ run'["setup"].at = "idle" /\ used'.setups = used.setups
<1>1. SharedInv /\ At("setup", "idle") /\ used.setups = 0
  BY DEF CronInv, CronOnly
<1>2. l # "setup"
  <2> SUFFICES ASSUME l = "setup" PROVE FALSE
    OBVIOUS
  <2>1. run["setup"].at = "idle"
    BY <1>1 DEF At
  <2>2. ~Starts("setup")
    <3> SUFFICES ASSUME Starts("setup") PROVE FALSE
      OBVIOUS
    <3>1. /\ used' = [used EXCEPT !.faults = @ + 1, !.setups = @ + 1]
          /\ used \in [faults : 0..MaxFaults, losses : 0..MaxFaults, setups : 0..MaxFaults]
      BY <1>1 DEF Starts, SharedInv, SoundShown
    <3>2. used'.setups = 0 + 1
      BY <1>1, <3>1
    <3> QED
      BY <3>2
  <2> QED
    BY <2>1, <2>2 DEF StepOf, RunStep, GivesUp, ReadsNoLog, MergeCutShort, Killed, At,
                      ReadWireless, ReadLog, MergeState, SaveState, PrintCounters, Publish
<1>3. l = "cron" /\ "cron" \in Launchers /\ "setup" \in Launchers
  BY <1>2 DEF Launchers
<1>4. RunMoves("cron")
  BY <1>1, <1>3, RunStepMoves
<1>5. run'["setup"] = run["setup"]
  <2>1. DOMAIN run = Launchers
    BY <1>1 DEF SharedInv, SoundRuns
  <2> QED
    BY <1>3, <1>4, <2>1 DEF RunMoves
<1>6. used'.setups = used.setups
  BY <1>1
<1> QED
  BY <1>1, <1>3, <1>4, <1>5, <1>6 DEF At

LEMMA WirelessRead ==
  ASSUME SharedInv, ReadWireless("cron")
  PROVE  /\ run["cron"].at = "armed" /\ run'["cron"].lines = run["cron"].lines
         /\ run'["cron"].at \in {"unavailable", "ifaces"}
<1> DEFINE r == run["cron"]
           next == [r EXCEPT !.at = IF up = {} THEN "unavailable" ELSE "ifaces", !.ifs = up]
<1>1. run' = [run EXCEPT !["cron"] = next] /\ r.at = "armed"
  BY DEF ReadWireless, Advance, At
<1>2. r \in Runs /\ "cron" \in Launchers
  BY DEF SharedInv, SoundRuns, SoundRun, Launchers
<1>3. next.lines = r.lines /\ next.at \in {"unavailable", "ifaces"}
  BY <1>2 DEF Runs
<1> HIDE DEF next
<1>4. run'["cron"] = next
  BY <1>1, <1>2, RunTouched
<1> QED
  BY <1>1, <1>3, <1>4

LEMMA CronInvRunStep ==
  ASSUME CronInv, SharedInv', used'.setups = 0, CacheSize >= 3 * RingSize - 2,
         NEW l \in Launchers, StepOf(l)
  PROVE  CronInv'
<1> DEFINE r == run["cron"]
<1>1. /\ l = "cron" /\ SharedInv /\ run'["setup"].at = "idle" /\ used'.setups = used.setups
      /\ run' = [run EXCEPT !["cron"] = run'["cron"]]
      /\ UNCHANGED <<history, ring>> /\ "cron" \in Launchers
  BY OnlyCronSteps DEF RunMoves, Launchers, CronInv
<1>2. /\ used.setups = 0 /\ At("setup", "idle")
      /\ Compact(saved, Watched) /\ Affordable(saved, Watched, history, used.losses)
      /\ r.lines # <<>> => r.at = "read"
  BY DEF CronInv, CronOnly
<1>3. /\ saved.counter \in Counters /\ used.losses \in Nat
      /\ DOMAIN history \in SUBSET Lines /\ Watched \in SUBSET DOMAIN history
      /\ Range(ring) \in SUBSET Watched /\ Range(ring) \in SUBSET DOMAIN history
  BY <1>1, CronFacts, WatchedLines DEF Watched
<1>4. r \in Runs
  BY <1>1 DEF SharedInv, SoundRuns, SoundRun
<1>5. Idle.at = "idle" /\ Idle.lines = <<>>
  BY DEF Idle
<1>6. ASSUME Starts("cron") \/ ReadWireless("cron") \/ SaveState("cron") \/ PrintCounters("cron")
             \/ Publish("cron") \/ GivesUp("cron") \/ ReadsNoLog("cron") \/ Killed("cron")
      PROVE  used'.losses = used.losses
  <2>2. Fault => used'.losses = used.losses
    BY <1>1, FaultCounts
  <2>3. Starts("cron") => used' = used
    BY DEF Starts
  <2> QED
    BY <1>6, <2>2, <2>3
       DEF ReadWireless, SaveState, PrintCounters, Publish, GivesUp, ReadsNoLog, Killed
<1>7. CASE Starts("cron") \/ ReadWireless("cron") \/ PrintCounters("cron")
           \/ Publish("cron") \/ GivesUp("cron") \/ ReadsNoLog("cron") \/ Killed("cron")
  <2>1. saved' = saved
    BY <1>7 DEF Starts, ReadWireless, PrintCounters, Publish, GivesUp, ReadsNoLog, Killed
  <2>2. run'["cron"].lines = <<>> /\ run'["cron"].at # "merged"
    <3>1. CASE Starts("cron")
      <4>1. run'["cron"] = [r EXCEPT !.at = "armed"] /\ r.at = "idle"
        BY <1>1, <3>1, RunTouched DEF Starts, Advance, At
      <4> QED
        BY <1>2, <1>4, <4>1 DEF Runs
    <3>2. CASE ReadWireless("cron")
      <4>1. /\ r.at = "armed" /\ run'["cron"].lines = r.lines
            /\ run'["cron"].at \in {"unavailable", "ifaces"}
        BY <1>1, <3>2, WirelessRead
      <4> QED
        BY <1>2, <4>1
    <3>3. CASE PrintCounters("cron")
      <4>1. run'["cron"] = [r EXCEPT !.at = "counted", !.out = saved.counter] /\ r.at = "saved"
        BY <1>1, <3>3, RunTouched DEF PrintCounters, Advance, At
      <4> QED
        BY <1>2, <1>4, <4>1 DEF Runs
    <3>4. CASE Publish("cron") \/ Killed("cron")
      <4>1. run'["cron"] = Idle
        BY <1>1, <3>4, RunTouched DEF Publish, Killed, Advance
      <4> QED
        BY <1>5, <4>1
    <3>5. CASE GivesUp("cron")
      <4>1. run'["cron"] = [Idle EXCEPT !.at = "unavailable"]
        BY <1>1, <3>5, RunTouched DEF GivesUp, Advance
      <4> QED
        BY <4>1 DEF Idle
    <3>6. CASE ReadsNoLog("cron")
      <4>1. run'["cron"] = [r EXCEPT !.at = "read", !.lines = <<>>]
        BY <1>1, <3>6, RunTouched DEF ReadsNoLog, Advance
      <4> QED
        BY <1>4, <4>1 DEF Runs
    <3> QED
      BY <1>7, <3>1, <3>2, <3>3, <3>4, <3>5, <3>6
  <2> QED
    BY <1>1, <1>6, <1>7, <2>1, <2>2, QuietStep
<1>8. CASE ReadLog("cron")
  <2>1. /\ run'["cron"] = [r EXCEPT !.at = "read", !.lines = ring]
        /\ saved' = saved /\ used' = used
    BY <1>1, <1>8, RunTouched DEF ReadLog, Advance
  <2>2. run'["cron"].lines = ring /\ run'["cron"].at = "read"
    BY <1>4, <2>1 DEF Runs
  <2>3. Watched' \subseteq Watched
    BY <1>1, <2>2 DEF Watched
  <2>4. Affordable(saved, Watched', history, used.losses) /\ Compact(saved, Watched')
    <3>1. Watched \in SUBSET Lines /\ Watched' \in SUBSET Watched
      BY <1>3, <2>3
    <3> QED
      BY <1>2, <1>3, <3>1, AffordableShrinks DEF Compact
  <2>5. Compact(saved, Watched)' /\ Affordable(saved, Watched, history, used.losses)'
    BY <1>1, <2>1, <2>4 DEF Compact, Affordable
  <2> QED
    BY <1>1, <1>2, <2>1, <2>2, <2>5 DEF CronInv, CronOnly, At
<1>9. ASSUME NEW draft, run'["cron"] = [Idle EXCEPT !.at = "merged", !.draft = draft],
             saved' = saved, used'.losses \in {used.losses, used.losses + 1},
             Compact(draft, Range(ring)), Affordable(draft, Range(ring), history, used'.losses)
      PROVE  CronInv'
  <2>1. /\ run'["cron"].lines = <<>> /\ run'["cron"].at = "merged" /\ run'["cron"].draft = draft
    BY <1>9 DEF Idle
  <2>2. Watched' \subseteq Watched
    BY <1>1, <2>1 DEF Watched, Range
  <2>3. Affordable(saved, Watched', history, used'.losses) /\ Compact(saved, Watched')
    <3>1. Watched \in SUBSET Lines /\ Watched' \in SUBSET Watched /\ Watched' \in SUBSET DOMAIN history
      BY <1>3, <2>2
    <3>2. Affordable(saved, Watched', history, used.losses)
      BY <1>2, <1>3, <3>1, AffordableShrinks
    <3>3. Affordable(saved, Watched', history, used.losses + 1)
      BY <1>3, <3>1, <3>2, AffordableSame
    <3>4. Compact(saved, Watched')
      BY <1>2, <2>2 DEF Compact
    <3> QED
      BY <1>9, <3>2, <3>3, <3>4
  <2>4. Compact(saved, Watched)' /\ Affordable(saved, Watched, history, used.losses)'
    BY <1>1, <1>9, <2>3 DEF Compact, Affordable
  <2>5. /\ Compact(run["cron"].draft, Range(ring))'
        /\ Affordable(run["cron"].draft, Range(ring), history, used.losses)'
    BY <1>1, <1>9, <2>1 DEF Compact, Affordable
  <2> QED
    BY <1>1, <1>2, <2>1, <2>4, <2>5 DEF CronInv, CronOnly, At
<1>10. CASE MergeState("cron")
  <2> DEFINE new == Merge(saved, r.lines, r.ifs)
  <2>1. /\ run'["cron"] = [Idle EXCEPT !.at = "merged", !.draft = new]
        /\ saved' = saved /\ used' = used /\ At("cron", "read")
    BY <1>1, <1>10, RunTouched DEF MergeState, Advance
  <2>2. Compact(new, Range(ring)) /\ Affordable(new, Range(ring), history, used.losses)
    BY <2>1, MergeAffordable, Zenon
  <2> HIDE DEF new
  <2> QED
    BY <1>9, <2>1, <2>2
<1>11. CASE MergeCutShort("cron")
  <2> DEFINE new == Merge(saved, r.lines, r.ifs)
  <2>1. PICK part \in Truncations(new) :
          Advance("cron", [Idle EXCEPT !.at = "merged", !.draft = part])
    BY <1>11 DEF MergeCutShort
  <2> HIDE DEF new
  <2>2. /\ run'["cron"] = [Idle EXCEPT !.at = "merged", !.draft = part]
        /\ saved' = saved /\ At("cron", "read")
    <3>1. saved' = saved /\ At("cron", "read")
      BY <1>11 DEF MergeCutShort
    <3>2. run' = [run EXCEPT !["cron"] = [Idle EXCEPT !.at = "merged", !.draft = part]]
      BY <2>1 DEF Advance
    <3> QED
      BY <1>1, <3>1, <3>2, RunTouched
  <2> USE DEF new
  <2>3. used'.losses = used.losses + 1
    <3>1. used' = [used EXCEPT !.faults = @ + 1, !.losses = @ + 1]
      BY <1>11 DEF MergeCutShort
    <3>2. used \in [faults : 0..MaxFaults, losses : 0..MaxFaults, setups : 0..MaxFaults]
      BY <1>1 DEF SharedInv, SoundShown
    <3> QED
      BY <3>1, <3>2
  <2>4. Compact(new, Range(ring)) /\ Affordable(new, Range(ring), history, used.losses)
    BY <2>2, MergeAffordable, Zenon
  <2>5. Sound(new, history)
    <3>1. SoundRun(r, history) /\ Sound(saved, history)
      BY <1>1 DEF SharedInv, SoundRuns
    <3>2. history \in Seq(Ifaces) /\ Len(history) <= MaxEvents
      BY <1>1 DEF SharedInv, SoundLog
    <3> QED
      BY <3>1, <3>2, MergeSound DEF SoundRun
  <2> HIDE DEF new
  <2>6. /\ Sound(part, history)
        /\ DOMAIN part.seen \subseteq DOMAIN new.seen
        /\ \A f \in DOMAIN part.seen : part.seen[f] \subseteq new.seen[f]
        /\ \A s \in Ssids : part.counter[s] <= new.counter[s]
    BY <1>3, <2>5, CutSound
  <2>7. new.counter \in Counters /\ part.counter \in Counters
    BY <2>5, <2>6 DEF Sound, States
  <2>8. Affordable(part, Range(ring), history, used.losses + 1)
    BY <1>3, <2>4, <2>6, <2>7, AffordableLoss
  <2>9. Compact(part, Range(ring))
    BY <2>4, <2>6 DEF Compact
  <2> QED
    BY <1>9, <2>2, <2>3, <2>8, <2>9
<1>12. CASE SaveState("cron")
  <2>1. /\ run'["cron"] = [Idle EXCEPT !.at = "saved"]
        /\ saved' = r.draft /\ r.at = "merged"
    BY <1>1, <1>12, RunTouched DEF SaveState, Advance, At
  <2>2. run'["cron"].lines = <<>> /\ run'["cron"].at = "saved"
    BY <2>1 DEF Idle
  <2>3. Compact(r.draft, Range(ring)) /\ Affordable(r.draft, Range(ring), history, used.losses)
    BY <2>1 DEF CronInv, CronOnly
  <2>4. Watched' = Range(ring)
    BY <1>1, <2>2 DEF Watched, Range
  <2>5. Compact(saved, Watched)' /\ Affordable(saved, Watched, history, used.losses)'
    BY <1>1, <1>6, <1>12, <2>1, <2>3, <2>4 DEF Compact, Affordable
  <2> QED
    BY <1>1, <1>2, <2>2, <2>5 DEF CronInv, CronOnly, At
<1> QED
  BY <1>1, <1>7, <1>8, <1>10, <1>11, <1>12 DEF StepOf, RunStep

LEMMA CronInvHolds ==
  ASSUME CacheSize >= 3 * RingSize - 2
  PROVE  Spec => [](used.setups = 0 => CronInv)
<1>1. Init => CronInv
  <2> SUFFICES ASSUME Init PROVE CronInv
    OBVIOUS
  <2>1. SharedInv
    BY SharedInvInit
  <2>2. /\ run["cron"] = Idle /\ run["setup"] = Idle /\ ring = <<>> /\ saved = Empty
        /\ used.setups = 0 /\ used.losses = 0 /\ history = <<>>
    BY DEF Init, Launchers
  <2>3. Idle.at = "idle" /\ Idle.lines = <<>> /\ Empty.counter = Zero
    BY DEF Idle, Empty
  <2>4. Watched = {}
    BY <2>2, <2>3 DEF Watched, Range
  <2>5. Compact(saved, Watched)
    BY <2>4 DEF Compact
  <2>6. ASSUME NEW s \in Ssids
        PROVE  saved.counter[s] + Cardinality(OfSsid(Watched \ DOMAIN saved.seen, s, history))
                 <= Cardinality(OfSsid(DOMAIN history, s, history)) * (1 + used.losses)
    <3>1. OfSsid(Watched \ DOMAIN saved.seen, s, history) = {}
          /\ OfSsid(DOMAIN history, s, history) = {}
      BY <2>2, <2>4 DEF OfSsid
    <3>2. Cardinality({}) = 0
      BY FS_EmptySet
    <3>3. saved.counter[s] = 0
      BY <2>2, <2>3 DEF Zero
    <3>4. Cardinality(OfSsid(Watched \ DOMAIN saved.seen, s, history)) = 0
          /\ Cardinality(OfSsid(DOMAIN history, s, history)) = 0
      BY <3>1, <3>2
    <3> QED
      BY <2>2, <3>3, <3>4
  <2> QED
    BY <2>1, <2>2, <2>3, <2>5, <2>6 DEF CronInv, CronOnly, At, Affordable
<1>2. SharedInv /\ SharedInv' /\ (used.setups = 0 => CronInv) /\ [Next]_vars
        => (used.setups = 0 => CronInv)'
  <2> SUFFICES ASSUME SharedInv, SharedInv', used.setups = 0 => CronInv, [Next]_vars,
                      used'.setups = 0
               PROVE  CronInv'
    OBVIOUS
  <2>1. CronInv
    BY SetupsStay
  <2>2. Next => CronInv'
    BY <2>1, NextSplits, CronInvRouterStep, CronInvRunStep
  <2>3. UNCHANGED vars => CronInv'
    <3> SUFFICES ASSUME UNCHANGED vars PROVE CronInv'
      OBVIOUS
    <3>1. Range(ring') \subseteq Range(ring)
      BY DEF vars
    <3> QED
      BY <2>1, <3>1, RingStep DEF vars
  <2> QED
    BY <2>2, <2>3
<1> QED
  BY <1>1, <1>2, SharedInvHolds, PTL DEF Spec

(* client-conntrack.sh:204: as long as only cron has started runs and the *)
(* cache holds three times the lines of the ring, no line of the log is    *)
(* counted twice, whatever is killed, rebooted or missing from the status; *)
(* and a state file cut short costs no more than one count of each line.   *)
THEOREM CountsOnce ==
  ASSUME CacheSize >= 3 * RingSize - 2
  PROVE  Spec => []NoRecount
<1>1. (used.setups = 0 => CronInv) => NoRecount
  <2> SUFFICES ASSUME CronInv, NEW s \in Ssids
               PROVE  saved.counter[s] <= Cardinality(Logged(s)) * (1 + used.losses)
    BY DEF NoRecount
  <2>1. SharedInv /\ Affordable(saved, Watched, history, used.losses)
    BY DEF CronInv, CronOnly
  <2>2. /\ saved.counter[s] \in Nat /\ used.losses \in Nat
        /\ DOMAIN history \in SUBSET Lines /\ Watched \ DOMAIN saved.seen \in SUBSET Lines
    BY <2>1, CronFacts DEF Counters
  <2>3. Cardinality(OfSsid(Watched \ DOMAIN saved.seen, s, history)) \in Nat
        /\ Cardinality(OfSsid(DOMAIN history, s, history)) \in Nat
    BY <2>2, OfSsidFinite
  <2>4. saved.counter[s] + Cardinality(OfSsid(Watched \ DOMAIN saved.seen, s, history))
          <= Cardinality(OfSsid(DOMAIN history, s, history)) * (1 + used.losses)
    BY <2>1 DEF Affordable
  <2>5. Cardinality(OfSsid(DOMAIN history, s, history)) * (1 + used.losses) \in Nat
    BY <2>2, <2>3, TimesMono
  <2>6. Logged(s) = OfSsid(DOMAIN history, s, history)
    BY DEF Logged, OfSsid
  <2> QED
    BY <2>2, <2>3, <2>4, <2>5, <2>6
<1> QED
  BY <1>1, CronInvHolds, PTL

--------------------------------------------------------------------------------
(* What is shown.                                                          *)

LEMMA MergeAdds ==
  ASSUME SharedInv, NEW s \in Ssids
  PROVE  Merge(saved, run["cron"].lines, run["cron"].ifs).counter[s] >= saved.counter[s]
<1> DEFINE lines == run["cron"].lines
           known == Known(lines, run["cron"].ifs)
           fresh == About(lines, known) \ DOMAIN saved.seen
<1>1. SoundRun(run["cron"], history) /\ Len(history) \in Nat /\ Len(history) <= MaxEvents
  BY DEF SharedInv, SoundRuns, SoundLog, Launchers
<1>2. About(lines, known) \in SUBSET Lines
  BY <1>1, KnownLines DEF SoundRun
<1>3. saved.counter \in Counters
  BY CronFacts
<1>4. Merge(saved, lines, run["cron"].ifs).counter = Counted(saved.counter, fresh)
  BY DEF Merge
<1>5. fresh \in SUBSET Lines /\ Cardinality(OfSsid(fresh, s, history)) \in Nat
  BY <1>2, OfSsidFinite
<1> HIDE DEF fresh, known
<1>6. /\ saved.counter[s] \in Nat
      /\ Counted(saved.counter, fresh)[s] = saved.counter[s] + Cardinality(OfSsid(fresh, s, history))
  BY <1>3, <1>5, CountedSum
<1> QED
  BY <1>4, <1>5, <1>6

ShowingInv == CronOnly /\ Ascending

(* A step of cron's run keeps the order of the counters and shows none     *)
(* that is smaller.                                                        *)
LEMMA AscendingStep ==
  ASSUME ShowingInv, used'.setups = 0, NEW l \in Launchers, StepOf(l), used'.losses = 0
  PROVE  \A s \in Ssids :
           /\ shown'.counter[s] >= shown.counter[s]
           /\ shown'.counter[s] <= saved'.counter[s]
           /\ run'["cron"].at = "merged" => saved'.counter[s] <= run'["cron"].draft.counter[s]
           /\ run'["cron"].at = "counted" => /\ shown'.counter[s] <= run'["cron"].out[s]
                                            /\ run'["cron"].out[s] <= saved'.counter[s]
<1> DEFINE r == run["cron"]
<1>1. /\ l = "cron" /\ SharedInv /\ "cron" \in Launchers /\ r \in Runs
      /\ run' = [run EXCEPT !["cron"] = run'["cron"]]
  BY OnlyCronSteps DEF RunMoves, Launchers, ShowingInv, SharedInv, SoundRuns, SoundRun
<1>2. /\ saved.counter \in Counters /\ r.draft.counter \in Counters
      /\ r.out \in Counters /\ shown.counter \in Counters
  BY <1>1, CronFacts
<1>3. used.losses = 0 /\ ~MergeCutShort("cron")
  <2>1. /\ used \in [faults : 0..MaxFaults, losses : 0..MaxFaults, setups : 0..MaxFaults]
        /\ MaxFaults \in Nat
    BY <1>1, BoundAssumption DEF SharedInv, SoundShown
  <2>2. ~MergeCutShort("cron")
    <3> SUFFICES ASSUME MergeCutShort("cron") PROVE FALSE
      OBVIOUS
    <3>1. used'.losses = used.losses + 1
      BY <2>1 DEF MergeCutShort
    <3> QED
      BY <2>1, <3>1
  <2>3. Fault => used'.losses = used.losses
    BY <1>1, FaultCounts
  <2>4. Starts("cron") => used'.losses = used.losses
    BY DEF Starts
  <2> QED
    BY <1>1, <2>2, <2>3, <2>4
       DEF StepOf, RunStep, ReadWireless, ReadLog, MergeState, SaveState, PrintCounters,
           Publish, GivesUp, ReadsNoLog, Killed
<1>4. SUFFICES ASSUME NEW s \in Ssids
      PROVE  /\ shown'.counter[s] >= shown.counter[s]
             /\ shown'.counter[s] <= saved'.counter[s]
             /\ run'["cron"].at = "merged" => saved'.counter[s] <= run'["cron"].draft.counter[s]
             /\ run'["cron"].at = "counted" => /\ shown'.counter[s] <= run'["cron"].out[s]
                                              /\ run'["cron"].out[s] <= saved'.counter[s]
  OBVIOUS
<1>5. /\ saved.counter[s] \in Nat /\ r.draft.counter[s] \in Nat
      /\ r.out[s] \in Nat /\ shown.counter[s] \in Nat
  BY <1>2 DEF Counters
<1>6. /\ shown.counter[s] <= saved.counter[s]
      /\ r.at = "merged" => saved.counter[s] <= r.draft.counter[s]
      /\ r.at = "counted" => shown.counter[s] <= r.out[s] /\ r.out[s] <= saved.counter[s]
  BY <1>3 DEF ShowingInv, Ascending
<1>7. CASE /\ saved' = saved /\ shown'.counter = shown.counter
           /\ run'["cron"].at \notin {"merged", "counted"}
  BY <1>5, <1>6, <1>7
<1>8. CASE Starts("cron") \/ ReadWireless("cron") \/ ReadLog("cron") \/ GivesUp("cron")
           \/ ReadsNoLog("cron") \/ Killed("cron")
  <2>1. saved' = saved /\ shown'.counter = shown.counter
    BY <1>8 DEF Starts, ReadWireless, ReadLog, GivesUp, ReadsNoLog, Killed
  <2>2. run'["cron"].at \notin {"merged", "counted"}
    <3>1. CASE Starts("cron")
      <4>1. run'["cron"] = [r EXCEPT !.at = "armed"]
        BY <1>1, <3>1, RunTouched DEF Starts, Advance
      <4> QED
        BY <1>1, <4>1 DEF Runs
    <3>2. CASE ReadWireless("cron")
      <4>1. run'["cron"].at \in {"unavailable", "ifaces"}
        BY <1>1, <3>2, WirelessRead
      <4> QED
        BY <4>1
    <3>3. CASE ReadLog("cron") \/ ReadsNoLog("cron")
      <4>1. \/ run'["cron"] = [r EXCEPT !.at = "read", !.lines = ring]
            \/ run'["cron"] = [r EXCEPT !.at = "read", !.lines = <<>>]
        BY <1>1, <3>3, RunTouched DEF ReadLog, ReadsNoLog, Advance
      <4>2. run'["cron"].at = "read"
        BY <1>1, <4>1 DEF Runs
      <4> QED
        BY <4>2
    <3>4. CASE GivesUp("cron")
      <4>1. run'["cron"] = [Idle EXCEPT !.at = "unavailable"]
        BY <1>1, <3>4, RunTouched DEF GivesUp, Advance
      <4> QED
        BY <4>1 DEF Idle
    <3>5. CASE Killed("cron")
      <4>1. run'["cron"] = Idle
        BY <1>1, <3>5, RunTouched DEF Killed, Advance
      <4> QED
        BY <4>1 DEF Idle
    <3> QED
      BY <1>8, <3>1, <3>2, <3>3, <3>4, <3>5
  <2> QED
    BY <1>7, <2>1, <2>2
<1>9. CASE MergeState("cron")
  <2>1. /\ run'["cron"] = [Idle EXCEPT !.at = "merged", !.draft = Merge(saved, r.lines, r.ifs)]
        /\ saved' = saved /\ shown' = shown
    BY <1>1, <1>9, RunTouched DEF MergeState, Advance
  <2>2. run'["cron"].at = "merged" /\ run'["cron"].draft = Merge(saved, r.lines, r.ifs)
    BY <2>1 DEF Idle
  <2>3. Merge(saved, r.lines, r.ifs).counter[s] >= saved.counter[s]
    BY <1>1, MergeAdds
  <2>4. saved'.counter[s] <= run'["cron"].draft.counter[s]
    BY <2>1, <2>2, <2>3
  <2> QED
    BY <1>5, <1>6, <2>1, <2>2, <2>4
<1>10. CASE SaveState("cron")
  <2>1. /\ run'["cron"] = [Idle EXCEPT !.at = "saved"]
        /\ saved' = r.draft /\ shown' = shown /\ r.at = "merged"
    BY <1>1, <1>10, RunTouched DEF SaveState, Advance, At
  <2>2. run'["cron"].at = "saved"
    BY <2>1 DEF Idle
  <2> QED
    BY <1>5, <1>6, <2>1, <2>2
<1>11. CASE PrintCounters("cron")
  <2>1. /\ run'["cron"] = [r EXCEPT !.at = "counted", !.out = saved.counter]
        /\ saved' = saved /\ shown' = shown
    BY <1>1, <1>11, RunTouched DEF PrintCounters, Advance
  <2>2. run'["cron"].at = "counted" /\ run'["cron"].out = saved.counter
    BY <1>1, <2>1 DEF Runs
  <2> QED
    BY <1>5, <1>6, <2>1, <2>2
<1>12. CASE Publish("cron")
  <2>1. run'["cron"] = Idle /\ saved' = saved
    BY <1>1, <1>12, RunTouched DEF Publish, Advance
  <2>2. run'["cron"].at = "idle"
    BY <2>1 DEF Idle
  <2>3. \/ shown'.counter = shown.counter
        \/ shown'.counter = r.out /\ r.at = "counted"
    <3>1. CASE At("cron", "counted")
      BY <1>12, <3>1 DEF Publish, At
    <3>2. CASE ~At("cron", "counted")
      BY <1>12, <3>2 DEF Publish
    <3> QED
      BY <3>1, <3>2
  <2> QED
    BY <1>5, <1>6, <2>1, <2>2, <2>3
<1> QED
  BY <1>1, <1>3, <1>8, <1>9, <1>10, <1>11, <1>12 DEF StepOf, RunStep

LEMMA ShowingInvNext ==
  ASSUME ShowingInv, SharedInv', [Next]_vars, used'.setups = 0
  PROVE  ShowingInv' /\ (used'.losses = 0 => \A s \in Ssids : shown'.counter[s] >= shown.counter[s])
<1>1. SharedInv /\ At("setup", "idle") /\ used.setups = 0 /\ Ascending
  BY DEF ShowingInv, CronOnly
<1>2. /\ shown.counter \in Counters
      /\ \A s \in Ssids : shown.counter[s] >= shown.counter[s]
  BY <1>1, CronFacts DEF Counters
<1>3. ASSUME NEW l \in Launchers, StepOf(l)
      PROVE  ShowingInv' /\ (used'.losses = 0 => \A s \in Ssids : shown'.counter[s] >= shown.counter[s])
  <2>1. run'["setup"].at = "idle" /\ used'.setups = used.setups
    BY <1>3, OnlyCronSteps DEF ShowingInv
  <2>2. Ascending' /\ (used'.losses = 0 => \A s \in Ssids : shown'.counter[s] >= shown.counter[s])
    BY <1>3, AscendingStep DEF Ascending
  <2> QED
    BY <1>1, <2>1, <2>2 DEF ShowingInv, CronOnly, At
<1>4. ASSUME saved' = saved, shown'.counter = shown.counter, used'.losses = used.losses,
             used'.setups = used.setups, run'["setup"].at = "idle",
             run' = run \/ run'["cron"].at = "idle"
      PROVE  ShowingInv' /\ (used'.losses = 0 => \A s \in Ssids : shown'.counter[s] >= shown.counter[s])
  <2>1. Ascending'
    BY <1>1, <1>4 DEF Ascending
  <2> QED
    BY <1>1, <1>2, <1>4, <2>1 DEF ShowingInv, CronOnly, At
<1>5. CASE (\E i \in Ifaces : Associates(i) \/ Flaps(i)) \/ RepeatsLine \/ Reboot
  <2>1. used'.losses = used.losses /\ used'.setups = used.setups
    <3>1. Fault => used'.losses = used.losses /\ used'.setups = used.setups
      BY <1>1, FaultCounts
    <3> QED
      BY <1>5, <3>1 DEF Associates, Flaps, RepeatsLine, Reboot, Log
  <2>2. saved' = saved /\ shown'.counter = shown.counter
    <3>1. shown \in [available : BOOLEAN, counter : Counters]
      BY <1>1 DEF SharedInv, SoundShown
    <3> QED
      BY <1>5, <3>1 DEF Associates, Flaps, RepeatsLine, Reboot, Log
  <2>3. run' = run \/ run' = [l \in Launchers |-> Idle]
    BY <1>5 DEF Associates, Flaps, RepeatsLine, Reboot, Log
  <2>4. run'["setup"].at = "idle" /\ (run' = run \/ run'["cron"].at = "idle")
    BY <1>1, <2>3 DEF Launchers, Idle, At
  <2> QED
    BY <1>4, <2>1, <2>2, <2>4
<1>6. CASE UNCHANGED vars
  BY <1>1, <1>4, <1>6 DEF vars, At
<1> QED
  BY <1>3, <1>5, <1>6, NextSplits

(* client-conntrack.sh:205: as long as only cron has started runs and the *)
(* flash has not been full, the counters that a scrape sees never go back, *)
(* not even when the router reboots or a run is killed, at whatever line.  *)
THEOREM NeverDecreases == Spec => CounterNeverDecreases
<1>1. Init => ShowingInv
  <2> SUFFICES ASSUME Init PROVE ShowingInv
    OBVIOUS
  <2>1. SharedInv
    BY SharedInvInit
  <2>2. /\ run["cron"].at = "idle" /\ run["setup"].at = "idle" /\ used.setups = 0
        /\ saved.counter = Zero /\ shown.counter = Zero
    BY DEF Init, Launchers, Idle, Empty
  <2>3. \A s \in Ssids : Zero[s] <= Zero[s]
    BY DEF Zero
  <2> QED
    BY <2>1, <2>2, <2>3 DEF ShowingInv, CronOnly, Ascending, At
<1>2. SharedInv /\ SharedInv' /\ (used.setups = 0 => ShowingInv) /\ [Next]_vars
        => (used.setups = 0 => ShowingInv)'
  BY SetupsStay, ShowingInvNext
<1>3. SharedInv /\ SharedInv' /\ (used.setups = 0 => ShowingInv) /\ [Next]_vars
        => [used'.losses = 0 /\ used'.setups = 0 =>
              \A s \in Ssids : shown'.counter[s] >= shown.counter[s]]_vars
  BY SetupsStay, ShowingInvNext
<1> QED
  BY <1>1, <1>2, <1>3, SharedInvHolds, PTL DEF Spec, CounterNeverDecreases

================================================================================
