------------------------- MODULE ClientInventory_proofs -------------------------
(***************************************************************************)
(* For any clients and any cap, and however often a load or a save fails,  *)
(* a scrape dies or the clock goes back: the store is well-formed and      *)
(* within its cap.  As long as no load and no save has failed and the      *)
(* clock has not gone back, whatever dies in between: only a client that   *)
(* has been crowded out loses its first-seen time, and what has been       *)
(* exported is on flash.                                                   *)
(***************************************************************************)
EXTENDS ClientInventory, FiniteSetTheorems, TLAPS

Pending == [m \in Macs |-> IF m \in scrape.macs THEN scrape.macs \ {m}
                           ELSE others[m] \cup scrape.macs]

(* Records are no younger than the clock, and older once it has moved.     *)
Dated(store) ==
  \A m \in DOMAIN store :
    store[m].last <= clock /\ (ticked => store[m].last < clock)

(* Whoever was seen no earlier than m is among those behind[m] lists.      *)
Ordered(store, behind) ==
  \A m, n \in DOMAIN store :
    m # n /\ store[m].last <= store[n].last => n \in behind[m]

(* From one store to the next: first-seen times stay, and who is missing   *)
(* has been crowded out.                                                   *)
Keeps(old, new, behind) ==
  \A m \in DOMAIN old :
    IF m \in DOMAIN new THEN new[m].first = old[m].first
    ELSE Cardinality(behind[m]) >= MaxClients

TouchedInv ==
  scrape.at = "touched" =>
    /\ Dated(scrape.store)
    /\ Ordered(scrape.store, Pending)
    /\ Keeps(saved, scrape.store, Pending)
    /\ scrape.macs \subseteq DOMAIN scrape.store

SavedInv ==
  scrape.at = "saved" =>
    scrape.store = saved /\ scrape.macs \subseteq DOMAIN saved

IInv ==
  /\ TypeOK
  /\ Cardinality(DOMAIN scrape.store) <= MaxClients
  /\ intact =>
       /\ Dated(saved) /\ Ordered(saved, others)
       /\ TouchedInv
       /\ SavedInv
  /\ ExportedIsSaved

--------------------------------------------------------------------------------
(* Ranks.                                                                  *)

(* Each element has those before it below it.                              *)
Chain(D, below) ==
  /\ below \in [D -> SUBSET D]
  /\ \A x \in D : x \notin below[x]
  /\ \A x, y \in D : \/ x = y
                     \/ below[x] \cup {x} \subseteq below[y]
                     \/ below[y] \cup {y} \subseteq below[x]

(* Elements of a chain have different ranks, so few have a rank in a short *)
(* interval.                                                               *)
LEMMA FewRanks ==
  ASSUME NEW D, IsFiniteSet(D), NEW below, Chain(D, below),
         NEW lo \in Int, NEW hi \in Int, lo <= hi,
         NEW S \in SUBSET D,
         \A x \in S : lo <= Cardinality(below[x]) /\ Cardinality(below[x]) < hi
  PROVE  Cardinality(S) <= hi - lo
<1> DEFINE rank == [x \in S |-> Cardinality(below[x])]
<1>1. ASSUME NEW x \in D
      PROVE  IsFiniteSet(below[x]) /\ Cardinality(below[x]) \in Int
  BY FS_Subset, FS_CardinalityType DEF Chain
<1>2. ASSUME NEW x \in D, NEW y \in D, below[x] \cup {x} \subseteq below[y]
      PROVE  Cardinality(below[x]) # Cardinality(below[y])
  <2>1. below[x] \in SUBSET below[y] /\ below[x] # below[y]
    BY <1>2 DEF Chain
  <2> QED
    BY <1>1, <2>1, FS_Subset
<1>3. \A x, y \in S : rank[x] = rank[y] => x = y
  BY <1>2 DEF Chain
<1>4. rank \in [S -> lo .. hi - 1]
  BY <1>1
<1>5. rank \in Injection(S, lo .. hi - 1)
  BY <1>3, <1>4 DEF Injection, IsInjective
<1>6. hi - 1 \in Int
  OBVIOUS
<1>7. IsFiniteSet(lo .. hi - 1)
  BY <1>6, FS_Interval
<1>8. Cardinality(lo .. hi - 1) = hi - lo
  <2>1. Cardinality(lo .. hi - 1) = IF lo > hi - 1 THEN 0 ELSE (hi - 1) - lo + 1
    BY <1>6, FS_Interval
  <2> QED
    BY <2>1
<1> HIDE DEF rank
<1> QED
  BY <1>5, <1>7, <1>8, FS_Injection

LEMMA FiniteSubset ==
  ASSUME NEW S \in SUBSET Macs
  PROVE  IsFiniteSet(S) /\ Cardinality(S) \in Nat
  BY ClientAssumption, FS_Subset, FS_CardinalityType

LEMMA ExportedIsCapped ==
  ASSUME NEW hosts \in SUBSET Macs
  PROVE  /\ Exported(hosts) \in SUBSET Macs
         /\ Cardinality(Exported(hosts)) <= MaxClients
<1> DEFINE below == [x \in hosts |-> {n \in hosts : n < x}]
<1>1. hosts \in SUBSET Nat /\ MaxClients \in Int /\ 0 \in Int /\ 0 <= MaxClients
  BY ClientAssumption
<1>2. Chain(hosts, below)
  <2>1. ASSUME NEW x \in hosts, NEW y \in hosts, x < y
        PROVE  below[x] \cup {x} \subseteq below[y]
    <3>1. \A n \in hosts : n < x => n < y
      BY <1>1, <2>1
    <3> QED
      BY <2>1, <3>1
  <2>2. \A x, y \in hosts : x = y \/ x < y \/ y < x
    BY <1>1
  <2>3. below \in [hosts -> SUBSET hosts] /\ \A x \in hosts : x \notin below[x]
    BY <1>1
  <2> HIDE DEF below
  <2> QED
    BY <2>1, <2>2, <2>3 DEF Chain
<1>3. Exported(hosts) \in SUBSET hosts
  BY DEF Exported
<1>4. \A x \in Exported(hosts) :
         0 <= Cardinality(below[x]) /\ Cardinality(below[x]) < MaxClients
  <2> TAKE x \in Exported(hosts)
  <2>1. x \in hosts /\ Cardinality({n \in hosts : n < x}) < MaxClients
    BY DEF Exported
  <2>2. below[x] = {n \in hosts : n < x}
    BY <2>1
  <2>3. Cardinality(below[x]) \in Nat
    BY <2>1, <2>2, FiniteSubset
  <2> QED
    BY <1>1, <2>1, <2>2, <2>3
<1>5. IsFiniteSet(hosts)
  BY FiniteSubset
<1> HIDE DEF below
<1>6. Cardinality(Exported(hosts)) <= MaxClients - 0
  BY <1>1, <1>2, <1>3, <1>4, <1>5, FewRanks, Zenon
<1>7. Cardinality(Exported(hosts)) <= MaxClients
  BY <1>1, <1>6
<1> QED
  BY <1>3, <1>7

--------------------------------------------------------------------------------
(* Eviction.                                                               *)

LEMMA StoreShape ==
  ASSUME NEW store
  PROVE  store \in Stores
           <=> /\ DOMAIN store \in SUBSET Macs
               /\ store \in [DOMAIN store -> [first : Times, last : Times]]
  BY DEF Stores

(* A store new is store after macs have been touched at the time now.      *)
IsTouched(new, store, macs, now) ==
  /\ new \in Stores /\ DOMAIN new = DOMAIN store \cup macs
  /\ \A m \in macs : new[m].last = now
  /\ \A m \in DOMAIN store : new[m].first = store[m].first
  /\ \A m \in DOMAIN store \ macs : new[m] = store[m]

LEMMA TouchedShape ==
  ASSUME NEW store \in Stores, NEW macs \in SUBSET Macs, NEW now \in Times
  PROVE  IsTouched(Touched(store, macs, now), store, macs, now)
<1> DEFINE new == Touched(store, macs, now)
<1>1. /\ DOMAIN store \in SUBSET Macs
      /\ store \in [DOMAIN store -> [first : Times, last : Times]]
  BY StoreShape
<1>2. /\ DOMAIN new = DOMAIN store \cup macs
      /\ \A m \in DOMAIN store \cup macs : new[m] \in [first : Times, last : Times]
      /\ new = [m \in DOMAIN new |-> new[m]]
  BY <1>1 DEF Touched
<1>. HIDE DEF new
<1>3. new \in [DOMAIN new -> [first : Times, last : Times]]
  BY <1>2
<1>4. new \in Stores
  BY <1>1, <1>2, <1>3, StoreShape
<1>5. /\ \A m \in macs : new[m].last = now
      /\ \A m \in DOMAIN store : new[m].first = store[m].first
      /\ \A m \in DOMAIN store \ macs : new[m] = store[m]
  BY <1>1 DEF new, Touched
<1> QED
  BY <1>2, <1>4, <1>5 DEF IsTouched, new

LEMMA OlderIsTotal ==
  ASSUME NEW store \in Stores
  PROVE  LET older == [m \in DOMAIN store |-> {n \in DOMAIN store : Older(store, n, m)}]
         IN  Chain(DOMAIN store, older)
<1> DEFINE D == DOMAIN store
           older == [m \in D |-> {n \in D : Older(store, n, m)}]
<1>1. D \subseteq Nat /\ \A m \in D : store[m].last \in Nat
  BY StoreShape, ClientAssumption DEF Times
<1>2. \A m \in D : ~Older(store, m, m)
  BY <1>1 DEF Older
<1>3. \A m, n \in D : m = n \/ Older(store, m, n) \/ Older(store, n, m)
  BY <1>1 DEF Older
<1>4. \A k, m, n \in D : Older(store, k, m) /\ Older(store, m, n) => Older(store, k, n)
  BY <1>1 DEF Older
<1> QED
  BY <1>2, <1>3, <1>4 DEF Chain

OlderThan(store) ==
  [m \in DOMAIN store |-> {n \in DOMAIN store : Older(store, n, m)}]

LEMMA OlderThanFinite ==
  ASSUME NEW store \in Stores
  PROVE  /\ DOMAIN store \in SUBSET Macs
         /\ IsFiniteSet(DOMAIN store) /\ Cardinality(DOMAIN store) \in Nat
         /\ \A m \in DOMAIN store :
              /\ OlderThan(store)[m] \in SUBSET DOMAIN store
              /\ m \notin OlderThan(store)[m]
              /\ Cardinality(OlderThan(store)[m]) \in Nat
              /\ Cardinality(DOMAIN store \ OlderThan(store)[m])
                   = Cardinality(DOMAIN store) - Cardinality(OlderThan(store)[m])
              /\ m \in Evicted(store)
                   <=> MaxClients + Cardinality(OlderThan(store)[m])
                         < Cardinality(DOMAIN store)
<1>1. DOMAIN store \in SUBSET Macs
  BY StoreShape
<1>2. IsFiniteSet(DOMAIN store) /\ Cardinality(DOMAIN store) \in Nat
  BY <1>1, FiniteSubset
<1>3. Chain(DOMAIN store, OlderThan(store))
  BY OlderIsTotal DEF OlderThan
<1> SUFFICES ASSUME NEW m \in DOMAIN store
             PROVE  /\ OlderThan(store)[m] \in SUBSET DOMAIN store
                    /\ m \notin OlderThan(store)[m]
                    /\ Cardinality(OlderThan(store)[m]) \in Nat
                    /\ Cardinality(DOMAIN store \ OlderThan(store)[m])
                        = Cardinality(DOMAIN store)
                            - Cardinality(OlderThan(store)[m])
                    /\ m \in Evicted(store)
                        <=> MaxClients + Cardinality(OlderThan(store)[m])
                              < Cardinality(DOMAIN store)
  BY <1>1, <1>2
<1>4. OlderThan(store)[m] \in SUBSET DOMAIN store /\ m \notin OlderThan(store)[m]
  BY <1>3 DEF Chain
<1>5. Cardinality(OlderThan(store)[m]) \in Nat
  BY <1>2, <1>4, FS_Subset, FS_CardinalityType
<1>6. DOMAIN store \cap OlderThan(store)[m] = OlderThan(store)[m]
  BY <1>4
<1>7. Cardinality(DOMAIN store \ OlderThan(store)[m])
        = Cardinality(DOMAIN store) - Cardinality(OlderThan(store)[m])
  BY <1>2, <1>6, FS_Difference
<1> QED
  BY <1>4, <1>5, <1>7 DEF Evicted, OlderThan

(* What is left of a store is within the cap, and is as it was.            *)
LEMMA TrimmedIsCapped ==
  ASSUME NEW store \in Stores
  PROVE  /\ Trimmed(store) \in Stores
         /\ DOMAIN Trimmed(store) = DOMAIN store \ Evicted(store)
         /\ \A m \in DOMAIN Trimmed(store) : Trimmed(store)[m] = store[m]
         /\ Cardinality(DOMAIN Trimmed(store)) <= MaxClients
<1> DEFINE D == DOMAIN store
           kept == D \ Evicted(store)
           size == Cardinality(D)
<1>1. /\ DOMAIN Trimmed(store) = kept
      /\ \A m \in kept : Trimmed(store)[m] = store[m]
      /\ Trimmed(store) = [m \in kept |-> Trimmed(store)[m]]
  BY DEF Trimmed
<1>2. Trimmed(store) \in Stores
  <2>1. /\ D \in SUBSET Macs
        /\ \A m \in kept : store[m] \in [first : Times, last : Times]
    BY StoreShape
  <2>2. Trimmed(store) \in [kept -> [first : Times, last : Times]]
    BY <1>1, <2>1
  <2> QED
    BY <1>1, <2>1, <2>2, StoreShape
<1>3. /\ size \in Int /\ size - MaxClients \in Int
      /\ size - MaxClients <= size
  BY OlderThanFinite, ClientAssumption
<1>4. \A m \in kept : /\ size - MaxClients <= Cardinality(OlderThan(store)[m])
                      /\ Cardinality(OlderThan(store)[m]) < size
  <2> TAKE m \in kept
  <2>1. /\ Cardinality(OlderThan(store)[m]) \in Nat /\ size \in Nat
        /\ ~(MaxClients + Cardinality(OlderThan(store)[m]) < size)
    BY OlderThanFinite
  <2>2. Cardinality(OlderThan(store)[m]) < size
    <3>1. /\ OlderThan(store)[m] \in SUBSET D /\ OlderThan(store)[m] # D
          /\ IsFiniteSet(D)
      BY OlderThanFinite
    <3>2. /\ Cardinality(OlderThan(store)[m]) <= size
          /\ size # Cardinality(OlderThan(store)[m])
      BY <3>1, FS_Subset, Zenon
    <3> QED
      BY <2>1, <3>2
  <2> QED
    BY <2>1, <2>2, ClientAssumption
<1>5. IsFiniteSet(D) /\ Chain(D, OlderThan(store)) /\ kept \in SUBSET D
  BY OlderThanFinite, OlderIsTotal DEF OlderThan
<1> HIDE DEF size, kept
<1>6. Cardinality(kept) <= size - (size - MaxClients)
  BY <1>3, <1>4, <1>5, FewRanks, Zenon
<1>7. Cardinality(kept) <= MaxClients
  BY <1>3, <1>6, ClientAssumption
<1> QED
  BY <1>1, <1>2, <1>7 DEF kept

(* Only as many are evicted as the store has too many.                     *)
LEMMA TrimmedIsFull ==
  ASSUME NEW store \in Stores, Evicted(store) # {}
  PROVE  Cardinality(DOMAIN Trimmed(store)) = MaxClients
<1> DEFINE D == DOMAIN store
           size == Cardinality(D)
<1>1. /\ size \in Int /\ 0 \in Int /\ size - MaxClients \in Int
      /\ IsFiniteSet(D) /\ Chain(D, OlderThan(store)) /\ Evicted(store) \in SUBSET D
  BY OlderThanFinite, OlderIsTotal, ClientAssumption DEF OlderThan, Evicted
<1>2. ASSUME NEW m \in Evicted(store)
      PROVE  /\ Cardinality(OlderThan(store)[m]) \in Nat
             /\ Cardinality(OlderThan(store)[m]) < size - MaxClients
  <2>1. /\ m \in D
        /\ Cardinality(OlderThan(store)[m]) \in Nat
        /\ MaxClients + Cardinality(OlderThan(store)[m]) < size
    BY <1>1, OlderThanFinite
  <2> QED
    BY <1>1, <2>1, ClientAssumption
<1>3. \A m \in Evicted(store) : /\ 0 <= Cardinality(OlderThan(store)[m])
                                /\ Cardinality(OlderThan(store)[m]) < size - MaxClients
  BY <1>2
<1>4. 0 <= size - MaxClients
  <2>1. PICK m \in Evicted(store) : TRUE
    OBVIOUS
  <2> QED
    BY <1>1, <1>2, <2>1
<1> HIDE DEF size
<1>5. Cardinality(Evicted(store)) <= (size - MaxClients) - 0
  BY <1>1, <1>3, <1>4, FewRanks, Zenon
<1>6. /\ Cardinality(D \ Evicted(store)) = size - Cardinality(Evicted(store))
      /\ Cardinality(Evicted(store)) \in Nat
  <2>1. D \cap Evicted(store) = Evicted(store)
    BY <1>1
  <2> QED
    BY <1>1, <2>1, FS_Difference, FS_Subset, FS_CardinalityType DEF size
<1>7. /\ DOMAIN Trimmed(store) = D \ Evicted(store)
      /\ Cardinality(DOMAIN Trimmed(store)) <= MaxClients
  BY TrimmedIsCapped
<1> QED
  BY <1>1, <1>5, <1>6, <1>7, ClientAssumption

(* Who is evicted has at least MaxClients others that were seen no earlier.*)
LEMMA EvictedIsCrowdedOut ==
  ASSUME NEW store \in Stores, NEW m \in Evicted(store),
         NEW behind \in SUBSET Macs,
         \A n \in DOMAIN store :
           m # n /\ store[m].last <= store[n].last => n \in behind
  PROVE  Cardinality(behind) >= MaxClients
<1> DEFINE D == DOMAIN store
           rest == D \ OlderThan(store)[m]
<1>1. m \in D
  BY DEF Evicted
<1>2. /\ D \subseteq Nat /\ \A n \in D : store[n].last \in Nat
      /\ MaxClients \in Nat
  BY StoreShape, ClientAssumption DEF Times
<1>3. rest \ {m} \in SUBSET behind
  <2> SUFFICES ASSUME NEW n \in D, n # m, ~Older(store, n, m) PROVE n \in behind
    BY <1>1 DEF OlderThan
  <2> QED
    BY <1>1, <1>2 DEF Older
<1>4. /\ Cardinality(rest) > MaxClients
      /\ m \in rest /\ IsFiniteSet(rest)
  <2>1. /\ Cardinality(rest) = Cardinality(D) - Cardinality(OlderThan(store)[m])
        /\ MaxClients + Cardinality(OlderThan(store)[m]) < Cardinality(D)
        /\ Cardinality(OlderThan(store)[m]) \in Nat /\ Cardinality(D) \in Nat
        /\ m \notin OlderThan(store)[m] /\ IsFiniteSet(D)
    BY <1>1, OlderThanFinite
  <2>2. IsFiniteSet(rest)
    BY <2>1, FS_Difference
  <2> HIDE DEF D
  <2> QED
    BY <1>1, <1>2, <2>1, <2>2
<1>5. Cardinality(rest \ {m}) = Cardinality(rest) - 1 /\ Cardinality(rest) \in Nat
  BY <1>4, FS_RemoveElement, FS_CardinalityType
<1>6. /\ Cardinality(rest \ {m}) <= Cardinality(behind)
      /\ Cardinality(behind) \in Nat
  BY <1>3, FiniteSubset, FS_Subset
<1> HIDE DEF rest
<1> QED
  BY <1>2, <1>4, <1>5, <1>6

(* Who has just been touched stays, if there are at most MaxClients.       *)
LEMMA TouchedIsKept ==
  ASSUME NEW store \in Stores, NEW macs \in SUBSET DOMAIN store,
         Cardinality(macs) <= MaxClients,
         NEW now \in Nat, \A m \in macs : store[m].last = now,
         \A m \in DOMAIN store \ macs : store[m].last < now
  PROVE  macs \cap Evicted(store) = {}
<1> SUFFICES ASSUME NEW m \in macs, m \in Evicted(store) PROVE FALSE
  OBVIOUS
<1> DEFINE D == DOMAIN store
           rest == D \ OlderThan(store)[m]
<1>1. D \subseteq Macs /\ D \subseteq Nat /\ \A n \in D : store[n].last \in Nat
  BY StoreShape, ClientAssumption DEF Times
<1>2. rest \in SUBSET macs
  BY <1>1 DEF OlderThan, Older
<1>3. Cardinality(rest) <= Cardinality(macs) /\ Cardinality(macs) \in Nat
  BY <1>1, <1>2, FiniteSubset, FS_Subset
<1>4. /\ Cardinality(rest) = Cardinality(D) - Cardinality(OlderThan(store)[m])
      /\ MaxClients + Cardinality(OlderThan(store)[m]) < Cardinality(D)
      /\ Cardinality(OlderThan(store)[m]) \in Nat /\ Cardinality(D) \in Nat
  BY OlderThanFinite
<1> HIDE DEF rest, D
<1> QED
  BY <1>3, <1>4, ClientAssumption

--------------------------------------------------------------------------------
(* The actions.                                                            *)

LEMMA EmptyStore ==
  /\ Nothing \in Stores /\ DOMAIN Nothing = {} /\ Cardinality({}) = 0
<1>1. DOMAIN Nothing = {} /\ Nothing \in [{} -> [first : Times, last : Times]]
  BY DEF Nothing
<1> QED
  BY <1>1, StoreShape, FS_EmptySet

LEMMA InitIInv == Init => IInv
<1> SUFFICES ASSUME Init PROVE IInv
  OBVIOUS
<1>1. TypeOK /\ Cardinality(DOMAIN scrape.store) <= MaxClients
  BY EmptyStore, ClientAssumption DEF Init, TypeOK, Idle, Times
<1>2. Dated(saved) /\ Ordered(saved, others)
  BY EmptyStore DEF Init, Dated, Ordered
<1>3. TouchedInv /\ SavedInv
  BY DEF Init, Idle, TouchedInv, SavedInv
<1>4. ExportedIsSaved
  BY EmptyStore DEF Init, ExportedIsSaved
<1> QED
  BY <1>1, <1>2, <1>3, <1>4 DEF IInv

LEMMA FaultType ==
  ASSUME TypeOK, Fault
  PROVE  faults' \in [crashes : 0..MaxFaults, backs : 0..MaxClockBacks]
  BY ClientAssumption DEF TypeOK, Fault

(* A tick makes all records older than the clock.                          *)
LEMMA TicksIInv == IInv /\ Ticks => IInv'
<1> SUFFICES ASSUME IInv, Ticks PROVE IInv'
  OBVIOUS
<1>1. TypeOK'
  BY ClientAssumption DEF IInv, Ticks, TypeOK, Times
<1>2. ASSUME NEW store \in Stores, Dated(store)
      PROVE  \A m \in DOMAIN store : store[m].last <= clock' /\ store[m].last < clock'
  <2>1. \A m \in DOMAIN store : store[m].last \in Nat
    BY StoreShape DEF Times
  <2> QED
    BY <1>2, <2>1 DEF IInv, Dated, Ticks, TypeOK, Times
<1>3. saved \in Stores /\ scrape.store \in Stores
  BY DEF IInv, TypeOK
<1>4. UNCHANGED <<saved, scrape, shown, others, intact>>
  BY DEF Ticks
<1>5. Pending' = Pending
  BY <1>4 DEF Pending
<1>6. Dated(saved) => Dated(saved)'
  BY <1>2, <1>3, <1>4 DEF Dated
<1>7. Dated(scrape.store) => Dated(scrape.store)'
  BY <1>2, <1>3, <1>4 DEF Dated
<1>8. TouchedInv => TouchedInv'
  BY <1>4, <1>5, <1>7 DEF TouchedInv, Ordered, Keeps
<1> QED
  BY <1>1, <1>4, <1>6, <1>8 DEF IInv, Ordered, SavedInv, ExportedIsSaved

(* The store in memory after a touch.                                      *)
LEMMA TouchIInv ==
  ASSUME IInv, NEW hosts \in SUBSET Macs, ScrapeTouches(hosts)
  PROVE  IInv'
<1> DEFINE macs == Exported(hosts)
           touched == Touched(saved, macs, clock)
           new == Trimmed(touched)
<1>1. /\ saved \in Stores /\ DOMAIN saved \in SUBSET Macs
      /\ clock \in Times /\ clock \in Nat
      /\ \A m \in DOMAIN saved : saved[m].last \in Nat
  BY StoreShape DEF IInv, TypeOK, Times
<1>2. macs \in SUBSET Macs /\ Cardinality(macs) <= MaxClients
  BY ExportedIsCapped
<1> HIDE DEF macs
<1>3. IsTouched(touched, saved, macs, clock)
  BY <1>1, <1>2, TouchedShape, Zenon
<1>4. /\ new \in Stores /\ DOMAIN new = DOMAIN touched \ Evicted(touched)
      /\ \A m \in DOMAIN new : new[m] = touched[m]
      /\ Cardinality(DOMAIN new) <= MaxClients
  BY <1>3, TrimmedIsCapped DEF IsTouched
<1>5. /\ scrape' = [at |-> "touched", macs |-> macs, store |-> new, loaded |-> TRUE]
      /\ ticked /\ ticked' = FALSE /\ scrape.at = "idle"
      /\ UNCHANGED <<clock, saved, shown, others, intact, faults>>
  BY DEF ScrapeTouches, Begins, macs
<1> HIDE DEF touched, new
<1> USE DEF IsTouched
<1>6. TypeOK' /\ Cardinality(DOMAIN scrape'.store) <= MaxClients
  BY <1>2, <1>4, <1>5 DEF IInv, TypeOK
<1>7. Pending' = [m \in Macs |-> IF m \in macs THEN macs \ {m} ELSE others[m] \cup macs]
  BY <1>5 DEF Pending
<1>8. ASSUME intact'
      PROVE  Dated(saved)' /\ Ordered(saved, others)' /\ TouchedInv' /\ SavedInv'
  <2>1. /\ \A m \in DOMAIN saved : saved[m].last < clock
        /\ Ordered(saved, others)
    BY <1>5, <1>8 DEF IInv, Dated
  <2>2. Dated(saved)' /\ Ordered(saved, others)'
    BY <1>1, <1>5, <2>1 DEF Dated, Ordered
  <2>3. \A m \in DOMAIN touched : touched[m].last <= clock
    BY <1>1, <1>3, <2>1
  <2>4. Ordered(touched, Pending')
    <3> SUFFICES ASSUME NEW m \in DOMAIN touched, NEW n \in DOMAIN touched, m # n,
                        touched[m].last <= touched[n].last
                 PROVE  n \in Pending'[m]
      BY DEF Ordered
    <3>1. m \in Macs
      BY <1>1, <1>2, <1>3
    <3>2. CASE n \in macs
      BY <1>7, <3>1, <3>2
    <3>3. CASE n \notin macs
      <4>1. n \in DOMAIN saved /\ touched[n].last < clock
        BY <1>3, <2>1, <3>3
      <4>2. m \notin macs
        BY <1>1, <1>3, <3>3, <4>1
      <4>3. m \in DOMAIN saved /\ saved[m].last <= saved[n].last
        BY <1>3, <3>3, <4>1, <4>2
      <4> QED
        BY <1>7, <2>1, <3>1, <4>1, <4>2, <4>3 DEF Ordered
    <3> QED
      BY <3>2, <3>3
  <2>5. macs \subseteq DOMAIN new
    <3>1. \A m \in DOMAIN touched \ macs : touched[m].last < clock
      BY <1>3, <2>1
    <3>2. macs \in SUBSET DOMAIN touched
      BY <1>3
    <3>3. macs \cap Evicted(touched) = {}
      BY <1>1, <1>2, <1>3, <3>1, <3>2, TouchedIsKept
    <3> QED
      BY <1>4, <3>2, <3>3
  <2>6. Keeps(saved, new, Pending')
    <3> SUFFICES ASSUME NEW m \in DOMAIN saved
                 PROVE  IF m \in DOMAIN new THEN new[m].first = saved[m].first
                        ELSE Cardinality(Pending'[m]) >= MaxClients
      BY DEF Keeps
    <3>1. CASE m \in DOMAIN new
      BY <1>3, <1>4, <3>1
    <3>2. CASE m \notin DOMAIN new
      <4>1. m \in Evicted(touched)
        BY <1>3, <1>4, <3>2
      <4>2. Pending'[m] \in SUBSET Macs
        BY <1>1, <1>2, <1>7 DEF IInv, TypeOK
      <4>3. \A n \in DOMAIN touched :
               m # n /\ touched[m].last <= touched[n].last => n \in Pending'[m]
        BY <1>3, <2>4 DEF Ordered
      <4>4. Cardinality(Pending'[m]) >= MaxClients
        BY <1>3, <4>1, <4>2, <4>3, EvictedIsCrowdedOut
      <4> QED
        BY <3>2, <4>4
    <3> QED
      BY <3>1, <3>2
  <2>7. TouchedInv'
    BY <1>4, <1>5, <2>3, <2>4, <2>5, <2>6 DEF TouchedInv, Dated, Ordered, Keeps
  <2>8. SavedInv'
    BY <1>5 DEF SavedInv
  <2> QED
    BY <2>2, <2>7, <2>8
<1>9. ExportedIsSaved'
  BY <1>5 DEF IInv, ExportedIsSaved
<1> QED
  BY <1>6, <1>8, <1>9 DEF IInv

(* A scrape that finds no store starts from an empty one.                  *)
LEMMA NoStoreIInv ==
  ASSUME IInv, NEW hosts \in SUBSET Macs, StoreNotOpened(hosts) \/ StoreNotRead(hosts)
  PROVE  IInv'
<1> DEFINE macs == Exported(hosts)
           touched == Touched(Nothing, macs, clock)
<1>1. macs \in SUBSET Macs /\ Cardinality(macs) <= MaxClients
  BY ExportedIsCapped
<1>2. clock \in Times
  BY DEF IInv, TypeOK
<1>3. IsTouched(touched, Nothing, macs, clock)
  BY <1>1, <1>2, EmptyStore, TouchedShape, Zenon
<1>4. /\ touched \in Stores /\ DOMAIN touched = macs
      /\ Trimmed(touched) \in Stores
      /\ Cardinality(DOMAIN Trimmed(touched)) <= MaxClients
  BY <1>3, EmptyStore, TrimmedIsCapped DEF IsTouched
<1> HIDE DEF touched, macs
<1>5. PICK at \in {"touched", "saved"}, new \in {touched, Trimmed(touched)} :
        scrape' = [at |-> at, macs |-> macs, store |-> new, loaded |-> FALSE]
  BY DEF StoreNotOpened, StoreNotRead, Begins, touched, macs
<1>6. /\ new \in Stores /\ Cardinality(DOMAIN new) <= MaxClients
      /\ ticked' = FALSE /\ intact' = FALSE /\ Fault
      /\ UNCHANGED <<clock, saved, shown, others>>
  BY <1>1, <1>4, <1>5 DEF StoreNotOpened, StoreNotRead, Begins
<1>7. /\ scrape' \in [at : {"idle", "touched", "saved"}, macs : SUBSET Macs,
                      store : Stores, loaded : BOOLEAN]
      /\ Cardinality(DOMAIN scrape'.store) <= MaxClients
  BY <1>1, <1>5, <1>6
<1>8. TypeOK'
  BY <1>6, <1>7, FaultType DEF IInv, TypeOK
<1> QED
  BY <1>6, <1>7, <1>8 DEF IInv, ExportedIsSaved

(* A touched store that is saved whole becomes what the next touch finds.  *)
LEMMA SavesIInv == IInv /\ ScrapeSaves => IInv'
<1> SUFFICES ASSUME IInv, ScrapeSaves PROVE IInv'
  OBVIOUS
<1>1. /\ scrape.at = "touched" /\ saved' = scrape.store
      /\ scrape' = [scrape EXCEPT !.at = "saved"]
      /\ UNCHANGED <<clock, ticked, shown, intact, faults>>
  BY DEF ScrapeSaves
<1>2. /\ scrape'.at = "saved" /\ scrape'.macs = scrape.macs
      /\ scrape'.store = scrape.store
      /\ scrape' \in [at : {"idle", "touched", "saved"}, macs : SUBSET Macs,
                      store : Stores, loaded : BOOLEAN]
  BY <1>1 DEF IInv, TypeOK
<1>3. others' = Pending /\ Pending \in [Macs -> SUBSET Macs]
  BY DEF ScrapeSaves, Pending, IInv, TypeOK
<1>4. TypeOK' /\ Cardinality(DOMAIN scrape'.store) <= MaxClients
  BY <1>1, <1>2, <1>3 DEF IInv, TypeOK
<1>5. ASSUME intact'
      PROVE  Dated(saved)' /\ Ordered(saved, others)' /\ TouchedInv' /\ SavedInv'
  <2>1. /\ Dated(scrape.store) /\ Ordered(scrape.store, Pending)
        /\ scrape.macs \subseteq DOMAIN scrape.store
    BY <1>1, <1>5 DEF IInv, TouchedInv
  <2> QED
    BY <1>1, <1>2, <1>3, <2>1 DEF Dated, Ordered, TouchedInv, SavedInv
<1>6. ExportedIsSaved'
  <2>1. intact => Keeps(saved, scrape.store, Pending)
                    /\ scrape.macs \subseteq DOMAIN scrape.store
    BY <1>1 DEF IInv, TouchedInv
  <2> QED
    BY <1>1, <1>2, <2>1 DEF IInv, ExportedIsSaved, Keeps
<1> QED
  BY <1>4, <1>5, <1>6 DEF IInv

(* A failed save costs the promise, not the store's shape.                 *)
LEMMA FailedSaveIInv == IInv /\ (SaveFails \/ SaveCutShort) => IInv'
<1> SUFFICES ASSUME IInv, SaveFails \/ SaveCutShort PROVE IInv'
  OBVIOUS
<1>1. /\ Fault /\ intact' = FALSE
      /\ scrape' = [scrape EXCEPT !.at = "saved"]
      /\ UNCHANGED <<clock, ticked, shown, others>>
  BY DEF SaveFails, SaveCutShort
<1>2. /\ scrape'.store = scrape.store
      /\ scrape' \in [at : {"idle", "touched", "saved"}, macs : SUBSET Macs,
                      store : Stores, loaded : BOOLEAN]
  BY <1>1 DEF IInv, TypeOK
<1>3. saved' \in Stores /\ Cardinality(DOMAIN saved') <= MaxClients
  <2>1. CASE SaveFails
    BY <2>1 DEF SaveFails, IInv, TypeOK
  <2>2. CASE SaveCutShort
    <3>1. PICK fitted \in SUBSET DOMAIN scrape.store :
                saved' = [m \in fitted |-> scrape.store[m]]
      BY <2>2 DEF SaveCutShort
    <3>2. /\ DOMAIN scrape.store \in SUBSET Macs
          /\ \A m \in DOMAIN scrape.store :
               scrape.store[m] \in [first : Times, last : Times]
      BY StoreShape DEF IInv, TypeOK
    <3>3. DOMAIN saved' = fitted /\ saved' \in [fitted -> [first : Times, last : Times]]
      BY <3>1, <3>2
    <3>4. saved' \in Stores
      BY <3>2, <3>3, StoreShape
    <3>5. /\ Cardinality(fitted) <= Cardinality(DOMAIN scrape.store)
          /\ Cardinality(fitted) \in Nat
          /\ Cardinality(DOMAIN scrape.store) \in Nat
      BY <3>2, FiniteSubset, FS_Subset
    <3> QED
      BY <3>3, <3>4, <3>5, ClientAssumption DEF IInv
  <2> QED
    BY <2>1, <2>2
<1>4. TypeOK'
  BY <1>1, <1>2, <1>3, FaultType DEF IInv, TypeOK
<1> QED
  BY <1>1, <1>2, <1>4 DEF IInv, ExportedIsSaved

(* The exposition shows what has just been saved.                          *)
LEMMA ExportsIInv == IInv /\ ScrapeExports => IInv'
<1> SUFFICES ASSUME IInv, ScrapeExports PROVE IInv'
  OBVIOUS
<1>1. /\ scrape.at = "saved" /\ scrape' = Idle
      /\ shown' = [m \in scrape.macs |->
                     IF m \in DOMAIN scrape.store THEN scrape.store[m].first ELSE clock]
      /\ UNCHANGED <<clock, ticked, saved, others, intact, faults>>
  BY DEF ScrapeExports
<1>2. /\ scrape.macs \subseteq Macs /\ clock \in Times
      /\ \A m \in DOMAIN scrape.store : scrape.store[m].first \in Times
  BY StoreShape DEF IInv, TypeOK
<1>3. DOMAIN shown' \subseteq Macs /\ \A m \in DOMAIN shown' : shown'[m] \in Times
  BY <1>1, <1>2
<1>4. /\ scrape'.at = "idle" /\ scrape'.store = Nothing
      /\ scrape' \in [at : {"idle", "touched", "saved"}, macs : SUBSET Macs,
                      store : Stores, loaded : BOOLEAN]
  BY <1>1, EmptyStore DEF Idle
<1>5. TypeOK' /\ Cardinality(DOMAIN scrape'.store) <= MaxClients
  BY <1>1, <1>3, <1>4, EmptyStore, ClientAssumption DEF IInv, TypeOK
<1>6. TouchedInv' /\ SavedInv'
  BY <1>4 DEF TouchedInv, SavedInv
<1>7. intact => Dated(saved)' /\ Ordered(saved, others)'
  BY <1>1 DEF IInv, Dated, Ordered
<1>8. ExportedIsSaved'
  <2>1. intact => scrape.store = saved /\ scrape.macs \subseteq DOMAIN saved
    BY <1>1 DEF IInv, SavedInv
  <2> QED
    BY <1>1, <2>1 DEF ExportedIsSaved
<1> QED
  BY <1>1, <1>5, <1>6, <1>7, <1>8 DEF IInv

(* A scrape that dies, or finds no clients, shows nothing.                 *)
LEMMA LostScrapeIInv == IInv /\ (Crashes \/ ScrapeFails) => IInv'
<1> SUFFICES ASSUME IInv, Crashes \/ ScrapeFails PROVE IInv'
  OBVIOUS
<1>1. /\ Fault /\ shown' = Nothing
      /\ scrape' = Idle \/ scrape' = scrape
      /\ UNCHANGED <<clock, ticked, saved, others, intact>>
  BY DEF Crashes, ScrapeFails
<1>2. /\ scrape' \in [at : {"idle", "touched", "saved"}, macs : SUBSET Macs,
                      store : Stores, loaded : BOOLEAN]
      /\ Cardinality(DOMAIN scrape'.store) <= MaxClients
      /\ scrape' = scrape \/ scrape'.at = "idle"
  <2>1. CASE scrape' = scrape
    BY <2>1 DEF IInv, TypeOK
  <2>2. CASE scrape' = Idle
    BY <2>2, EmptyStore, ClientAssumption DEF Idle
  <2> QED
    BY <1>1, <2>1, <2>2
<1>3. TypeOK'
  BY <1>1, <1>2, EmptyStore, FaultType DEF IInv, TypeOK
<1>4. intact => Dated(saved)' /\ Ordered(saved, others)'
  BY <1>1 DEF IInv, Dated, Ordered
<1>5. intact => TouchedInv' /\ SavedInv'
  <2>1. CASE scrape'.at = "idle"
    BY <2>1 DEF TouchedInv, SavedInv
  <2>2. CASE scrape' = scrape
    <3>1. Pending' = Pending
      BY <1>1, <2>2 DEF Pending
    <3>2. TouchedInv => TouchedInv'
      BY <1>1, <2>2, <3>1 DEF TouchedInv, Dated, Ordered, Keeps
    <3>3. SavedInv => SavedInv'
      BY <1>1, <2>2 DEF SavedInv
    <3> QED
      BY <1>1, <3>2, <3>3 DEF IInv
  <2> QED
    BY <1>2, <2>1, <2>2
<1>6. ExportedIsSaved'
  BY <1>1, EmptyStore DEF ExportedIsSaved
<1> QED
  BY <1>1, <1>2, <1>3, <1>4, <1>5, <1>6 DEF IInv

LEMMA ClockGoesBackIInv == IInv /\ ClockGoesBack => IInv'
<1> SUFFICES ASSUME IInv, ClockGoesBack PROVE IInv'
  OBVIOUS
<1>1. /\ ticked' = TRUE /\ intact' = FALSE
      /\ UNCHANGED <<saved, scrape, shown, others>>
  BY DEF ClockGoesBack
<1>2. clock' \in Times
  BY ClientAssumption DEF ClockGoesBack, IInv, TypeOK, Times
<1>3. faults' \in [crashes : 0..MaxFaults, backs : 0..MaxClockBacks]
  BY ClientAssumption DEF ClockGoesBack, IInv, TypeOK
<1>4. TypeOK'
  BY <1>1, <1>2, <1>3 DEF IInv, TypeOK
<1> QED
  BY <1>1, <1>4 DEF IInv, ExportedIsSaved

LEMMA NextIInv == IInv /\ [Next]_vars => IInv'
<1>1. IInv /\ UNCHANGED vars => IInv'
  <2> SUFFICES ASSUME IInv, UNCHANGED vars PROVE IInv'
    OBVIOUS
  <2>1. TypeOK' /\ ExportedIsSaved'
    BY DEF vars, IInv, TypeOK, ExportedIsSaved
  <2>2. Pending' = Pending
    BY DEF vars, Pending
  <2>3. TouchedInv => TouchedInv'
    BY <2>2 DEF vars, TouchedInv, Dated, Ordered, Keeps
  <2> QED
    BY <2>1, <2>3 DEF vars, IInv, Dated, Ordered, SavedInv
<1> QED
  BY <1>1, TicksIInv, ClockGoesBackIInv, TouchIInv, NoStoreIInv, LostScrapeIInv, SavesIInv,
     FailedSaveIInv, ExportsIInv DEF Next

--------------------------------------------------------------------------------
(* The theorems.                                                           *)

(* Every variable keeps its type, and update_seen_store keeps the store    *)
(* within its cap whatever is touched, fails or dies.                      *)
THEOREM TypeCorrect == Spec => []TypeOK
<1>1. IInv => TypeOK
  BY DEF IInv
<1> QED
  BY <1>1, InitIInv, NextIInv, PTL DEF Spec

(* What a scrape exports, the next one will still know, as long as no load *)
(* and no save has failed and the clock has not gone back.                 *)
THEOREM ExportedStaysKnown == Spec => []ExportedIsSaved
<1>1. IInv => ExportedIsSaved
  BY DEF IInv
<1> QED
  BY <1>1, InitIInv, NextIInv, PTL DEF Spec

(* The eviction of client_inventory.lua is by least recent sight: a client *)
(* loses its first-seen time only to MaxClients others seen since.         *)
THEOREM OnlyCrowdedOutForget == Spec => KnownUntilCrowdedOut
<1> DEFINE Step == intact' =>
             \A m \in DOMAIN saved :
               IF m \in DOMAIN saved' THEN saved'[m].first = saved[m].first
               ELSE Cardinality(others'[m]) >= MaxClients
<1>1. IInv /\ [Next]_vars => [Step]_vars
  <2> SUFFICES ASSUME IInv, Next, intact' PROVE Step
    OBVIOUS
  <2>1. CASE ScrapeSaves
    <3>1. /\ scrape.at = "touched" /\ intact
          /\ saved' = scrape.store /\ others' = Pending
      BY <2>1 DEF ScrapeSaves, Pending
    <3> QED
      BY <3>1 DEF IInv, TouchedInv, Keeps
  <2>2. CASE SaveFails \/ SaveCutShort
    BY <2>2 DEF SaveFails, SaveCutShort
  <2>3. CASE saved' = saved
    BY <2>3
  <2> QED
    BY <2>1, <2>2, <2>3
       DEF Next, Ticks, ClockGoesBack, ScrapeTouches, StoreNotOpened, StoreNotRead, Begins,
           ScrapeFails, ScrapeExports, Crashes
<1> QED
  BY <1>1, InitIInv, NextIInv, PTL DEF Spec, KnownUntilCrowdedOut

(* A save writes the first-seen times that were loaded, and leaves a       *)
(* record out only to make room; that holds of the store in memory as soon *)
(* as it is trimmed.                                                       *)
DurableInv ==
  scrape.at = "touched" /\ scrape.loaded =>
    \A m \in DOMAIN saved :
      IF m \in DOMAIN scrape.store THEN scrape.store[m].first = saved[m].first
      ELSE Cardinality(DOMAIN scrape.store) = MaxClients

LEMMA TouchDurable ==
  ASSUME TypeOK, NEW hosts \in SUBSET Macs, ScrapeTouches(hosts)
  PROVE  DurableInv'
<1> DEFINE touched == Touched(saved, Exported(hosts), clock)
<1>1. IsTouched(touched, saved, Exported(hosts), clock)
  BY ExportedIsCapped, TouchedShape, Zenon DEF TypeOK
<1>2. scrape'.store = Trimmed(touched) /\ saved' = saved
  BY DEF ScrapeTouches, Begins
<1> HIDE DEF touched
<1>3. /\ touched \in Stores
      /\ \A m \in DOMAIN saved : m \in DOMAIN touched /\ touched[m].first = saved[m].first
  BY <1>1 DEF IsTouched
<1>4. /\ DOMAIN Trimmed(touched) = DOMAIN touched \ Evicted(touched)
      /\ \A m \in DOMAIN Trimmed(touched) : Trimmed(touched)[m] = touched[m]
  BY <1>3, TrimmedIsCapped
<1>5. Evicted(touched) # {} => Cardinality(DOMAIN Trimmed(touched)) = MaxClients
  BY <1>3, TrimmedIsFull
<1>6. ASSUME NEW m \in DOMAIN saved
      PROVE  IF m \in DOMAIN Trimmed(touched) THEN Trimmed(touched)[m].first = saved[m].first
             ELSE Cardinality(DOMAIN Trimmed(touched)) = MaxClients
  <2>1. CASE m \in Evicted(touched)
    BY <1>4, <1>5, <2>1
  <2>2. CASE m \notin Evicted(touched)
    BY <1>3, <1>4, <1>6, <2>2
  <2> QED
    BY <2>1, <2>2
<1> QED
  BY <1>2, <1>6 DEF DurableInv

LEMMA Durable == Spec => []DurableInv
<1>1. Init => DurableInv
  BY DEF Init, Idle, DurableInv
<1>2. TypeOK /\ DurableInv /\ [Next]_vars => DurableInv'
  <2> SUFFICES ASSUME TypeOK, DurableInv, [Next]_vars PROVE DurableInv'
    OBVIOUS
  <2>1. ASSUME NEW hosts \in SUBSET Macs, ScrapeTouches(hosts) PROVE DurableInv'
    BY <2>1, TouchDurable
  <2>2. CASE ScrapeSaves \/ SaveFails \/ SaveCutShort
    <3>1. scrape'.at = "saved"
      BY <2>2 DEF ScrapeSaves, SaveFails, SaveCutShort, TypeOK
    <3> QED
      BY <3>1 DEF DurableInv
  <2>3. CASE ScrapeExports \/ Crashes
    BY <2>3 DEF ScrapeExports, Crashes, Idle, DurableInv
  <2>4. ASSUME NEW hosts \in SUBSET Macs, StoreNotOpened(hosts) \/ StoreNotRead(hosts)
        PROVE  DurableInv'
    <3>1. scrape'.loaded = FALSE
      BY <2>4 DEF StoreNotOpened, StoreNotRead, Begins
    <3> QED
      BY <3>1 DEF DurableInv
  <2>5. CASE UNCHANGED <<saved, scrape>>
    BY <2>5 DEF DurableInv
  <2> QED
    BY <2>1, <2>2, <2>3, <2>4, <2>5 DEF Next, Ticks, ClockGoesBack, ScrapeFails, vars
<1> QED
  BY <1>1, <1>2, TypeCorrect, PTL DEF Spec

(* Whatever else fails, dies or sets the clock back: update_seen_store     *)
(* never rewrites a first-seen time of a store that it could load, and     *)
(* drops a record only from a full one.                                    *)
THEOREM DurableRecords == Spec => RecordsAreDurable
<1> DEFINE Step == scrape.loaded =>
             \A m \in DOMAIN saved :
               IF m \in DOMAIN saved' THEN saved'[m].first = saved[m].first
               ELSE faults' # faults \/ Cardinality(DOMAIN saved') = MaxClients
<1>1. TypeOK /\ DurableInv /\ [Next]_vars => [Step]_vars
  <2> SUFFICES ASSUME TypeOK, DurableInv, Next PROVE Step
    OBVIOUS
  <2>1. CASE ScrapeSaves
    BY <2>1 DEF ScrapeSaves, DurableInv
  <2>2. CASE SaveCutShort
    <3>1. /\ scrape.at = "touched" /\ faults' # faults
          /\ \E fitted \in SUBSET DOMAIN scrape.store :
                saved' = [m \in fitted |-> scrape.store[m]]
      <4>1. Fault => faults' # faults
        <5>1. faults.crashes \in Nat
          BY ClientAssumption DEF TypeOK
        <5> QED
          BY <5>1 DEF Fault, TypeOK
      <4> QED
        BY <2>2, <4>1 DEF SaveCutShort
    <3> QED
      BY <3>1 DEF DurableInv
  <2>3. CASE saved' = saved
    BY <2>3
  <2> QED
    BY <2>1, <2>2, <2>3
       DEF Next, Ticks, ClockGoesBack, ScrapeTouches, StoreNotOpened, StoreNotRead, Begins,
           ScrapeFails, SaveFails, ScrapeExports, Crashes
<1> QED
  BY <1>1, TypeCorrect, Durable, PTL DEF Spec, RecordsAreDurable

(* As long as loads and saves succeed and the clock does not go back, no   *)
(* exposition announces a client anew that the one before has shown:       *)
(* "Unknown device joined" fires for it at most once.                      *)
THEOREM AnnouncedOnlyOnce == Spec => NotAnnouncedAgain
<1> DEFINE Step == intact' => \A m \in DOMAIN shown \cap DOMAIN shown' : shown'[m] = shown[m]
<1>1. IInv /\ [Next]_vars => [Step]_vars
  <2> SUFFICES ASSUME IInv, Next, intact', NEW m \in DOMAIN shown \cap DOMAIN shown'
               PROVE  shown'[m] = shown[m]
    OBVIOUS
  <2>1. CASE ScrapeExports
    <3>1. /\ scrape.at = "saved" /\ intact /\ m \in scrape.macs
          /\ shown' = [n \in scrape.macs |->
                         IF n \in DOMAIN scrape.store THEN scrape.store[n].first ELSE clock]
      BY <2>1 DEF ScrapeExports
    <3>2. scrape.store = saved /\ m \in DOMAIN saved
      BY <3>1 DEF IInv, SavedInv
    <3>3. saved[m].first = shown[m]
      BY <3>1 DEF IInv, ExportedIsSaved
    <3> QED
      BY <3>1, <3>2, <3>3
  <2>2. CASE ScrapeFails \/ Crashes
    BY <2>2, EmptyStore DEF ScrapeFails, Crashes
  <2>3. CASE shown' = shown
    BY <2>3
  <2> QED
    BY <2>1, <2>2, <2>3
       DEF Next, Ticks, ClockGoesBack, ScrapeTouches, StoreNotOpened, StoreNotRead, Begins,
           ScrapeSaves, SaveFails, SaveCutShort
<1> QED
  BY <1>1, InitIInv, NextIInv, PTL DEF Spec, NotAnnouncedAgain

================================================================================
