---------------------------- MODULE ClientInventory ----------------------------
(***************************************************************************)
(* The first-seen store of client_inventory.lua.  Each scrape touches the  *)
(* records of the clients it exports, drops the least recently seen ones   *)
(* beyond the cap and saves the rest to flash; the exported first_seen     *)
(* times feed the alert "Unknown device joined".  Clients are numbers, in  *)
(* the order in which the script sorts their MAC addresses.                *)
(***************************************************************************)
EXTENDS Naturals, FiniteSets

CONSTANTS
  Macs,          \* the clients
  MaxClients,    \* CLIENT_INVENTORY_MAX
  MaxTime,       \* bound: seconds on the clock
  MaxFaults,     \* bound: crashes, failed loads and failed saves
  MaxClockBacks  \* bound: backward steps of the clock

ASSUME ClientAssumption ==
  /\ Macs \subseteq Nat /\ IsFiniteSet(Macs)
  /\ MaxClients \in Nat \ {0}
  /\ {MaxTime, MaxFaults, MaxClockBacks} \subseteq Nat

VARIABLES
  clock,    \* os.time()
  ticked,   \* has the clock moved since the last scrape began?
  saved,    \* the store on flash: saved[m] = [first, last] for the macs it holds
  scrape,   \* the scrape in progress: its step, its clients, its store in memory,
            \* and whether that was loaded from flash
  shown,    \* the last exposition: first_seen by client, {} if not available
  others,   \* others[m]: clients touched since (and with) m's last touch
  intact,   \* the store was always loaded and saved, the clock has not gone back
  faults    \* how much of each bound is used up

vars == <<clock, ticked, saved, scrape, shown, others, intact, faults>>

Times == 0..MaxTime
Stores == UNION {[D -> [first : Times, last : Times]] : D \in SUBSET Macs}
Nothing == [m \in {} |-> 0]
Idle == [at |-> "idle", macs |-> {}, store |-> Nothing, loaded |-> TRUE]

TypeOK ==
  /\ clock \in Times /\ ticked \in BOOLEAN
  /\ saved \in Stores /\ Cardinality(DOMAIN saved) <= MaxClients
  /\ scrape \in [at : {"idle", "touched", "saved"}, macs : SUBSET Macs,
                 store : Stores, loaded : BOOLEAN]
  /\ DOMAIN shown \subseteq Macs /\ \A m \in DOMAIN shown : shown[m] \in Times
  /\ others \in [Macs -> SUBSET Macs]
  /\ intact \in BOOLEAN
  /\ faults \in [crashes : 0..MaxFaults, backs : 0..MaxClockBacks]

Init ==
  /\ clock = 0 /\ ticked = TRUE
  /\ saved = Nothing
  /\ scrape = Idle
  /\ shown = Nothing
  /\ others = [m \in Macs |-> {}]
  /\ intact = TRUE
  /\ faults = [crashes |-> 0, backs |-> 0]

Fault ==
  /\ faults.crashes < MaxFaults
  /\ faults' = [faults EXCEPT !.crashes = @ + 1]

--------------------------------------------------------------------------------
(* The world.                                                              *)

Ticks ==
  /\ clock < MaxTime
  /\ clock' = clock + 1
  /\ ticked' = TRUE
  /\ UNCHANGED <<saved, scrape, shown, others, intact, faults>>

(* NTP corrects a clock that was fast.                                     *)
ClockGoesBack ==
  /\ faults.backs < MaxClockBacks
  /\ faults' = [faults EXCEPT !.backs = @ + 1]
  /\ clock' \in 0..clock - 1
  /\ ticked' = TRUE
  /\ intact' = FALSE
  /\ UNCHANGED <<saved, scrape, shown, others>>

--------------------------------------------------------------------------------
(* A scrape.                                                               *)

(* All of them are exported, those without a record too.                   *)
SlipExportAll(S) == S

(* Of the sorted clients only the first MaxClients are exported.           *)
Exported(S) == {m \in S : Cardinality({n \in S : n < m}) < MaxClients}

Touched(store, macs, now) ==
  [m \in DOMAIN store \cup macs |->
     IF m \notin macs THEN store[m]
     ELSE [first |-> IF m \in DOMAIN store THEN store[m].first ELSE now,
           last  |-> now]]

Older(store, m, n) ==
  store[m].last < store[n].last \/ (store[m].last = store[n].last /\ m < n)

(* The record that became known first goes first.                          *)
SlipEvictFirstKnown(store) ==
  LET surplus == Cardinality(DOMAIN store) - MaxClients
  IN {m \in DOMAIN store :
        Cardinality({n \in DOMAIN store :
                       \/ store[n].first < store[m].first
                       \/ store[n].first = store[m].first /\ n < m}) < surplus}

(* One record too many is kept.                                            *)
SlipKeepOneMore(store) ==
  LET surplus == Cardinality(DOMAIN store) - MaxClients
  IN {m \in DOMAIN store :
        Cardinality({n \in DOMAIN store : Older(store, n, m)}) + 1 < surplus}

(* One record too few is kept.                                             *)
SlipKeepOneLess(store) ==
  {m \in DOMAIN store :
     MaxClients + Cardinality({n \in DOMAIN store : Older(store, n, m)})
       <= Cardinality(DOMAIN store)}

(* The count - max_entries records that lead the sorted list.              *)
Evicted(store) ==
  {m \in DOMAIN store :
     MaxClients + Cardinality({n \in DOMAIN store : Older(store, n, m)})
       < Cardinality(DOMAIN store)}

Trimmed(store) == [m \in DOMAIN store \ Evicted(store) |-> store[m]]

(* hosts is what getHostHints or else the lease file names.  The exporter  *)
(* serves one scrape at a time, and two are at least a second apart.       *)
Begins(hosts, at, store, loaded) ==
  /\ scrape.at = "idle"
  /\ ticked
  /\ ticked' = FALSE
  /\ scrape' = [at |-> at, macs |-> Exported(hosts), store |-> store, loaded |-> loaded]
  /\ UNCHANGED <<clock, saved, shown, others>>

ScrapeTouches(hosts) ==
  /\ Begins(hosts, "touched", Trimmed(Touched(saved, Exported(hosts), clock)), TRUE)
  /\ UNCHANGED <<intact, faults>>

(* io.open fails on the store that is there: an empty one is touched, and  *)
(* saved over it.                                                          *)
StoreNotOpened(hosts) ==
  /\ Begins(hosts, "touched", Trimmed(Touched(Nothing, Exported(hosts), clock)), FALSE)
  /\ Fault
  /\ intact' = FALSE

(* Reading the store raises an error: every client is exported with the    *)
(* time of day, and nothing is saved.                                      *)
StoreNotRead(hosts) ==
  /\ Begins(hosts, "saved", Touched(Nothing, Exported(hosts), clock), FALSE)
  /\ Fault
  /\ intact' = FALSE

(* Neither getHostHints nor the lease file can be read.                    *)
ScrapeFails ==
  /\ scrape.at = "idle"
  /\ Fault
  /\ shown' = Nothing
  /\ UNCHANGED <<clock, ticked, saved, scrape, others, intact>>

(* The touches count from when they are on flash.                          *)
ScrapeSaves ==
  /\ scrape.at = "touched"
  /\ saved' = scrape.store
  /\ scrape' = [scrape EXCEPT !.at = "saved"]
  /\ others' = [m \in Macs |-> IF m \in scrape.macs THEN scrape.macs \ {m}
                               ELSE others[m] \cup scrape.macs]
  /\ UNCHANGED <<clock, ticked, shown, intact, faults>>

(* io.open fails (a read-only /etc); the caller ignores save_seen_store's  *)
(* result.                                                                 *)
SaveFails ==
  /\ scrape.at = "touched"
  /\ Fault
  /\ intact' = FALSE
  /\ scrape' = [scrape EXCEPT !.at = "saved"]
  /\ UNCHANGED <<clock, ticked, saved, shown, others>>

(* file:write fails (a full /etc) and is ignored: what fitted replaces the *)
(* store.                                                                  *)
SaveCutShort ==
  /\ scrape.at = "touched"
  /\ Fault
  /\ intact' = FALSE
  /\ \E fitted \in SUBSET DOMAIN scrape.store :
        saved' = [m \in fitted |-> scrape.store[m]]
  /\ scrape' = [scrape EXCEPT !.at = "saved"]
  /\ UNCHANGED <<clock, ticked, shown, others>>

(* The exposition does not wait for the store.                             *)
SlipExportUnsaved ==
  /\ scrape.at # "idle"
  /\ shown' = [m \in scrape.macs |->
                 IF m \in DOMAIN scrape.store THEN scrape.store[m].first ELSE clock]
  /\ scrape' = Idle
  /\ UNCHANGED <<clock, ticked, saved, others, intact, faults>>

(* A client that has no record is exported with the time of day.           *)
ScrapeExports ==
  /\ scrape.at = "saved"
  /\ shown' = [m \in scrape.macs |->
                 IF m \in DOMAIN scrape.store THEN scrape.store[m].first ELSE clock]
  /\ scrape' = Idle
  /\ UNCHANGED <<clock, ticked, saved, others, intact, faults>>

(* The exporter or the router dies; what is left of the store's staging    *)
(* file is never looked at again.                                          *)
Crashes ==
  /\ scrape.at # "idle"
  /\ Fault
  /\ scrape' = Idle
  /\ shown' = Nothing
  /\ UNCHANGED <<clock, ticked, saved, others, intact>>

Next ==
  \/ Ticks \/ ClockGoesBack
  \/ \E hosts \in SUBSET Macs :
        ScrapeTouches(hosts) \/ StoreNotOpened(hosts) \/ StoreNotRead(hosts)
  \/ ScrapeFails
  \/ ScrapeSaves \/ SaveFails \/ SaveCutShort
  \/ ScrapeExports
  \/ Crashes

Spec == Init /\ [][Next]_vars

--------------------------------------------------------------------------------
(* Properties.                                                             *)

(* docs/advanced-profiles.md:208-209, "least-recently-seen eviction": a    *)
(* client keeps its first-seen time until MaxClients others have been seen *)
(* since it was last seen itself, whatever crashes in between; so no       *)
(* client that is there all the time is ever announced again.              *)
KnownUntilCrowdedOut ==
  [][intact' =>
       \A m \in DOMAIN saved :
         IF m \in DOMAIN saved' THEN saved'[m].first = saved[m].first
         ELSE Cardinality(others'[m]) >= MaxClients]_vars

(* What a scrape exports, the next one will still know: no first-seen time *)
(* is exported that is not on flash by then.                               *)
ExportedIsSaved ==
  intact => \A m \in DOMAIN shown :
              (scrape.at = "idle" \/ m \in scrape.macs) =>
                m \in DOMAIN saved /\ saved[m].first = shown[m]

(* Whatever else fails and however the clock is set, a scrape that could   *)
(* load the store never rewrites a first-seen time on flash; and unless    *)
(* its save is cut short, a record goes only when the store is full        *)
(* (docs/advanced-profiles.md:208, "capped").                              *)
RecordsAreDurable ==
  [][scrape.loaded =>
       \A m \in DOMAIN saved :
         IF m \in DOMAIN saved' THEN saved'[m].first = saved[m].first
         ELSE faults' # faults \/ Cardinality(DOMAIN saved') = MaxClients]_vars

(* As long as loads and saves succeed and the clock does not go back, a    *)
(* client that two expositions in a row show has the same first-seen time  *)
(* in both, however many others come, are evicted or not exported.         *)
NotAnnouncedAgain ==
  [][intact' => \A m \in DOMAIN shown \cap DOMAIN shown' : shown'[m] = shown[m]]_vars

(* openwrt-alerts.yaml:48, "A client not seen before joined the network in *)
(* the last 5 minutes": a client that one exposition shows does not get a  *)
(* newer first-seen time in the next.                                      *)
AnnouncedOnce ==
  [][\A m \in DOMAIN shown \cap DOMAIN shown' : shown'[m] = shown[m]]_vars

================================================================================
