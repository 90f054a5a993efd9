# A verification development for openwrt-grafana-monitor

TLA+ models of the parts of this repository in which processes overlap, files
outlive the programs that write them, commands outlive their sessions, or several
routers contribute to one picture. TLC checks them on small instances; TLAPS proves the most important
results for every instance. Paths are relative to the repository.

## 1. The system

A router (OpenWrt) runs cron helpers and Lua collectors; a monitoring host
scrapes it every so often and draws dashboards.

```
 crond ──► helper scripts ──mv──► /var/prometheus/*.prom ─┐
 setup.sh ─┘ (openwrt/scripts)                            ├─► exporter ─► Alloy ─► Prometheus ─► Grafana
           Lua collectors (openwrt/collectors) ───────────┘                                   (dashboards, alerts)
 MCP sidecar ──ssh──► setup.sh, helpers                    syslog ─────► Alloy ─► Loki
```

| Component | State it keeps | Operations | What is hard | What makes it correct |
|---|---|---|---|---|
| Textfile helpers (`openwrt/scripts/*.sh`) | `.prom` file, staging and scratch files named by pid | one run per cron tick, one more from `setup.sh` | overlapping runs, `set -e` exits, kills, pid reuse, reboots | a scraper only ever sees whole, true snapshots; no litter stays; the display catches up |
| Association counter (`client-conntrack.sh` 203-270) | `/etc/openwrt-wifi-assoc-events` on flash, the log ring in memory | re-read ring, merge, save, publish | rereading the ring every minute, bounded cache, no lock, full flash | each line counted once; the counter is monotone |
| Conntrack counting (`client-conntrack.sh` 66-201) | none | count, cap | ambiguous addresses, the cap | counts are sums, the busiest are kept |
| Client inventory (`client_inventory.lua`) | `/etc/openwrt-client-seen` | load, touch, evict, save, export per scrape | the cap, crashes around the save, failed saves, the clock | a client keeps its first-seen time |
| Topology collector (`topology.lua`) | none; several boxes | role guess, nodes, edges | partial reads, guesses made by several boxes | every exposition is a graph; ids belong to one box |
| Topology dashboard (`build_openwrt_topology_dashboard.py`) | none; Prometheus' last samples | merge queries | expositions of different ages | no dangling edge, no colliding id, one place per client |
| Installer (`setup.sh`) | crontab, UCI configuration, installed files | idempotent installation by profile | `set -eu` in the middle, reruns with other profiles, concurrency with cron | a successful run leaves everything on display |
| Device traffic (`device_traffic.lua`, nftables sets) | sets in the kernel | name and print | names that collide, order of sets | one label per address |
| WAN information (`wan-info.sh`) | last public address | look up, compare, publish | a crash between record and publication | no change is lost |
| DPI, de-thrash and small collectors | none | read a file or an ubus object, print | staleness | a frozen source is not shown as healthy |
| Vendor lookup (`oui.lua`, `build_oui_table.py`) | generated table | search | table order | the longest prefix wins |
| SSH sidecar (`mcp_server`) | none of its own, files on the router | admit, check, run, stage, set up | time limits and lost sessions that leave the remote command running, overlapping staging, a repository that is pulled meanwhile | nothing is changed without confirmation; what is reported is final; what was staged is what is installed |
| Pipeline (`alloy/config.alloy`, `docker-compose.yml`) | generated targets | discover, relabel, forward | relabelling order | every series has its router |
| Alert rules (`openwrt-alerts.yaml`) | pending state in Grafana | evaluate | absent series | an alert says what it states |
| Dashboard generators (`scripts/build_*.py`) | two or three copies of each dashboard | build, validate, write each copy | a run cut short in a copy, Grafana polling meanwhile, some 400 panels over six profiles | copies are whole, valid and equal; every panel has a source; absence is not shown as health |
| Status and trust tiles (queries of the v2 dashboards) | Prometheus' last samples | aggregate over the selected routers | samples of different ages, failed reads and scrapes | an outage is seen; offload is noticed |
| NetFlow pipeline (`akvorado`, `softflowd.config`) | third-party | | | |

`PROJECT.json` lists each component with its status, and the hazards with the
lines where they bite and the properties that would show them.

## 2. The modules

### Publication of text files

* `SnapshotBoard` is the abstract promise to a scraper: for each helper there is
  at most one file, it is always a whole snapshot of what the helper's source was
  in some epoch up to now, it is posted in one step, and the installer or a reboot
  may take all files down.
* `HelperCatalog` records how each script stages, sweeps, traps and fails, one
  record per script. The differences matter: `dhcp_pool` stages in the scraped
  directory without trap or sweep, and `wan_quality` does not survive an outage.
* `TextfilePublish` is the life of a run: `Launch` (mkdir, sweep, trap),
  `OpenStage` (the `>` redirection), `Collect` (looks at its source, last line
  written), `Publish` (`mv`), `Finish` (exit trap or last `rm`), and the ways out:
  `CollectAborts` (the source is silent and `set -e` ends the script), `Abort` (any
  other command fails), `Kill` (no trap runs). crond does not start a line whose
  last run is going; `setup.sh` is a second launcher without such a check. It
  clears the directory, installs the cron lines, runs each helper and dies with the
  first that fails. `world` is the history of what the helpers look at; the
  content of a file is an epoch of it and whether the source answered. `unclean` is a
  history variable: how many runs of each helper died without removing their files
  since the last reboot (killed ones, and for a script without trap those that failed).
* `TextfilePublish_proofs` holds its theorems, `MCTextfilePublish` its instances.

### The association counter

`AssocEvents` models `emit_assoc_events` and the rename that ends the script:
`ReadWireless`, `ReadLog`, `MergeState` (the awk program), `SaveState`,
`PrintCounters` (which reads the state file again), `Publish`. A log line is a
number; equal lines have equal numbers (`RepeatsLine`). Of the sequence numbers in the
state file only the order matters, so `seen[f]` is the set of lines that stand behind line
`f`, and the awk program's renumbering is one expression over such sets (`Renumbered`):
`Newer` is the numbers given after the last one of `f`, superseded ones included, and a
line is `Remembered` while they are fewer than the cache. That superseded numbers take up
room is what `NoRecount` depends on. `MergeCutShort` is awk's output on a full flash, of
which `Truncations` are the beginnings, renamed all the same because `set -e` is off
inside the caller's `if`. `setup.sh` is a second launcher; its runs count as faults.
`AssocEvents_proofs` holds the theorems.

### The client inventory

`ClientInventory` models one scrape as load-touch-evict in memory
(`ScrapeTouches`), save (`ScrapeSaves`, or `SaveFails`, `SaveCutShort`) and export
(`ScrapeExports`), with a crash between any two. A store that cannot be opened is taken
for an empty one and saved over (`StoreNotOpened`); one whose reading raises an error is
left alone, and all clients are exported with the time of day (`StoreNotRead`). `others[m]`
is a history variable: who has been seen since `m` was. `intact` is another: every load and
save so far succeeded and the clock never went back.

### The topology graph

`TopologyMerge` is the reconciliation of `nodes_expr` and `edges_expr` on sets of
nodes and edges. `Topology` runs the collector on every box: `Findings(r)` is what a
run's reads may return, where the reads in one of the sets of `Failures` fail, the connection
to ubus among them; `Lists` is `assoc_by_mac` over the association lists that could be
read. `IsGateway` is the role that `collect` goes by: `detect_role`'s, or the gateway's when
nobody can be asked. `Nodes` and `Edges` are `add_node` and `add_edge`, `Exposition` is the
result of `collect`. Stations join and leave radios between the scrapes, and `Missed` is a
box that exports nothing. Three history variables say what an exposition is worth:
`posing`, the boxes without a WAN that took themselves for a gateway, `read`, the radios whose
lists went into it, and `settled`, those whose lists have not changed since.

### The SSH sidecar

`McpSidecar` follows tool calls through `server.py` and `core.py`. `Admitted` is the
middleware, `WellFormed` what the command builders accept, `Permitted` the order
builder, `require_confirm`, `resolve_router`. `openwrt_run_repo_setup` is
`StageStarts` (pack the payload, connect, send), `StageEnds`, `RunStarts`, `RunEnds`;
the other tools run one command. On the router, the staging command is `TarClears`,
`TarUnpacks` and `TarEnds`, and `setup.sh` copies the payload part by part
(`SetupInstalls`). They go on when their session is gone: `TimesOut`, `SessionLost` and
`Stops` change nothing on the router. `Pulls` moves the mounted repository on. `latest`
is a history variable, and `Settled(r)` says that the outcome of every setup of `r` is
known to the client that asked for it.

`Serial` is a fact about the SDK (mcp 1.28.1): a tool that is an ordinary function
is called on the event loop, so the server takes no call while another is under
way. Two of the theorems need it, and the mutant of `LastSetupIsInForce` shows what
happens without.

### The dashboards

* `PanelGrid` has what all generators share: a panel is an id, a rectangle, the
  sources its queries read, those among them that a product or a join needs
  (`Joining`), and what it shows without a result; `Overlap` and `Fits` are the tests of `validate_dashboard`, `Cells` is what they are checked against. `TileColours`
  holds the thresholds and mappings of tiles that have a default value.
* `OperationsPanels`, `MissionPanels`, `NetflowPanels`, `ProfilePanels` (topology,
  clients, advanced) and `ClassicPanels` list the panels that the generators add, tab by
  tab. A source is named after the collector or helper that exports the metrics, or
  the flow table or log stream a query reads.
* `DashboardBuild` is a run: `Begins` (build and validate; a draft that does not pass
  ends the run before anything is written), `Opens` (the old copy is decoded, then
  `write_text` truncates it), `Writes`. `CutShort` ends a run anywhere, `Edits` changes a
  generator, `Refreshes` is Grafana's poll. `Torn` is a copy that is not JSON, `Garbled`
  one that is not even UTF-8.
* `ProfileSources` is what each profile of `setup.sh` installs, and `DashboardView` puts the
  tables, the copies and the profiles together. A panel is `Starved` if a source that it
  needs is missing, or all of those of which any would do. The profile tiles of Advanced
  Monitoring multiply the collector's flag by a sample of the exporter, which is always
  there: they need both. `DashboardBuild_proofs` and
  `DashboardView_proofs` hold the theorems.

### Status and trust tiles

`StatusTiles` composes queries with what they are about: uplinks, offload options and
unreadable sources (`UplinkChanges`, `OffloadChanges`, `ReadChanges`), the WAN probe
(`ProbeRuns`, which dies without a gateway), the expositions (`OffloadSeries`,
`ReadSuccess`, `Traffic`, and of two collectors `Ends`, `FlagOf` and `SuccessOf`: does it get
to its end, which flag does it set, what does the exporter say of it), scrapes that succeed or fail (`Scraped`,
`Missed`) and the tiles, written with `Highest`, `Times`, `Or`, `Unless` as PromQL computes
them on values without labels: an absent value is the empty set. Two history variables:
`was`, the offload modes on when a router last answered, and `since`, for how many cron
periods its uplink has not been good.

`Slip...` operators next to a definition are faulty variants of it. No
specification uses them; they show which mistakes the properties catch.

## 3. What TLC checks

| Run | Instance | Shows |
|---|---|---|
| `MCTextfilePublish.cfg` | three helpers of the catalogue (one scheduled at a time), 2 pids, 3 epochs, 2 faults, one installation | `TypeOK`, `LiveStagingIntact`, `ClearingIsSafe`, `LeftoversArePaidFor`, `CronNeverGoesBack`, `TextfileDirHeals`, `EventuallyCurrent` and the refinement `ImplementsBoard` hold |
| `MCWanOutage.cfg` | `wan_quality` alone | `OutageIsShown` fails: the last success stays on display |
| `MCAssocEvents.cfg` | 2 interfaces, ring 2, cache 4, 3 events, 2 faults or runs of `setup.sh` | `SeenIsCounted`, `EventuallyCounted` hold also when runs overlap; `NoRecount`, `CounterNeverDecreases` as long as only cron has started runs |
| `MCClientInventory.cfg` | 3 clients, cap 2, a crash or a failed load or save, a clock that goes back | `RecordsAreDurable` holds for every scrape that loaded the store; `KnownUntilCrowdedOut`, `ExportedIsSaved`, `NotAnnouncedAgain` while loads and saves succeed and the clock goes on |
| `MCClientAlarm.cfg` | 2 clients, cap 2 | `AnnouncedOnce` fails after a failed load or save |
| `MCTopology.cfg` | gateway with two radios and access point with one, a client, the access point's and the modem's MAC | `TypeOK`, `NoDanglingEdge`, `NoCollidingNodes`, `ClientsAreWhereTheyAre`, `GuessesOnlyUnread` hold |
| `MCDualRadio.cfg` | the same | `NeverGuessesWired` fails: one of the gateway's two lists cannot be read |
| `MCMcpSidecar.cfg` | 2 calls, 1 router, 2 parts, 2 releases, a restart | `OnlyOnRequest`, `InstalledWasStaged`, `ToldMeansOver`, `PayloadIsOwn`, `LastSetupIsInForce`, `NeverDowngrades` hold, and `CallsEnd` if remote commands end |
| `MCMcpHang.cfg` | 1 call, nothing assumed of the router | `CallsEnd` fails: the staging loop has no limit |
| `MCDashboardView.cfg` | 4 generators over the real tables, an edit, a cut, installations of two pairs of profiles and of all | `BoardsAreSound`, `CopiesAgree`, `NothingBlankOnFull`, `MissingIsNotHealthy`, `ShownCatchesUp` hold |
| `MCStatusTiles.cfg` | 2 routers, 2 changes of the world, files old after 2 periods | `OffloadIsNoticed`, `CollectedIsCollected`, `GreenCoversAll`, `OutageIsVisible`, `OffloadSuppresses` hold |
| `MCTrafficGate.cfg` | the same, files old after 1 period | `TrafficIsTrusted` fails: the gate opens when the offload sample is absent |

The `TypeOK` of the sidecar, the dashboards and the tiles is left to the proofs (section 4).

The five failing runs are disagreements between the code and what a comment, a
document, a dashboard or an alert says of it; `PROJECT.json` quotes each under
"findings".

**Bounds.** `MaxEpoch`, `MaxFaults`, `MaxSetups`, `MaxEvents`, `MaxTime` and
`MaxClockBacks` cap counters that the code does not have; `Settings` and `Failures` choose
what a run's reads return. The three helpers differ in what matters: one reports a silent
source, one dies of it, one stages in the scraped directory without a trap. Two pids are enough for overlap
and reuse, three epochs for two snapshots to be old, two faults for a leftover to meet
a second failure. A ring of two lines with three events wraps; `3 * RingSize - 2` lines
are the least cache that `NoRecount` holds for (section 4), and 512 against a ring of more
than 171 hostapd lines loses lines (section 6). One client
more than the cap is what eviction needs. A gateway and one access point are all
roles there are; the theorems cover the rest. Every read fails alone in `Failures`, and the
pairs are those that together change the role or the name of a box (`wan` with `lan`, `route`
with `lan`); two radios on the gateway let one list fail and the other not. In `Settings` a
modem is absent, known and unknown, and the bridge names somebody or nobody. Two calls are a setup and a retry,
two parts let a staging or an installation stop half-way, two releases tell an old
part from a new one. The four generators of `MCDashboardView.cfg` cover three copies,
two copies, and a generator of several dashboards that does not validate; the proofs
cover the others. Two pairs of profiles, installed in any order before or after the full
set, leave each profile out at least once; the theorems are about any sets. The drafts are the
committed tables, a valid rearrangement, and one fault for each rule of the validators.
Two routers are a mixture of any two conditions, and a tile is an aggregate of
two values; with `Red = 2` a file can be new, older and old (the dashboard's 900 seconds are
15 periods, and an age is only compared with the limit and with other ages), and two changes
are an offload option and a failed read, or two options, or two outages.

**Fairness.** Only for what the router does by itself: crond keeps starting its
lines (`CronLaunches`, `Starts("cron")`) and a run that has started goes on
(`RunStep`). The shell executes one command after the other and every external
command has a limit or is a local call. Nothing obliges anybody to start
`setup.sh`, a fault to happen or a source to answer. For the sidecar `PatientSpec`
assumes that Docker restarts the server, that its event loop runs and that remote
commands end; `TimedSpec` replaces the last by the time limit of `SSHRunner.run`. For
the dashboards only Grafana's polling is fair (`updateIntervalSeconds: 30`), for the
tiles cron, the passing of time and scraping, which a failed scrape may follow at
any time. Deadlock checking is off where
bounded counters let the model run out of events.

**Assumptions about the outside.** busybox crond does not start a line whose last
run is alive; a signal that kills a shell runs no exit trap; `/tmp` and `/var` are
one tmpfs that a reboot empties; `/etc` survives; the exporter serves one scrape at
a time; a rename within a file system is atomic.
Generators run one at a time, as `README.md:277-283` and `tests/run_all.sh` call them. A
scrape that fails makes every series of the router stale at once. paramiko's
`recv_exit_status` gives -1 on a channel that was closed, which `SessionLost` covers;
whether it honours the time limit is up to the library, and `TimesOut` may
happen or not.

## 4. What is proved

`TextfilePublish_proofs`, for any helpers, disciplines, installs, pids and bounds
that satisfy the module's assumptions:

* `TypeCorrect`: `Spec => []TypeOK`.
* `StagingIsIntact`: `Spec => []LiveStagingIntact`. The inductive invariant adds to
  the property that live runs have pids and that no two of them share one; without
  it a sweep or a redirection of another run could touch the staging file. The
  assumption it rests on is `SweepAssumption`: no script sweeps where it stages.
* `Implementation`: `Spec => ImplementsBoard`. The invariant adds that every file on
  display is a snapshot of some epoch. `Publish` maps to `Post`, `SetupClears` and
  `Reboot` to `TakeDown`, `WorldChanges` to itself, and all other steps to stutters.
* `ClearedIsShownAgain`: `Spec => []ClearingIsSafe`. The invariant `SetupInv` says that a
  run the installer started is that of its next helper, that it is still the installer's
  turn, and that the helpers it has passed have a file on display; so no second clearing
  can fall between a publication and the end of its run.
* `TrapsCleanUp`: `Spec => []LeftoversArePaidFor`. Of any helper, with a
  trap or without, staging and scratch files stay behind only under the pids of runs that died
  without removing them, at most as many as there were since the last reboot. The invariants
  `PublishedIsGone` and `NoStrayScratch` say that a run which has renamed its staging file has
  none left, and that scratch files belong to scripts that remove them at the end; so what has
  no live owner was lost at such a death, and the rest counts finite sets.
* `CronShowsProgress`: `Spec => CronNeverGoesBack`. Without the installer a helper has one
  run at a time, so what a run has collected is no older than the file on display.

`AssocEvents_proofs`, for any interfaces, networks, sizes of the ring and the cache, and
bounds:

* `TypeCorrect` and `RememberedIsCounted`: `Spec => []SeenIsCounted`, also when runs of cron
  and `setup.sh` overlap at any step. The invariant `SharedInv` says of the state file, and
  of the draft in every run, that what it remembers is counted (`Sound`) and that its lines
  stand in an order (`Chain`); a ring of lines is `Steady`: each line is the one before it
  or the next one of the log. `MergeSound` and `CutSound` are the lemmas about the awk
  program and its truncations; that the cache is never exceeded follows from
  `RenumberedShape`, and that a line has a last number at all from `LastPosition`, the
  least element of a set of numbers.
* `CountsOnce`: `Spec => []NoRecount`, for `CacheSize >= 3 * RingSize - 2`. The property is not
  inductive: what matters is not what has been counted but what may still be. `CronInv` adds
  `Affordable`, that the count plus the lines that can still be read and are not remembered
  does not exceed the log, and `Compact`, that behind a line that can still be read there
  stand only lines less than a ring away from it. From the second, `WatchedKept` concludes
  that no such line is pushed out of the cache: up to `RingSize - 1` lines before it, as
  many after it, and these may be numbered twice. The bound is tight: with one line less,
  TLC finds a line that is counted twice (3 lines in the ring, 6 in the cache).
* `NeverDecreases`: `Spec => CounterNeverDecreases`, for any cache. The invariant `Ascending`
  orders the counters as they travel: shown, about to be shown, saved, about to be saved.

The last two are about runs that do not overlap: as soon as `setup.sh` has started one beside
cron's they say nothing, and TLC shows that both may then fail (section 6).

`ClientInventory_proofs`, for any finite set of clients and any cap and bounds:

* `TypeCorrect`: the store keeps to its cap whatever fails. It rests on the lemma
  `FewRanks`: in a chain few elements have a rank in a short interval.
* `ExportedStaysKnown`: `Spec => []ExportedIsSaved`, and `OnlyCrowdedOutForget`:
  `Spec => KnownUntilCrowdedOut`. The invariant says, while no load or save has failed and
  the clock has not gone back, that of two saved clients the one seen no later has the other
  among `others` (`Ordered`), that no record is younger than the clock (`Dated`), and the
  same of the store in memory as it will be once it is saved (`Pending`). The lemmas
  `EvictedIsCrowdedOut` and `TouchedIsKept` draw from it who may be evicted; the second
  needs that no more than the cap are exported (`ExportedIsCapped`).
* `DurableRecords`: `Spec => RecordsAreDurable`, whatever else fails and wherever the clock
  goes: no save of a store that was loaded changes a first-seen time on flash, and unless it is
  cut short it drops a record only from a full store. The invariant `DurableInv` says so of the store in memory, which has
  been merged and trimmed and is yet to be saved.
* `AnnouncedOnlyOnce`: `Spec => NotAnnouncedAgain`, while loads and saves succeed and the clock goes on:
  a client that one exposition shows has the same first-seen time in the next. It follows
  from the invariant of `OnlyCrowdedOutForget`.

`Topology_proofs`, for any routers, radios, MAC addresses and reads:

* `TypeCorrect`: every exposition is closed, has each id once and none of the
  box's own MAC addresses.
* `NoEdgeDangles`: `Spec => []NoDanglingEdge`, for every selection of routers and
  expositions of any age. The invariant `IInv` says of each exposition that it is
  closed, that no edge starts at a client, and that the infrastructure addresses
  are MAC addresses. The second part is what the queries silently rely on:
  `nodes_expr` hides clients, and `edges_expr` drops only the edges that end at one.
* `NoNodeCollides` and `ClientsFound`: `Spec => []NoCollidingNodes` and
  `Spec => []ClientsAreWhereTheyAre`, under `OneGateway`, the only assumption. Nothing is
  assumed of what can be read: a box that could not find out that it is no gateway is in
  `posing`, and the properties say what it may claim and what is then not promised (section 6).
  The invariant of the second, `Shows`, says of each box that its exposition is the one of
  some findings, which lists it rests on (`read`) and that those in `settled` are as they were.
* `StationsAreNotWired`: `Spec => []GuessesOnlyUnread`, for boxes with any number of radios:
  a station whose list was read is not linked like a wired host, whatever other lists,
  roles and routes could not be read. What the dashboard says of the others is the run
  `MCDualRadio.cfg`.

`McpSidecar_proofs`, for any calls, requests, inventory, token and bounds:

* `TypeCorrect` and `NothingUnasked`: `Spec => []OnlyOnRequest`, whether or not calls are
  serial. The invariant carries the permission of a call along: whoever stages or runs
  was admitted and permitted, and installed parts name such a call.
* `ToldCallsAreOver`: `Spec => []ToldMeansOver`. A remote command is at work only while
  its call waits for it or has become unknown.
* `SetupFindsItsPayload` and `LastSetupHolds`, under `Serial`: `Spec => []PayloadIsOwn` and
  `Spec => []LastSetupIsInForce`. The invariant says that on a settled router only the one
  active call has a remote command, that the payload is `snap` of the call that staged
  last wherever it has been unpacked, and that what `setup.sh` has installed so far is it.
* `OnlyPackedFiles`: `Spec => []InstalledWasStaged`, whether or not calls are serial: every
  part that is installed was in an archive somebody packed, however the stagings of two
  calls and a restart interleave. The invariant follows a part from the archive over
  the payload directory (`PackedInv`, `StagedInv`).
* `NothingOlder`, under `Serial`: `Spec => NeverDowngrades`. The invariant says that nothing on
  a router is ahead of the repository (`NotAhead`) and that nothing installed on a settled
  router is ahead of what the active call has packed (`PackedIsNewest`).

`DashboardBuild_proofs`, for any generators, copies, drafts and layouts:

* `TypeCorrect`.
* `PublishedIsSound`: `Spec => []BoardsAreSound`. The invariant is that every draft in a run,
  in a copy or on display passed its validator; the rest is the lemma `ValidIsSound`,
  that panels which pass `Fits` and `Overlap` share no cell and lie on the grid, for
  rectangles of any size.
* `PublishedCopiesAgree`: `Spec => []CopiesAgree`: when no run is under way and none was cut
  short, the copies are whole and equal. The invariant says of a run which copies it has
  passed and what they hold.

`DashboardView_proofs`, for any profiles installed and any history of edits, cuts and polls:

* `EveryPanelHasASource`: `Spec => []NothingBlankOnFull`, and `AbsenceIsNotHealth`:
  `Spec => []MissingIsNotHealthy`. Their substance are facts about the tables, put together
  panel by panel with lemmas for each dashboard: every panel finds what its queries need when all
  profiles are there; for each optional profile there is a tile on its dashboard that needs it
  and says "Not collected" without it; and no tile of Advanced Monitoring and NetFlow rests
  on a green default. On the other dashboards some do (section 6).

`StatusTiles_proofs`, for any set of routers and every selection of them:

* `TypeCorrect`, `OffloadNoticed`: `Spec => []OffloadIsNoticed`, and `CollectedMeansEnded`:
  `Spec => []CollectedIsCollected`. The invariant `SamplesAreHonest` ties the samples of one
  router to each other: a scrape that says that the configuration was read has a 1 for
  each mode that was on, and a collector whose flag and success are both 1 got to its end.
  The lemma `HighestFlag` lifts it to a selection: a maximum over flags is 1 exactly if one
  of them is.
* `GreenIsForAll`: `Spec => []GreenCoversAll`. The invariant `NotOlderThanSample` says that an
  uplink has not been down for longer than the age of the sample that shows it up; a
  green tile needs fresh samples of every selected router, hence bounds every outage.

## 5. Model-checked only

Liveness (`TextfileDirHeals`, `EventuallyCurrent`, `EventuallyCounted`, `CallsEnd`,
`ShownCatchesUp`, `OutageIsVisible`, `OffloadSuppresses`) rests on fairness and is out of
the prover's reach. Every safety property of the passing runs is stated by a theorem of
section 4.

## 6. Not modelled

Package installation, UCI configuration, nftables, softflowd and syslog in `setup.sh`
are one sequence of calls of third-party tools. The naming of devices, the DPI
collector, the readings of the de-thrash collector, the conntrack counting and the vendor lookup read something and
print it, and keep nothing. Target generation and relabelling are configuration of
Alloy. Prometheus, Grafana, Loki, Akvorado and ClickHouse are third-party; what the
dashboards rely on is modelled from how they are configured.

Within the modelled parts the following is left out: label formatting, vendor names,
icons, channels and signal colours of the topology, whose gateway has one switch
port; the text of the sidecar's commands, redaction and truncation of their output;
of the dashboards the text of queries and descriptions, units, variables, legends and
everything else within a panel, hence also the checks of the validators that are
about text, units and variable names. The JSON helpers of the generators (`panel`,
`stat`, `table` and so on) are only spelling.

Disagreements met on the way that have no run of their own:

* `dhcp-pool.sh:8` stages inside the scraped directory without trap or sweep.
  `docs/advanced-profiles.md:353-356` says "Never stage a temp file inside `/var/prometheus`",
  that the helpers stage under `/tmp` and that they clean up what earlier versions left; what a
  failed or killed run of this one leaves stays until a reboot. `TextfileDirHeals` therefore
  allows such a script one file per run that died, and every other script none.
* `client-conntrack.sh:264`: the lines of an interface that is missing from the wireless
  status for a run are renumbered out of the cache while they are still in the ring,
  and counted again when it returns (`CacheSize` below `3 * RingSize - 2`).
* `client-conntrack.sh:268`: the state file is replaced without a lock, so the counter may go
  back, and lines be counted again, when the installer's run overlaps cron's
  (`CounterNeverDecreases` and `NoRecount` without their condition on `used.setups`). What is
  left then is `SeenIsCounted` and `EventuallyCounted`.
* `topology.lua:236` and `425`: an access point that has no default route, or cannot get a ubus
  connection, takes itself for a gateway, and claims the internet and, from an old lease file,
  clients. The dashboard says that "a downstream AP never invents an uplink"
  (`build_openwrt_topology_dashboard.py:285`) and that colliding ids "must be zero" (304).
  `NoCollidingNodes` bounds what it may claim, `ClientsAreWhereTheyAre` excepts it.
* `README.md:222`, "dashboards display explicit unavailable states instead of plausible
  zeroes": a tile that ends in `or vector(0)` with a mapping or a threshold that paints 0 green is
  green over nothing where its profile is missing: `build_openwrt_clients_dashboard.py:194`, 195
  and 297 ("Accounting OK" on a router with the core alone), panels 8 and 201-203 of the
  topology dashboard, panel 704 of Mission Control. `MissingIsNotHealthy` asks for no green of the
  two dashboards that are about optional profiles only, and of all four for a tile that says
  "Not collected". `setup.sh:434` installs the mwan3 packages only where mwan3 is in use; `Sources`
  takes them for installed.
* "Green requires both the collector flag and a successful exporter scrape"
  (`build_openwrt_advanced_dashboard.py:97`), but the two maxima may be those of different
  routers; and the flag of `device_traffic.lua` is 1 with nothing exported when `nft` lists entries
  of an unknown shape (95, 114), not the set (51), or only one of the two sets (101). The mesh
  collector sets its flag before it has a ubus connection and gives up quietly without
  (`wifi_dethrash.lua:43`, 54). `CollectedIsCollected` is about what is left: errors.
* Network Status says "Green only when every selected router is being scraped AND its
  internet and resolver probes both succeed" (`build_openwrt_mission_control.py:977`), but a
  router that was rebooted without a gateway publishes no probe at all and leaves the
  minimum to the others; `OutageIsVisible` excepts it.
* Flow Data Complete reads "Incomplete (HW offload)" where no router sets the option
  (`build_openwrt_netflow_dashboard.py:1247`): the series is absent and the default is 0.
* `ALLOWED_PROFILES` (`mcp_server/core.py:21`) lacks `netflow`, which `setup.sh` accepts.
* `docs/kubernetes-monitoring-setup.md:710` speaks of a 48-panel NetFlow dashboard.
* `docs/advanced-profiles.md:354` says the textfile collector reads every file of its
  directory, `wan-quality.sh:14` that it globs `*.prom`; `wan-quality.sh:17` counts a reboot
  among what leaves partial files in a tmpfs; `fail_closed` of `client-conntrack.sh` is never
  called; the comment at the end of `topology.lua` says that every external read happens
  before any metric is written, while `bridge fdb` and the link states are read between.

## 7. Plan

1. Done: publication, association counter, client inventory, topology, SSH sidecar,
   dashboards, status tiles; proofs of every safety property.
2. `WanInfo` (the address history), `DeviceTraffic` (names over sets and scrapes),
   `ClientConntrack` and `OuiLookup` as operators against reference definitions.
