----------------------------- MODULE McpSidecar -----------------------------
(***************************************************************************)
(* The SSH sidecar (mcp_server): what a tool call has to pass before a     *)
(* command reaches a router, the two remote commands of                    *)
(* openwrt_run_repo_setup (staging the payload, running setup.sh on it),   *)
(* and what becomes of a remote command whose session is gone.             *)
(*                                                                         *)
(* A payload is a function from Parts (the files setup.sh installs) to the *)
(* release of the repository they come from.  The order in which tar       *)
(* unpacks the parts and setup.sh installs them is left open.              *)
(***************************************************************************)
EXTENDS Naturals, FiniteSets, Sequences

CONSTANTS Calls,        \* tool calls, each used once
          Inventory,    \* OPENWRT_MCP_ROUTERS as a sequence of [name, host, port]
          Hosts,        \* host names that validate_host accepts
          Requests,     \* what clients may ask for
          Token,        \* OPENWRT_MCP_TOKEN
          AllowedHosts, AllowedOrigins,
          Insecure,     \* OPENWRT_MCP_INSECURE_HOST_KEYS
          Serial,       \* the SDK runs one (synchronous) tool function at a time
          Parts,
          MaxRelease,   \* bound: releases of the repository
          MaxStops      \* bound: restarts of the server

NoRequest == [tool |-> "none"]
NoCall == "no call"
Missing == 0
NoOrigin == "no origin"
Releases == 1 .. MaxRelease

ASSUME RequestAssumption == NoRequest \notin Requests
ASSUME CallAssumption == NoCall \notin Calls
ASSUME BoundAssumption == MaxRelease \in Nat \ {0} /\ MaxStops \in Nat
ASSUME FlagAssumption == Insecure \in BOOLEAN /\ Serial \in BOOLEAN

-----------------------------------------------------------------------------
(* Policy: core.py *)

AllowedProfiles == {"core", "clients", "traffic", "wifi_mesh", "dpi", "full"}
Diagnostics == {"routes", "interfaces", "wifi", "dhcp", "firewall_counters", "collector_success",
                "conntrack_sources", "disk", "inode_sources", "processes"}
RestartTargets == {"exporter", "log", "cron", "all"}

ValidPort(port) == port \in 1 .. 65535
ValidProto(proto) == proto \in {"udp", "tcp"}
ValidProfile(profile) ==
    LET named == {profile[i] : i \in DOMAIN profile}
    IN  /\ named # {}
        /\ named \subseteq AllowedProfiles
        /\ "full" \in named => Len(profile) = 1

ValidInventory ==
    /\ Inventory # <<>>
    /\ \A i \in DOMAIN Inventory : Inventory[i].host \in Hosts /\ ValidPort(Inventory[i].port)
    /\ \A i, j \in DOMAIN Inventory : Inventory[i].name = Inventory[j].name => i = j

ValidSettings == Token \notin {"", "change-me-openwrt-mcp-token"} /\ ValidInventory

Routers == {Inventory[i].name : i \in DOMAIN Inventory}

(* What the builders of core.py accept; anything else is a PolicyError. *)
WellFormed(q) ==
    CASE q.tool = "metrics_sample"     -> q.lines \in 1 .. 500
      [] q.tool = "diagnostic"         -> q.diagnostic \in Diagnostics
      [] q.tool = "restart_monitoring" -> q.target \in RestartTargets
      [] q.tool = "configure_syslog"   -> q.host \in Hosts /\ ValidPort(q.port) /\ ValidProto(q.proto)
      [] q.tool = "run_repo_setup"     -> /\ q.host \in Hosts /\ ValidPort(q.port) /\ ValidProto(q.proto)
                                          /\ ValidProfile(q.profile)
      [] OTHER -> TRUE

Mutating(q) == q.tool \in {"send_test_log", "restart_monitoring", "configure_syslog", "run_repo_setup"}

(* SecurityMiddleware; /healthz never becomes a call. *)
Admitted(q) ==
    /\ AllowedHosts # {} => q.hostHeader \in AllowedHosts
    /\ q.origin # NoOrigin => q.origin \in AllowedOrigins
    /\ q.token = Token

SlipForgetConfirm(q) == WellFormed(q) /\ q.router \in Routers

(* Builder first, then require_confirm, then resolve_router. *)
Permitted(q) ==
    /\ WellFormed(q)
    /\ Mutating(q) => q.confirm
    /\ q.router \in Routers

-----------------------------------------------------------------------------
VARIABLES
    (* the server *)
    up,         \* the process runs
    pc,         \* where each call is
    request,    \* what it asks for
    answer,     \* what the client was told
    release,    \* the release in the mounted openwrt/ directory
    snap,       \* per call: the release packed by _build_openwrt_tar
    (* the routers *)
    genuine,    \* who answers at a router's address has the key of known_hosts
    tar,        \* per call: "rm -rf /tmp/openwrt && tar -x -C /tmp"
    unpacked,   \* per call: the parts tar has written
    cmd,        \* per call: the tool's own command
    done,       \* per call: the parts setup.sh has installed
    payload,    \* per router: /tmp/openwrt
    installed,  \* per router and part: release and call it was installed by
    (* bookkeeping *)
    stops,
    latest      \* history, per router: the call that started setup.sh last

server == <<up, pc, request, answer, release, snap>>
remote == <<tar, unpacked, cmd, done, payload, installed>>
vars == <<server, genuine, remote, stops, latest>>

Nowhere == [p \in Parts |-> Missing]
Virgin == [p \in Parts |-> [release |-> Missing, by |-> NoCall]]

Waiting == {"staging", "running"}
Active(c) == pc[c] \notin {"idle", "answered"}
IsSetup(c) == request[c] # NoRequest /\ request[c].tool = "run_repo_setup"
On(c, r) == request[c] # NoRequest /\ request[c].router = r

(* The client does not know how the remote command ended. *)
Unknown(c) == answer[c] \in {"timed out", "lost"}
Settled(r) == \A c \in Calls : IsSetup(c) /\ On(c, r) => ~Unknown(c)

Init ==
    /\ up = FALSE
    /\ pc = [c \in Calls |-> "idle"]
    /\ request = [c \in Calls |-> NoRequest]
    /\ answer = [c \in Calls |-> "none"]
    /\ release = 1
    /\ snap = [c \in Calls |-> Missing]
    /\ genuine \in [Routers -> BOOLEAN]
    /\ tar = [c \in Calls |-> "none"]
    /\ unpacked = [c \in Calls |-> {}]
    /\ cmd = [c \in Calls |-> "none"]
    /\ done = [c \in Calls |-> {}]
    /\ payload = [r \in Routers |-> Nowhere]
    /\ installed = [r \in Routers |-> Virgin]
    /\ stops = 0
    /\ latest = [r \in Routers |-> NoCall]

-----------------------------------------------------------------------------
(* The server's side of a call *)

Answer(c, what) ==
    /\ pc' = [pc EXCEPT ![c] = "answered"]
    /\ answer' = [answer EXCEPT ![c] = what]

Starts ==
    /\ ~up /\ ValidSettings
    /\ up' = TRUE
    /\ UNCHANGED <<pc, request, answer, release, snap, genuine, remote, stops, latest>>

SlipReceiveAtAnyTime(c, q) ==
    /\ up /\ pc[c] = "idle"
    /\ pc' = [pc EXCEPT ![c] = "received"]
    /\ request' = [request EXCEPT ![c] = q]
    /\ UNCHANGED <<up, answer, release, snap, genuine, remote, stops, latest>>

Receives(c, q) ==
    /\ up /\ pc[c] = "idle"
    /\ Serial => \A d \in Calls : ~Active(d)
    /\ pc' = [pc EXCEPT ![c] = "received"]
    /\ request' = [request EXCEPT ![c] = q]
    /\ UNCHANGED <<up, answer, release, snap, genuine, remote, stops, latest>>

Denies(c) ==
    /\ pc[c] = "received" /\ ~Admitted(request[c])
    /\ Answer(c, "denied")
    /\ UNCHANGED <<up, request, release, snap, genuine, remote, stops, latest>>

Lists(c) ==
    /\ pc[c] = "received" /\ Admitted(request[c]) /\ request[c].tool = "list_routers"
    /\ Answer(c, "ok")
    /\ UNCHANGED <<up, request, release, snap, genuine, remote, stops, latest>>

Accepted(c) ==
    /\ pc[c] = "received" /\ Admitted(request[c])
    /\ request[c].tool # "list_routers"
    /\ Permitted(request[c])

Refuses(c) ==
    /\ pc[c] = "received" /\ Admitted(request[c])
    /\ request[c].tool # "list_routers"
    /\ ~Permitted(request[c])
    /\ Answer(c, "refused")
    /\ UNCHANGED <<up, request, release, snap, genuine, remote, stops, latest>>

(* _connect: RejectPolicy takes only keys of known_hosts, AutoAddPolicy any. *)
Trusted(c) == Insecure \/ genuine[request[c].router]

ReadyToConnect(c) ==
    \/ Accepted(c)
    \/ pc[c] = "staged"

(* A key that is not pinned, an unreachable host, a failed login: the tool raises. *)
ConnectFails(c) ==
    /\ ReadyToConnect(c)
    /\ Answer(c, "failed")
    /\ UNCHANGED <<up, request, release, snap, genuine, remote, stops, latest>>

(* stage_openwrt_payload: pack the directory as it is now, connect, send. *)
StageStarts(c) ==
    /\ Accepted(c) /\ IsSetup(c) /\ Trusted(c)
    /\ snap' = [snap EXCEPT ![c] = release]
    /\ tar' = [tar EXCEPT ![c] = "started"]
    /\ pc' = [pc EXCEPT ![c] = "staging"]
    /\ UNCHANGED <<up, request, answer, release, genuine, unpacked, cmd, done, payload, installed,
                   stops, latest>>

SlipIgnoreStageResult(c) ==
    /\ pc[c] = "staging" /\ tar[c] \in {"ok", "bad"}
    /\ pc' = [pc EXCEPT ![c] = "staged"]
    /\ UNCHANGED <<up, request, answer, release, snap, genuine, remote, stops, latest>>

SlipWaitForSuccess(c) ==
    /\ pc[c] = "staging" /\ tar[c] = "ok"
    /\ pc' = [pc EXCEPT ![c] = "staged"]
    /\ UNCHANGED <<up, request, answer, release, snap, genuine, remote, stops, latest>>

(* The loop that waits for exit_status_ready; it has no time limit. *)
StageEnds(c) ==
    /\ pc[c] = "staging"
    /\ \/ /\ tar[c] = "ok"
          /\ pc' = [pc EXCEPT ![c] = "staged"]
          /\ UNCHANGED answer
       \/ /\ tar[c] = "bad"
          /\ Answer(c, "failed")
    /\ UNCHANGED <<up, request, release, snap, genuine, remote, stops, latest>>

(* SSHRunner.run: setup.sh after its staging, any other command at once. *)
RunStarts(c) ==
    /\ IF IsSetup(c) THEN pc[c] = "staged" ELSE Accepted(c)
    /\ Trusted(c)
    /\ cmd' = [cmd EXCEPT ![c] = "running"]
    /\ pc' = [pc EXCEPT ![c] = "running"]
    /\ latest' = IF IsSetup(c) THEN [latest EXCEPT ![request[c].router] = c] ELSE latest
    /\ UNCHANGED <<up, request, answer, release, snap, genuine, tar, unpacked, done, payload, installed,
                   stops>>

SlipReadBeforeExit(c) ==
    /\ pc[c] = "running" /\ cmd[c] \in {"running", "ok"}
    /\ Answer(c, "ok")
    /\ UNCHANGED <<up, request, release, snap, genuine, remote, stops, latest>>

RunEnds(c) ==
    /\ pc[c] = "running"
    /\ \/ cmd[c] = "ok" /\ Answer(c, "ok")
       \/ cmd[c] = "bad" /\ Answer(c, "failed")
    /\ UNCHANGED <<up, request, release, snap, genuine, remote, stops, latest>>

(* exit_code 124: the session is closed, the remote command is not told. *)
TimesOut(c) ==
    /\ pc[c] = "running"
    /\ Answer(c, "timed out")
    /\ UNCHANGED <<up, request, release, snap, genuine, remote, stops, latest>>

(* A closed channel has exit status -1; sendall and read may raise as well. *)
SessionLost(c) ==
    /\ pc[c] \in Waiting
    /\ Answer(c, "lost")
    /\ UNCHANGED <<up, request, release, snap, genuine, remote, stops, latest>>

(* The container is restarted; its clients see their calls fail. *)
Stops ==
    /\ up /\ stops < MaxStops
    /\ up' = FALSE
    /\ stops' = stops + 1
    /\ pc' = [c \in Calls |-> IF Active(c) THEN "answered" ELSE pc[c]]
    /\ answer' = [c \in Calls |-> IF Active(c) THEN "lost" ELSE answer[c]]
    /\ UNCHANGED <<request, release, snap, genuine, remote, latest>>

-----------------------------------------------------------------------------
(* The router's side *)

TarClears(c) ==
    /\ tar[c] = "started"
    /\ tar' = [tar EXCEPT ![c] = "cleared"]
    /\ payload' = [payload EXCEPT ![request[c].router] = Nowhere]
    /\ UNCHANGED <<server, genuine, unpacked, cmd, done, installed, stops, latest>>

SlipStreamDirectory(c, p) ==
    /\ tar[c] = "cleared" /\ p \notin unpacked[c]
    /\ payload' = [payload EXCEPT ![request[c].router][p] = release]
    /\ unpacked' = [unpacked EXCEPT ![c] = @ \cup {p}]
    /\ UNCHANGED <<server, genuine, tar, cmd, done, installed, stops, latest>>

TarUnpacks(c, p) ==
    /\ tar[c] = "cleared" /\ p \notin unpacked[c]
    /\ payload' = [payload EXCEPT ![request[c].router][p] = snap[c]]
    /\ unpacked' = [unpacked EXCEPT ![c] = @ \cup {p}]
    /\ UNCHANGED <<server, genuine, tar, cmd, done, installed, stops, latest>>

TarEnds(c) ==
    /\ \/ tar[c] = "cleared" /\ unpacked[c] = Parts /\ tar' = [tar EXCEPT ![c] = "ok"]
       \/ tar[c] \in {"started", "cleared"} /\ tar' = [tar EXCEPT ![c] = "bad"]
    /\ UNCHANGED <<server, genuine, unpacked, cmd, done, payload, installed, stops, latest>>

(* setup.sh copies a part out of /tmp/openwrt. *)
SetupInstalls(c, p) ==
    LET r == request[c].router
    IN  /\ IsSetup(c) /\ cmd[c] = "running" /\ p \notin done[c]
        /\ payload[r][p] # Missing
        /\ installed' = [installed EXCEPT ![r][p] = [release |-> payload[r][p], by |-> c]]
        /\ done' = [done EXCEPT ![c] = @ \cup {p}]
        /\ UNCHANGED <<server, genuine, tar, unpacked, cmd, payload, stops, latest>>

(* set -eu: a part that is not there, or any other failure, ends setup.sh. *)
CommandEnds(c) ==
    /\ cmd[c] = "running"
    /\ \/ (IsSetup(c) => done[c] = Parts) /\ cmd' = [cmd EXCEPT ![c] = "ok"]
       \/ cmd' = [cmd EXCEPT ![c] = "bad"]
    /\ UNCHANGED <<server, genuine, tar, unpacked, done, payload, installed, stops, latest>>

(* git pull on the monitoring host; openwrt/ is a bind mount. *)
Pulls(n) ==
    /\ release < MaxRelease /\ n = release + 1
    /\ release' = n
    /\ UNCHANGED <<up, pc, request, answer, snap, genuine, remote, stops, latest>>

(* A router is reinstalled and has a new key, or the operator pins it. *)
KeyChanges(r) ==
    /\ genuine' = [genuine EXCEPT ![r] = ~@]
    /\ UNCHANGED <<server, remote, stops, latest>>

-----------------------------------------------------------------------------
ServerStep(c) ==
    \/ Denies(c) \/ Lists(c) \/ Refuses(c) \/ ConnectFails(c)
    \/ StageStarts(c) \/ StageEnds(c) \/ RunStarts(c) \/ RunEnds(c)

RemoteStep(c) ==
    \/ TarClears(c) \/ TarEnds(c) \/ CommandEnds(c)
    \/ \E p \in Parts : TarUnpacks(c, p) \/ SetupInstalls(c, p)

Next ==
    \/ Starts \/ Stops
    \/ \E c \in Calls : \/ \E q \in Requests : Receives(c, q)
                        \/ ServerStep(c) \/ TimesOut(c) \/ SessionLost(c) \/ RemoteStep(c)
    \/ \E n \in Releases : Pulls(n)
    \/ \E r \in Routers : KeyChanges(r)

Spec == Init /\ [][Next]_vars

(* The server's event loop runs and Docker restarts it. *)
ServerFairness == WF_vars(Starts) /\ \A c \in Calls : WF_vars(ServerStep(c))

(* Routers on which every command comes to an end. *)
PatientSpec == Spec /\ ServerFairness /\ \A c \in Calls : WF_vars(RemoteStep(c))

(* Nothing is known of the routers, but a run that takes too long times out. *)
TimedSpec == Spec /\ ServerFairness /\ \A c \in Calls : WF_vars(TimesOut(c))

-----------------------------------------------------------------------------
(* Properties *)

TypeOK ==
    /\ up \in BOOLEAN
    /\ pc \in [Calls -> {"idle", "received", "staging", "staged", "running", "answered"}]
    /\ request \in [Calls -> Requests \cup {NoRequest}]
    /\ answer \in [Calls -> {"none", "denied", "refused", "failed", "timed out", "lost", "ok"}]
    /\ release \in Releases /\ snap \in [Calls -> Releases \cup {Missing}]
    /\ genuine \in [Routers -> BOOLEAN]
    /\ tar \in [Calls -> {"none", "started", "cleared", "ok", "bad"}]
    /\ unpacked \in [Calls -> SUBSET Parts] /\ done \in [Calls -> SUBSET Parts]
    /\ cmd \in [Calls -> {"none", "running", "ok", "bad"}]
    /\ payload \in [Routers -> [Parts -> Releases \cup {Missing}]]
    /\ installed \in [Routers -> [Parts -> [release : Releases \cup {Missing}, by : Calls \cup {NoCall}]]]
    /\ stops \in 0 .. MaxStops
    /\ latest \in [Routers -> Calls \cup {NoCall}]

(* Whatever setup.sh put on a router was asked for, for this router, by an *)
(* authenticated client that confirmed it, with a profile the policy knows *)
(* (docs/repository-map.md:86).                                            *)
OnlyOnRequest ==
    \A r \in Routers, p \in Parts :
        LET c == installed[r][p].by
        IN  c # NoCall => /\ IsSetup(c) /\ On(c, r)
                          /\ Admitted(request[c]) /\ request[c].confirm
                          /\ ValidProfile(request[c].profile)

(* Whatever overlaps, times out or is retried: each file that setup.sh put *)
(* on a router is one that such a call packed for this router, as the      *)
(* directory was at that moment (_build_openwrt_tar packs it in memory,    *)
(* mcp_server/server.py:179).                                              *)
InstalledWasStaged ==
    \A r \in Routers, p \in Parts :
        installed[r][p].by # NoCall =>
            \E c \in Calls : /\ IsSetup(c) /\ On(c, r)
                             /\ Admitted(request[c]) /\ request[c].confirm
                             /\ snap[c] # Missing /\ installed[r][p].release = snap[c]

(* A client that was told how its call ended may rely on it: no command of *)
(* the call is still at work on the router (SSHRunner.run waits for the    *)
(* exit status, run_repo_setup for the staging).                           *)
ToldMeansOver ==
    \A c \in Calls : answer[c] \in {"denied", "refused", "failed", "ok"} =>
        tar[c] \notin {"started", "cleared"} /\ cmd[c] # "running"

(* As long as every setup of a router ended with a known outcome, setup.sh *)
(* finds the whole payload that was staged for it and nothing else.        *)
PayloadIsOwn ==
    \A c \in Calls, r \in Routers :
        IsSetup(c) /\ On(c, r) /\ pc[c] \in {"staged", "running"} /\ Settled(r) =>
            payload[r] = [p \in Parts |-> snap[c]]

(* ... and the setup that ran last, if reported ok, is what is installed:  *)
(* no part of it is missing, older, or overwritten by an earlier one.      *)
LastSetupIsInForce ==
    \A c \in Calls, r \in Routers :
        latest[r] = c /\ answer[c] = "ok" /\ Settled(r) =>
            installed[r] = [p \in Parts |-> [release |-> snap[c], by |-> c]]

(* ... and no part of it goes back to an earlier release than it had.      *)
NeverDowngrades ==
    [][\A r \in Routers, p \in Parts :
          Settled(r)' => installed'[r][p].release >= installed[r][p].release]_vars

(* Every call is answered (docs/mcp-ssh.md:65 gives openwrt_run_repo_setup *)
(* a time limit).                                                          *)
CallsEnd == \A c \in Calls : pc[c] = "received" ~> pc[c] = "answered"
=============================================================================
