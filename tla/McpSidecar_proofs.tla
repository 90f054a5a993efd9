-------------------------- MODULE McpSidecar_proofs --------------------------
(***************************************************************************)
(* Proofs about McpSidecar, for any calls, routers, requests, payload and  *)
(* bounds; the last two theorems for a server that runs one tool at a time.*)
(***************************************************************************)
EXTENDS McpSidecar, TLAPS

USE DEF NoCall, Missing, vars, server, remote

-----------------------------------------------------------------------------
(* What holds of each call by itself: which remote commands it has started *)
(* and how far they are at each place of its program, and that it passed   *)
(* the policy before it started any.                                       *)

Wanted(c) == request[c] \in Requests /\ Admitted(request[c]) /\ Permitted(request[c])

Known == {"denied", "refused", "failed", "ok"}

CallInv(c) ==
    /\ pc[c] = "idle" <=> request[c] = NoRequest
    /\ pc[c] = "answered" <=> answer[c] # "none"
    /\ pc[c] \in {"idle", "received"} => tar[c] = "none" /\ cmd[c] = "none"
    /\ pc[c] = "staging" => tar[c] # "none" /\ cmd[c] = "none"
    /\ pc[c] = "staged" => tar[c] = "ok" /\ cmd[c] = "none"
    /\ pc[c] = "running" => cmd[c] # "none" /\ tar[c] \in {"none", "ok"}
    /\ answer[c] \in Known => tar[c] \in {"none", "ok", "bad"} /\ cmd[c] # "running"
    /\ tar[c] # "none" \/ cmd[c] # "none" => Wanted(c)
    /\ tar[c] # "none" => IsSetup(c)
    /\ IsSetup(c) /\ cmd[c] # "none" => tar[c] = "ok"

PartsInv(c) ==
    /\ tar[c] \in {"none", "started"} => unpacked[c] = {}
    /\ tar[c] = "ok" => unpacked[c] = Parts
    /\ cmd[c] = "none" => done[c] = {}
    /\ IsSetup(c) /\ cmd[c] = "ok" => done[c] = Parts
    /\ IsSetup(c) /\ answer[c] = "ok" => cmd[c] = "ok"

(* Whoever installed something is a setup on that router.                  *)
InstallerInv ==
    \A r \in Routers, p \in Parts, c \in Calls :
        installed[r][p].by = c => IsSetup(c) /\ On(c, r) /\ cmd[c] # "none"

BasicInv == TypeOK /\ (\A c \in Calls : CallInv(c) /\ PartsInv(c)) /\ InstallerInv

-----------------------------------------------------------------------------
LEMMA InitBasic == Init => BasicInv
<1> SUFFICES ASSUME Init PROVE BasicInv
  OBVIOUS
<1>1. TypeOK
  <2>1. 1 \in Releases /\ 0 \in 0 .. MaxStops
    BY BoundAssumption DEF Releases
  <2>2. /\ installed \in [Routers -> [Parts -> [release : Releases \cup {Missing}, by : Calls \cup {NoCall}]]]
        /\ payload \in [Routers -> [Parts -> Releases \cup {Missing}]]
    BY DEF Init, Nowhere, Virgin
  <2>3. up \in BOOLEAN /\ genuine \in [Routers -> BOOLEAN]
    BY DEF Init
  <2>4. /\ pc \in [Calls -> {"idle", "received", "staging", "staged", "running", "answered"}]
        /\ answer \in [Calls -> {"none", "denied", "refused", "failed", "timed out", "lost", "ok"}]
        /\ tar \in [Calls -> {"none", "started", "cleared", "ok", "bad"}]
        /\ cmd \in [Calls -> {"none", "running", "ok", "bad"}]
    BY DEF Init
  <2>5. /\ unpacked \in [Calls -> SUBSET Parts] /\ done \in [Calls -> SUBSET Parts]
        /\ request \in [Calls -> Requests \cup {NoRequest}]
        /\ latest \in [Routers -> Calls \cup {NoCall}]
        /\ snap \in [Calls -> Releases \cup {Missing}]
    BY DEF Init
  <2> QED
    BY <2>1, <2>2, <2>3, <2>4, <2>5 DEF Init, TypeOK
<1>2. ASSUME NEW c \in Calls PROVE CallInv(c) /\ PartsInv(c)
  BY DEF Init, CallInv, PartsInv, Known, IsSetup, NoRequest
<1>3. InstallerInv
  BY CallAssumption DEF Init, InstallerInv, Virgin
<1> QED
  BY <1>1, <1>2, <1>3 DEF BasicInv

LEMMA TypeStep == BasicInv /\ [Next]_vars => TypeOK'
<1> SUFFICES ASSUME BasicInv, [Next]_vars PROVE TypeOK'
  OBVIOUS
<1> USE DEF TypeOK
<1>0. TypeOK /\ \A c \in Calls : CallInv(c)
  BY DEF BasicInv
<1>1. CASE Starts
  BY <1>0, <1>1 DEF Starts
<1>2. CASE Stops
  <2>1. stops' \in 0 .. MaxStops
    <3>1. stops \in 0 .. MaxStops /\ stops < MaxStops /\ stops' = stops + 1
      BY <1>0, <1>2 DEF Stops
    <3> HIDE DEF TypeOK
    <3> QED
      BY <3>1, BoundAssumption
  <2>2. /\ pc' \in [Calls -> {"idle", "received", "staging", "staged", "running", "answered"}]
        /\ answer' \in [Calls -> {"none", "denied", "refused", "failed", "timed out", "lost", "ok"}]
    BY <1>0, <1>2 DEF Stops, Active
  <2> QED
    BY <1>0, <1>2, <2>1, <2>2 DEF Stops
<1>3. ASSUME NEW c \in Calls, NEW q \in Requests, Receives(c, q) PROVE TypeOK'
  BY <1>0, <1>3 DEF Receives
<1>4. ASSUME NEW c \in Calls, Denies(c) \/ Lists(c) \/ Refuses(c) \/ ConnectFails(c) PROVE TypeOK'
  <2>1. /\ \E what \in {"denied", "ok", "refused", "failed"} : Answer(c, what)
        /\ UNCHANGED <<up, request, release, snap, genuine, remote, stops, latest>>
    BY <1>4 DEF Denies, Lists, Refuses, ConnectFails
  <2>2. pc' \in [Calls -> {"idle", "received", "staging", "staged", "running", "answered"}]
    BY <1>0, <2>1 DEF Answer
  <2>3. answer' \in [Calls -> {"none", "denied", "refused", "failed", "timed out", "lost", "ok"}]
    BY <1>0, <2>1 DEF Answer
  <2> QED
    BY <1>0, <2>1, <2>2, <2>3
<1>5. ASSUME NEW c \in Calls, StageStarts(c) PROVE TypeOK'
  BY <1>0, <1>5 DEF StageStarts
<1>6. ASSUME NEW c \in Calls, StageEnds(c) PROVE TypeOK'
  <2>1. /\ pc' \in [Calls -> {"idle", "received", "staging", "staged", "running", "answered"}]
        /\ answer' \in [Calls -> {"none", "denied", "refused", "failed", "timed out", "lost", "ok"}]
    BY <1>0, <1>6 DEF StageEnds, Answer
  <2> QED
    BY <1>0, <1>6, <2>1 DEF StageEnds
<1>7. ASSUME NEW c \in Calls, RunStarts(c) PROVE TypeOK'
  BY <1>0, <1>7 DEF RunStarts
<1>8. ASSUME NEW c \in Calls, RunEnds(c) \/ TimesOut(c) \/ SessionLost(c) PROVE TypeOK'
  BY <1>0, <1>8 DEF RunEnds, TimesOut, SessionLost, Answer
<1>9. ASSUME NEW c \in Calls, TarClears(c) PROVE TypeOK'
  BY <1>0, <1>9 DEF TarClears, Nowhere
<1>10. ASSUME NEW c \in Calls, NEW p \in Parts, TarUnpacks(c, p) PROVE TypeOK'
  BY <1>0, <1>10 DEF TarUnpacks
<1>11. ASSUME NEW c \in Calls, TarEnds(c) \/ CommandEnds(c) PROVE TypeOK'
  BY <1>0, <1>11 DEF TarEnds, CommandEnds
<1>12. ASSUME NEW c \in Calls, NEW p \in Parts, SetupInstalls(c, p) PROVE TypeOK'
  <2>1. installed' \in [Routers -> [Parts -> [release : Releases \cup {Missing}, by : Calls \cup {NoCall}]]]
    <3>1. ASSUME request[c].router \in Routers
          PROVE  payload[request[c].router][p] \in Releases \cup {Missing}
      <4>1. payload \in [Routers -> [Parts -> Releases \cup {Missing}]]
        BY <1>0
      <4> HIDE DEF TypeOK
      <4> QED
        BY <3>1, <4>1
    <3> QED
      BY <1>0, <1>12, <3>1 DEF SetupInstalls
  <2> QED
    BY <1>0, <1>12, <2>1 DEF SetupInstalls
<1>13. ASSUME NEW n \in Releases, Pulls(n) PROVE TypeOK'
  BY <1>0, <1>13 DEF Pulls
<1>14. ASSUME NEW r \in Routers, KeyChanges(r) PROVE TypeOK'
  BY <1>0, <1>14 DEF KeyChanges
<1>15. CASE UNCHANGED vars
  BY <1>0, <1>15
<1> QED
  BY <1>1, <1>2, <1>3, <1>4, <1>5, <1>6, <1>7, <1>8, <1>9, <1>10, <1>11, <1>12, <1>13, <1>14, <1>15
     DEF Next, ServerStep, RemoteStep

-----------------------------------------------------------------------------
(* A step of one call leaves the invariants of the others alone.           *)

LEMMA CallStep ==
    BasicInv /\ [Next]_vars => \A c \in Calls : CallInv(c)' /\ PartsInv(c)'
<1> SUFFICES ASSUME BasicInv, [Next]_vars, NEW c \in Calls PROVE CallInv(c)' /\ PartsInv(c)'
  OBVIOUS
<1>0. CallInv(c) /\ PartsInv(c)
  BY DEF BasicInv
<1>t. /\ pc \in [Calls -> {"idle", "received", "staging", "staged", "running", "answered"}]
      /\ request \in [Calls -> Requests \cup {NoRequest}]
      /\ answer \in [Calls -> {"none", "denied", "refused", "failed", "timed out", "lost", "ok"}]
      /\ tar \in [Calls -> {"none", "started", "cleared", "ok", "bad"}]
      /\ unpacked \in [Calls -> SUBSET Parts] /\ done \in [Calls -> SUBSET Parts]
      /\ cmd \in [Calls -> {"none", "running", "ok", "bad"}]
  BY DEF BasicInv, TypeOK
<1>same. ASSUME /\ pc'[c] = pc[c] /\ request'[c] = request[c] /\ answer'[c] = answer[c]
                /\ tar'[c] = tar[c] /\ unpacked'[c] = unpacked[c]
                /\ cmd'[c] = cmd[c] /\ done'[c] = done[c]
         PROVE  CallInv(c)' /\ PartsInv(c)'
  BY <1>0, <1>same DEF CallInv, PartsInv, Wanted, IsSetup
<1> USE <1>0, RequestAssumption
<1>1. CASE Starts
  BY <1>1, <1>same DEF Starts
<1>2. CASE Stops
  BY <1>2, <1>t DEF Stops, Active, CallInv, PartsInv, Wanted, IsSetup, Known
<1>3. ASSUME NEW d \in Calls, NEW q \in Requests, Receives(d, q) PROVE CallInv(c)' /\ PartsInv(c)'
  <2>1. CASE c # d
    BY <1>3, <1>t, <1>same, <2>1 DEF Receives
  <2>2. CASE c = d
    BY <1>3, <1>t, <2>2 DEF Receives, CallInv, PartsInv, Wanted, IsSetup, Known
  <2> QED
    BY <2>1, <2>2
<1>4. ASSUME NEW d \in Calls, Denies(d) \/ Lists(d) \/ Refuses(d) PROVE CallInv(c)' /\ PartsInv(c)'
  <2>1. \E what \in {"denied", "ok", "refused"} : Answer(d, what)
    BY <1>4 DEF Denies, Lists, Refuses
  <2>2. /\ pc[d] = "received" /\ UNCHANGED <<request, remote>>
        /\ answer'[d] = "ok" => ~IsSetup(d)
    BY <1>4, <1>t DEF Denies, Lists, Refuses, Answer, IsSetup
  <2>3. CASE c # d
    BY <2>1, <2>2, <1>t, <1>same, <2>3 DEF Answer
  <2>4. CASE c = d
    <3>1. pc'[c] = "answered" /\ answer'[c] \in {"denied", "ok", "refused"}
      BY <2>1, <2>4, <1>t DEF Answer
    <3> QED
      BY <2>2, <2>4, <3>1 DEF CallInv, PartsInv, Wanted, IsSetup, Known
  <2> QED
    BY <2>3, <2>4
<1>5. ASSUME NEW d \in Calls, ConnectFails(d) PROVE CallInv(c)' /\ PartsInv(c)'
  <2>1. CASE c # d
    BY <1>5, <1>t, <1>same, <2>1 DEF ConnectFails, Answer, ReadyToConnect, Accepted
  <2>2. CASE c = d
    BY <1>5, <1>t, <2>2 DEF ConnectFails, Answer, ReadyToConnect, Accepted, CallInv, PartsInv, Wanted, IsSetup, Known
  <2> QED
    BY <2>1, <2>2
<1>6. ASSUME NEW d \in Calls, StageStarts(d) PROVE CallInv(c)' /\ PartsInv(c)'
  <2>1. CASE c # d
    BY <1>6, <1>t, <1>same, <2>1 DEF StageStarts, Accepted
  <2>2. CASE c = d
    BY <1>6, <1>t, <2>2 DEF StageStarts, Accepted, CallInv, PartsInv, Wanted, IsSetup, Known
  <2> QED
    BY <2>1, <2>2
<1>7. ASSUME NEW d \in Calls, StageEnds(d) PROVE CallInv(c)' /\ PartsInv(c)'
  <2>1. CASE c # d
    BY <1>7, <1>t, <1>same, <2>1 DEF StageEnds, Answer
  <2>2. CASE c = d
    BY <1>7, <1>t, <2>2 DEF StageEnds, Answer, CallInv, PartsInv, Wanted, IsSetup, Known
  <2> QED
    BY <2>1, <2>2
<1>8. ASSUME NEW d \in Calls, RunStarts(d) PROVE CallInv(c)' /\ PartsInv(c)'
  <2>1. CASE c # d
    BY <1>8, <1>t, <1>same, <2>1 DEF RunStarts, Accepted
  <2>2. CASE c = d
    BY <1>8, <1>t, <2>2 DEF RunStarts, Accepted, CallInv, PartsInv, Wanted, IsSetup, Known
  <2> QED
    BY <2>1, <2>2
<1>9. ASSUME NEW d \in Calls, RunEnds(d) PROVE CallInv(c)' /\ PartsInv(c)'
  <2>1. CASE c # d
    BY <1>9, <1>t, <1>same, <2>1 DEF RunEnds, Answer
  <2>2. CASE c = d
    BY <1>9, <1>t, <2>2 DEF RunEnds, Answer, CallInv, PartsInv, Wanted, IsSetup, Known
  <2> QED
    BY <2>1, <2>2
<1>10. ASSUME NEW d \in Calls, TimesOut(d) \/ SessionLost(d) PROVE CallInv(c)' /\ PartsInv(c)'
  <2>1. \E how \in {"timed out", "lost"} : Answer(d, how)
    BY <1>10 DEF TimesOut, SessionLost
  <2>2. pc[d] \in Waiting /\ UNCHANGED <<request, remote>>
    BY <1>10 DEF TimesOut, SessionLost, Waiting
  <2>3. CASE c # d
    BY <2>1, <2>2, <1>t, <1>same, <2>3 DEF Answer
  <2>4. CASE c = d
    BY <2>1, <2>2, <1>t, <2>4 DEF Answer, Waiting, CallInv, PartsInv, Wanted, IsSetup, Known
  <2> QED
    BY <2>3, <2>4
<1>11. ASSUME NEW d \in Calls, TarClears(d) PROVE CallInv(c)' /\ PartsInv(c)'
  <2>1. CASE c # d
    BY <1>11, <1>t, <1>same, <2>1 DEF TarClears
  <2>2. CASE c = d
    BY <1>11, <1>t, <2>2 DEF TarClears, CallInv, PartsInv, Wanted, IsSetup, Known
  <2> QED
    BY <2>1, <2>2
<1>12. ASSUME NEW d \in Calls, NEW p \in Parts, TarUnpacks(d, p) PROVE CallInv(c)' /\ PartsInv(c)'
  <2>1. CASE c # d
    BY <1>12, <1>t, <1>same, <2>1 DEF TarUnpacks
  <2>2. CASE c = d
    BY <1>12, <1>t, <2>2 DEF TarUnpacks, CallInv, PartsInv, Wanted, IsSetup, Known
  <2> QED
    BY <2>1, <2>2
<1>13. ASSUME NEW d \in Calls, TarEnds(d) PROVE CallInv(c)' /\ PartsInv(c)'
  <2>1. CASE c # d
    BY <1>13, <1>t, <1>same, <2>1 DEF TarEnds
  <2>2. CASE c = d
    BY <1>13, <1>t, <2>2 DEF TarEnds, CallInv, PartsInv, Wanted, IsSetup, Known
  <2> QED
    BY <2>1, <2>2
<1>14. ASSUME NEW d \in Calls, NEW p \in Parts, SetupInstalls(d, p) PROVE CallInv(c)' /\ PartsInv(c)'
  <2>1. CASE c # d
    BY <1>14, <1>t, <1>same, <2>1 DEF SetupInstalls
  <2>2. CASE c = d
    BY <1>14, <1>t, <2>2 DEF SetupInstalls, CallInv, PartsInv, Wanted, IsSetup, Known
  <2> QED
    BY <2>1, <2>2
<1>15. ASSUME NEW d \in Calls, CommandEnds(d) PROVE CallInv(c)' /\ PartsInv(c)'
  <2>1. CASE c # d
    BY <1>15, <1>t, <1>same, <2>1 DEF CommandEnds
  <2>2. CASE c = d
    BY <1>15, <1>t, <2>2 DEF CommandEnds, CallInv, PartsInv, Wanted, IsSetup, Known
  <2> QED
    BY <2>1, <2>2
<1>16. CASE (\E n \in Releases : Pulls(n)) \/ (\E r \in Routers : KeyChanges(r)) \/ UNCHANGED vars
  BY <1>16, <1>same DEF Pulls, KeyChanges
<1> QED
  BY <1>1, <1>2, <1>3, <1>4, <1>5, <1>6, <1>7, <1>8, <1>9, <1>10, <1>11, <1>12, <1>13, <1>14, <1>15,
     <1>16 DEF Next, ServerStep, RemoteStep

LEMMA InstallerStep == BasicInv /\ [Next]_vars => InstallerInv'
<1> SUFFICES ASSUME BasicInv, [Next]_vars PROVE InstallerInv'
  OBVIOUS
<1>0. TypeOK /\ InstallerInv /\ \A c \in Calls : CallInv(c)
  BY DEF BasicInv
<1> SUFFICES ASSUME NEW r \in Routers, NEW p \in Parts, NEW c \in Calls, installed'[r][p].by = c
             PROVE  IsSetup(c)' /\ On(c, r)' /\ cmd'[c] # "none"
  BY DEF InstallerInv
<1> DEFINE Goal == IsSetup(c)' /\ On(c, r)' /\ cmd'[c] # "none"
<1>c. ASSUME installed'[r][p] = installed[r][p]
      PROVE  IsSetup(c) /\ On(c, r) /\ cmd[c] # "none" /\ pc[c] # "idle"
  <2>1. IsSetup(c) /\ On(c, r) /\ cmd[c] # "none"
    BY <1>0, <1>c DEF InstallerInv
  <2> QED
    BY <1>0, <2>1 DEF CallInv, IsSetup, NoRequest
<1>1. CASE installed' = installed /\ request' = request /\ cmd' = cmd
  BY <1>1, <1>c DEF IsSetup, On
<1>2. ASSUME NEW d \in Calls, NEW q \in Requests, Receives(d, q) PROVE Goal
  BY <1>0, <1>2, <1>c DEF Receives, IsSetup, On, TypeOK
<1>3. ASSUME NEW d \in Calls, RunStarts(d) \/ CommandEnds(d) PROVE Goal
  <2>1. installed' = installed /\ request' = request
    BY <1>3 DEF RunStarts, CommandEnds
  <2>2. cmd[c] # "none" => cmd'[c] # "none"
    <3>1. cmd \in [Calls -> {"none", "running", "ok", "bad"}]
      BY <1>0 DEF TypeOK
    <3>2. \E x \in {"running", "ok", "bad"} : cmd' = [cmd EXCEPT ![d] = x]
      BY <1>3 DEF RunStarts, CommandEnds
    <3> QED
      BY <3>1, <3>2
  <2> QED
    BY <1>c, <2>1, <2>2 DEF IsSetup, On
<1>4. ASSUME NEW d \in Calls, NEW x \in Parts, SetupInstalls(d, x) PROVE Goal
  <2>1. CASE r = request[d].router /\ p = x
    <3>1. c = d
      BY <1>0, <1>4, <2>1 DEF SetupInstalls, TypeOK
    <3> QED
      BY <1>4, <2>1, <3>1 DEF SetupInstalls, IsSetup, On
  <2>2. CASE ~(r = request[d].router /\ p = x)
    <3>1. installed'[r][p] = installed[r][p]
      <4>1. installed \in [Routers -> [Parts -> [release : Releases \cup {Missing}, by : Calls \cup {NoCall}]]]
        BY <1>0 DEF TypeOK
      <4>2. \E new : installed' = [installed EXCEPT ![request[d].router][x] = new]
        BY <1>4 DEF SetupInstalls
      <4> QED
        <5>1. CASE r = request[d].router
          BY <2>2, <4>1, <4>2, <5>1
        <5>2. CASE r # request[d].router
          BY <4>1, <4>2, <5>2
        <5> QED
          BY <5>1, <5>2
    <3> QED
      BY <1>4, <1>c, <3>1 DEF SetupInstalls, IsSetup, On
  <2> QED
    BY <2>1, <2>2
<1> HIDE DEF Goal
<1> QED
  BY <1>1, <1>2, <1>3, <1>4
     DEF Next, ServerStep, RemoteStep, Starts, Stops, Denies, Lists, Refuses, ConnectFails, StageStarts,
         StageEnds, RunEnds, TimesOut, SessionLost, TarClears, TarUnpacks, TarEnds, Pulls, KeyChanges,
         Goal

LEMMA BasicStep == BasicInv /\ [Next]_vars => BasicInv'
  BY TypeStep, CallStep, InstallerStep DEF BasicInv

LEMMA Basic == Spec => []BasicInv
  BY InitBasic, BasicStep, PTL DEF Spec

-----------------------------------------------------------------------------
(* The variables keep their types, whatever clients, routers and the       *)
(* operator do.                                                            *)
THEOREM TypeCorrect == Spec => []TypeOK
<1>1. BasicInv => TypeOK
  BY DEF BasicInv
<1> QED
  BY Basic, <1>1, PTL

(* What is on a router was asked for, for this router, by an authenticated *)
(* client that confirmed it: SecurityMiddleware, the builders and          *)
(* require_confirm stand before every connection.                          *)
THEOREM NothingUnasked == Spec => []OnlyOnRequest
<1>1. BasicInv => OnlyOnRequest
  <2> SUFFICES ASSUME BasicInv, NEW r \in Routers, NEW p \in Parts, installed[r][p].by # NoCall
               PROVE  LET c == installed[r][p].by
                      IN  /\ IsSetup(c) /\ On(c, r)
                          /\ Admitted(request[c]) /\ request[c].confirm
                          /\ ValidProfile(request[c].profile)
    BY DEF OnlyOnRequest
  <2> DEFINE c == installed[r][p].by
  <2>1. c \in Calls
    <3>0. installed \in [Routers -> [Parts -> [release : Releases \cup {Missing}, by : Calls \cup {NoCall}]]]
      BY DEF BasicInv, TypeOK
    <3>1. installed[r][p] \in [release : Releases \cup {Missing}, by : Calls \cup {NoCall}]
      BY <3>0
    <3>2. installed[r][p].by \in Calls \cup {NoCall}
      BY <3>1
    <3> QED
      BY <3>2
  <2>0. IsSetup(c) /\ On(c, r) /\ cmd[c] # "none"
    BY <2>1 DEF BasicInv, InstallerInv
  <2>2. IsSetup(c) /\ On(c, r) /\ Wanted(c)
    BY <2>0, <2>1 DEF BasicInv, CallInv
  <2>3. request[c].confirm /\ ValidProfile(request[c].profile)
    BY <2>2 DEF Wanted, Permitted, Mutating, WellFormed, IsSetup
  <2> QED
    BY <2>2, <2>3 DEF Wanted
<1> QED
  BY Basic, <1>1, PTL

(* A client that was told how its call ended leaves nothing at work.       *)
THEOREM ToldCallsAreOver == Spec => []ToldMeansOver
<1>1. BasicInv => ToldMeansOver
  BY DEF BasicInv, CallInv, ToldMeansOver, Known
<1> QED
  BY Basic, <1>1, PTL

-----------------------------------------------------------------------------
(* Where the files of a payload come from: every one was packed by a call  *)
(* that passed the policy, whoever cleared, unpacked or installed it.      *)

PackedFor(c, r, n) == tar[c] # "none" /\ On(c, r) /\ snap[c] = n

StagedInv ==
    \A r \in Routers, p \in Parts :
        /\ payload[r][p] # Missing => \E c \in Calls : PackedFor(c, r, payload[r][p])
        /\ installed[r][p].by # NoCall =>
               installed[r][p].release # Missing /\ \E c \in Calls : PackedFor(c, r, installed[r][p].release)

PackedInv == \A c \in Calls : tar[c] # "none" => snap[c] # Missing

(* What a call packed does not change any more.                            *)
LEMMA PackedStays ==
    ASSUME BasicInv, [Next]_vars, NEW c \in Calls, tar[c] # "none"
    PROVE  tar'[c] # "none" /\ request'[c] = request[c] /\ snap'[c] = snap[c]
<1>0. TypeOK /\ CallInv(c)
  BY DEF BasicInv
<1>1. pc[c] \notin {"idle", "received"}
  BY <1>0 DEF CallInv
<1> DEFINE Kept == tar'[c] # "none" /\ request'[c] = request[c] /\ snap'[c] = snap[c]
<1>2. ASSUME NEW d \in Calls, NEW q \in Requests, Receives(d, q) PROVE Kept
  BY <1>0, <1>1, <1>2 DEF Receives, TypeOK
<1>3. ASSUME NEW d \in Calls, StageStarts(d) PROVE Kept
  BY <1>0, <1>1, <1>3 DEF StageStarts, Accepted, TypeOK
<1>4. ASSUME NEW d \in Calls, TarClears(d) \/ TarEnds(d) PROVE Kept
  BY <1>0, <1>4 DEF TarClears, TarEnds, TypeOK
<1>5. CASE UNCHANGED <<tar, request, snap>>
  BY <1>5
<1> HIDE DEF Kept
<1> QED
  BY <1>2, <1>3, <1>4, <1>5
     DEF Kept, Next, ServerStep, RemoteStep, Starts, Stops, Denies, Lists, Refuses, ConnectFails, StageEnds, RunStarts,
         RunEnds, TimesOut, SessionLost, TarUnpacks, SetupInstalls, CommandEnds, Pulls, KeyChanges

LEMMA AnsweredStays ==
    ASSUME BasicInv, [Next]_vars, NEW c \in Calls, pc[c] = "answered"
    PROVE  pc'[c] = "answered"
<1>0. TypeOK
  BY DEF BasicInv
<1>1. ASSUME NEW d \in Calls, NEW q \in Requests, Receives(d, q) PROVE pc'[c] = "answered"
  BY <1>0, <1>1 DEF Receives, TypeOK
<1>2. CASE Stops
  BY <1>0, <1>2 DEF Stops, TypeOK
<1>3. ASSUME NEW d \in Calls, ServerStep(d) \/ TimesOut(d) \/ SessionLost(d) PROVE pc'[c] = "answered"
  BY <1>0, <1>3 DEF ServerStep, Denies, Lists, Refuses, ConnectFails, ReadyToConnect, Accepted, StageStarts, StageEnds,
        RunStarts, RunEnds, TimesOut, SessionLost, Waiting, Answer, TypeOK
<1>4. CASE UNCHANGED pc
  BY <1>4
<1> QED
  BY <1>1, <1>2, <1>3, <1>4
     DEF Next, Starts, Pulls, KeyChanges, RemoteStep, TarClears, TarUnpacks, TarEnds, SetupInstalls, CommandEnds

LEMMA PackedStep == ASSUME BasicInv, PackedInv, [Next]_vars PROVE PackedInv'
<1> SUFFICES ASSUME NEW c \in Calls, tar'[c] # "none" PROVE snap'[c] # Missing
  BY DEF PackedInv
<1>0. TypeOK
  BY DEF BasicInv
<1>1. CASE tar[c] # "none"
  BY <1>1, PackedStays DEF PackedInv
<1>2. CASE tar[c] = "none"
  <2>1. ASSUME NEW d \in Calls, StageStarts(d) PROVE snap'[c] # Missing
    <3>0. release \in 1 .. MaxRelease /\ MaxRelease \in Nat
      BY <1>0, BoundAssumption DEF TypeOK, Releases
    <3>1. release # Missing
      BY <3>0
    <3>2. c = d
      BY <1>0, <1>2, <2>1 DEF StageStarts, TypeOK
    <3> QED
      BY <1>0, <2>1, <3>1, <3>2 DEF StageStarts, TypeOK
  <2>2. ASSUME NEW d \in Calls, TarClears(d) \/ TarEnds(d) PROVE FALSE
    BY <1>0, <1>2, <2>2 DEF TarClears, TarEnds, TypeOK
  <2> QED
    BY <1>2, <2>1, <2>2
       DEF Next, ServerStep, RemoteStep, Starts, Stops, Receives, Denies, Lists, Refuses, ConnectFails, StageEnds,
           RunStarts, RunEnds, TimesOut, SessionLost, TarUnpacks, SetupInstalls, CommandEnds, Pulls, KeyChanges
<1> QED
  BY <1>1, <1>2

(* What one step does to one file of one payload, and to one installed.    *)
FileChange(r, p) ==
    /\ \/ payload'[r][p] \in {payload[r][p], Missing}
       \/ \E c \in Calls : TarUnpacks(c, p) /\ On(c, r) /\ payload'[r][p] = snap[c]
    /\ \/ installed'[r][p] = installed[r][p]
       \/ \E c \in Calls : /\ SetupInstalls(c, p) /\ On(c, r) /\ payload[r][p] # Missing
                           /\ installed'[r][p] = [release |-> payload[r][p], by |-> c]

LEMMA FileStep ==
    ASSUME BasicInv, [Next]_vars, NEW r \in Routers, NEW p \in Parts
    PROVE  FileChange(r, p)
<1>0. /\ \A c \in Calls : CallInv(c)
      /\ payload \in [Routers -> [Parts -> Releases \cup {Missing}]]
      /\ installed \in [Routers -> [Parts -> [release : Releases \cup {Missing}, by : Calls \cup {NoCall}]]]
  BY DEF BasicInv, TypeOK
<1>1. ASSUME NEW d \in Calls, TarClears(d) PROVE FileChange(r, p)
  <2>1. payload' = [payload EXCEPT ![request[d].router] = Nowhere] /\ installed' = installed
    BY <1>1 DEF TarClears
  <2>2. payload'[r][p] \in {payload[r][p], Missing}
    BY <1>0, <2>1 DEF Nowhere
  <2> QED
    BY <2>1, <2>2 DEF FileChange
<1>2. ASSUME NEW d \in Calls, NEW x \in Parts, TarUnpacks(d, x) PROVE FileChange(r, p)
  <2>1. /\ payload' = [payload EXCEPT ![request[d].router][x] = snap[d]] /\ installed' = installed
        /\ request[d] # NoRequest
    BY <1>0, <1>2, RequestAssumption DEF TarUnpacks, CallInv, Wanted
  <2>2. CASE request[d].router = r /\ x = p
    <3>1. payload'[r][p] = snap[d] /\ On(d, r)
      BY <1>0, <2>1, <2>2 DEF On
    <3> QED
      BY <1>2, <2>1, <2>2, <3>1 DEF FileChange
  <2>3. CASE request[d].router # r
    BY <1>0, <2>1, <2>3 DEF FileChange
  <2>4. CASE request[d].router = r /\ x # p
    BY <1>0, <2>1, <2>4 DEF FileChange
  <2> QED
    BY <2>2, <2>3, <2>4
<1>3. ASSUME NEW d \in Calls, NEW x \in Parts, SetupInstalls(d, x) PROVE FileChange(r, p)
  <2>1. /\ installed' = [installed EXCEPT ![request[d].router][x] =
                             [release |-> payload[request[d].router][x], by |-> d]]
        /\ payload' = payload /\ payload[request[d].router][x] # Missing /\ request[d] # NoRequest
    BY <1>3 DEF SetupInstalls, IsSetup
  <2>2. CASE request[d].router = r /\ x = p
    <3>1. installed'[r][p] = [release |-> payload[r][p], by |-> d] /\ On(d, r)
      BY <1>0, <2>1, <2>2 DEF On
    <3> QED
      BY <1>3, <2>1, <2>2, <3>1 DEF FileChange
  <2>3. CASE request[d].router # r
    BY <1>0, <2>1, <2>3 DEF FileChange
  <2>4. CASE request[d].router = r /\ x # p
    BY <1>0, <2>1, <2>4 DEF FileChange
  <2> QED
    BY <2>2, <2>3, <2>4
<1>4. CASE UNCHANGED <<payload, installed>>
  BY <1>4 DEF FileChange
<1>5. ASSUME NEW d \in Calls, ServerStep(d) PROVE UNCHANGED <<payload, installed>>
  BY <1>5 DEF ServerStep, Denies, Lists, Refuses, ConnectFails, StageStarts, StageEnds, RunStarts, RunEnds
<1>6. ASSUME NEW d \in Calls, TarEnds(d) \/ CommandEnds(d) \/ TimesOut(d) \/ SessionLost(d)
      PROVE  UNCHANGED <<payload, installed>>
  BY <1>6 DEF TarEnds, CommandEnds, TimesOut, SessionLost
<1>7. Starts \/ Stops \/ (\E c \in Calls, q \in Requests : Receives(c, q)) \/ (\E n \in Releases : Pulls(n))
        \/ (\E x \in Routers : KeyChanges(x)) \/ UNCHANGED vars => UNCHANGED <<payload, installed>>
  BY DEF Starts, Stops, Receives, Pulls, KeyChanges
<1>8. ASSUME NEW d \in Calls, RemoteStep(d) PROVE FileChange(r, p)
  BY <1>1, <1>2, <1>3, <1>4, <1>6, <1>8 DEF RemoteStep
<1> QED
  BY <1>4, <1>5, <1>6, <1>7, <1>8 DEF Next

LEMMA StagedStep == ASSUME BasicInv, StagedInv, [Next]_vars PROVE StagedInv'
<1> SUFFICES ASSUME NEW r \in Routers, NEW p \in Parts
             PROVE  /\ payload'[r][p] # Missing => \E c \in Calls : PackedFor(c, r, payload[r][p])'
                    /\ installed'[r][p].by # NoCall =>
                           /\ installed'[r][p].release # Missing
                           /\ \E c \in Calls : PackedFor(c, r, installed[r][p].release)'
  BY DEF StagedInv
<1>1. ASSUME NEW n, NEW c \in Calls, PackedFor(c, r, n)
      PROVE  tar'[c] # "none" /\ On(c, r)' /\ snap'[c] = n
  BY <1>1, PackedStays DEF PackedFor, On
<1>2. payload[r][p] # Missing => \E c \in Calls : PackedFor(c, r, payload[r][p])
  BY DEF StagedInv
<1>3. ASSUME payload'[r][p] # Missing PROVE \E c \in Calls : PackedFor(c, r, payload[r][p])'
  <2>1. CASE payload'[r][p] = payload[r][p]
    BY <1>1, <1>2, <1>3, <2>1 DEF PackedFor
  <2>2. CASE \E c \in Calls : TarUnpacks(c, p) /\ On(c, r) /\ payload'[r][p] = snap[c]
    <3>1. PICK c \in Calls : TarUnpacks(c, p) /\ On(c, r) /\ payload'[r][p] = snap[c]
      BY <2>2
    <3>2. PackedFor(c, r, payload'[r][p])
      BY <3>1 DEF TarUnpacks, PackedFor
    <3> QED
      BY <1>1, <3>1, <3>2 DEF PackedFor
  <2> QED
    BY <1>3, <2>1, <2>2, FileStep DEF FileChange
<1>4. ASSUME installed'[r][p].by # NoCall
      PROVE  installed'[r][p].release # Missing /\ \E c \in Calls : PackedFor(c, r, installed[r][p].release)'
  <2>1. CASE installed'[r][p] = installed[r][p]
    <3>1. installed[r][p].release # Missing /\ \E c \in Calls : PackedFor(c, r, installed[r][p].release)
      BY <1>4, <2>1 DEF StagedInv
    <3> QED
      BY <1>1, <2>1, <3>1 DEF PackedFor
  <2>2. CASE installed'[r][p] # installed[r][p]
    <3>0. PICK d \in Calls : /\ payload[r][p] # Missing
                            /\ installed'[r][p] = [release |-> payload[r][p], by |-> d]
      BY <2>2, FileStep DEF FileChange
    <3>1. payload[r][p] # Missing /\ installed'[r][p].release = payload[r][p]
      BY <3>0
    <3>2. PICK c \in Calls : PackedFor(c, r, payload[r][p])
      BY <1>2, <3>1
    <3>3. tar'[c] # "none" /\ On(c, r)' /\ snap'[c] = payload[r][p]
      BY <1>1, <3>2
    <3> QED
      BY <3>1, <3>3 DEF PackedFor
  <2> QED
    BY <2>1, <2>2
<1> QED
  BY <1>3, <1>4

(* Whatever overlaps, is lost or is retried, and also when tools run side  *)
(* by side: setup.sh installs only files that a confirmed call of an       *)
(* admitted client packed for this router, each as it was packed.          *)
THEOREM OnlyPackedFiles == Spec => []InstalledWasStaged
<1> DEFINE Inv == BasicInv /\ PackedInv /\ StagedInv
<1>1. Init => Inv
  <2>1. Init => PackedInv
    BY DEF Init, PackedInv
  <2>2. ASSUME Init, NEW r \in Routers, NEW p \in Parts
        PROVE  payload[r][p] = Missing /\ installed[r][p].by = NoCall
    BY <2>2 DEF Init, Nowhere, Virgin
  <2>3. Init => StagedInv
    BY <2>2 DEF StagedInv
  <2> QED
    BY <2>1, <2>3, InitBasic
<1>2. Inv /\ [Next]_vars => Inv'
  BY BasicStep, PackedStep, StagedStep
<1>3. Inv => InstalledWasStaged
  <2> SUFFICES ASSUME Inv, NEW r \in Routers, NEW p \in Parts, installed[r][p].by # NoCall
               PROVE  \E c \in Calls : /\ IsSetup(c) /\ On(c, r)
                                       /\ Admitted(request[c]) /\ request[c].confirm
                                       /\ snap[c] # Missing /\ installed[r][p].release = snap[c]
    BY DEF InstalledWasStaged
  <2>1. PICK c \in Calls : PackedFor(c, r, installed[r][p].release)
    BY DEF StagedInv
  <2>2. CallInv(c) /\ snap[c] # Missing
    BY <2>1 DEF BasicInv, PackedInv, PackedFor
  <2>3. IsSetup(c) /\ Wanted(c)
    BY <2>1, <2>2 DEF CallInv, PackedFor
  <2>4. request[c].confirm
    BY <2>3 DEF Wanted, Permitted, Mutating, IsSetup
  <2> QED
    BY <2>1, <2>2, <2>3, <2>4 DEF PackedFor, Wanted
<1> HIDE DEF Inv
<1> QED
  BY <1>1, <1>2, <1>3, PTL DEF Spec

-----------------------------------------------------------------------------
(* A server that runs one tool at a time.  While the outcome of every      *)
(* setup of a router is known, no orphan of a setup is at work there: each *)
(* setup has the payload to itself while it stages it and runs on it, and  *)
(* what it installed stays until the next one.                             *)

OneAtATime == \A c, d \in Calls : Active(c) /\ Active(d) => c = d

RunningIsLatest ==
    \A c \in Calls : pc[c] = "running" /\ IsSetup(c) => latest[request[c].router] = c

LatestInv ==
    \A r \in Routers, c \in Calls :
        latest[r] = c => IsSetup(c) /\ On(c, r) /\ cmd[c] # "none"

(* Of a setup that is being dealt with, on a settled router, every part    *)
(* unpacked so far is in place.                                            *)
UnpackedInv ==
    \A c \in Calls, r \in Routers, p \in Parts :
        /\ IsSetup(c) /\ On(c, r) /\ Active(c) /\ Settled(r)
        /\ tar[c] \in {"cleared", "ok"} /\ p \in unpacked[c]
        => payload[r][p] = snap[c]

(* Of the last setup, on a settled router, every part it has installed is  *)
(* in place.                                                               *)
InForceInv ==
    \A c \in Calls, r \in Routers, p \in Parts :
        latest[r] = c /\ Settled(r) /\ p \in done[c] =>
            installed[r][p] = [release |-> snap[c], by |-> c]

SerialInv == BasicInv /\ OneAtATime /\ RunningIsLatest /\ LatestInv /\ UnpackedInv /\ InForceInv

(* On a settled router a remote command at work belongs to an active call. *)
LEMMA NoOrphans ==
    ASSUME BasicInv, NEW r \in Routers, NEW c \in Calls, IsSetup(c), On(c, r), Settled(r)
    PROVE  /\ tar[c] \in {"started", "cleared"} => pc[c] = "staging"
           /\ cmd[c] = "running" => pc[c] = "running"
<1>1. TypeOK /\ CallInv(c) /\ answer[c] \notin {"timed out", "lost"}
  BY DEF BasicInv, Settled, Unknown
<1> QED
  BY <1>1 DEF CallInv, TypeOK, Known

LEMMA InitSerial == Init => SerialInv
<1>1. ASSUME Init PROVE OneAtATime /\ RunningIsLatest
  BY <1>1 DEF Init, OneAtATime, Active, RunningIsLatest
<1>2. ASSUME Init PROVE LatestInv /\ InForceInv
  BY <1>2, CallAssumption DEF Init, LatestInv, InForceInv
<1>3. ASSUME Init PROVE UnpackedInv
  BY <1>3 DEF Init, UnpackedInv
<1> QED
  BY <1>1, <1>2, <1>3, InitBasic DEF SerialInv

(* Settled routers were settled before: an unknown outcome stays unknown.  *)
LEMMA SettledBefore ==
    ASSUME BasicInv, [Next]_vars, NEW r \in Routers, Settled(r)'
    PROVE  Settled(r)
<1> SUFFICES ASSUME NEW c \in Calls, IsSetup(c), On(c, r), Unknown(c) PROVE FALSE
  BY DEF Settled
<1>1. pc[c] = "answered" /\ answer[c] \in {"timed out", "lost"}
  BY DEF BasicInv, CallInv, Unknown
<1>2. request'[c] = request[c] /\ answer'[c] = answer[c]
  <2> DEFINE Kept == request'[c] = request[c] /\ answer'[c] = answer[c]
  <2> USE <1>1 DEF BasicInv, TypeOK
  <2>1. ASSUME NEW d \in Calls, NEW q \in Requests, Receives(d, q) PROVE Kept
    BY <2>1 DEF Receives
  <2>2. CASE Stops
    BY <2>2 DEF Stops, Active
  <2>3. ASSUME NEW d \in Calls, ServerStep(d) PROVE Kept
    BY <2>3 DEF ServerStep, Denies, Lists, Refuses, ConnectFails, ReadyToConnect, Accepted, StageStarts,
                StageEnds, RunStarts, RunEnds, Answer
  <2>4. ASSUME NEW d \in Calls, TimesOut(d) \/ SessionLost(d) PROVE Kept
    BY <2>4 DEF TimesOut, SessionLost, Answer, Waiting
  <2>5. CASE UNCHANGED <<request, answer>>
    BY <2>5
  <2> QED
    BY <2>1, <2>2, <2>3, <2>4, <2>5
       DEF Next, Starts, Pulls, KeyChanges, RemoteStep, TarClears, TarUnpacks, TarEnds, SetupInstalls, CommandEnds
<1> QED
  BY <1>1, <1>2 DEF Settled, Unknown, IsSetup, On

LEMMA OneAtATimeStep ==
    ASSUME Serial, TypeOK, OneAtATime, [Next]_vars
    PROVE  OneAtATime'
<1> SUFFICES ASSUME NEW c \in Calls, NEW d \in Calls, Active(c)', Active(d)' PROVE c = d
  BY DEF OneAtATime
<1>0. Active(c) /\ Active(d) => c = d
  BY DEF OneAtATime
<1> USE DEF TypeOK, Active
<1>1. ASSUME NEW e \in Calls, NEW q \in Requests, Receives(e, q) PROVE c = d
  BY <1>1 DEF Receives
<1>2. CASE Stops
  BY <1>0, <1>2 DEF Stops
<1>3. ASSUME NEW e \in Calls, ServerStep(e) \/ TimesOut(e) \/ SessionLost(e) PROVE c = d
  BY <1>0, <1>3 DEF ServerStep, Denies, Lists, Refuses, ConnectFails, ReadyToConnect, Accepted, StageStarts,
        StageEnds, RunStarts, RunEnds, TimesOut, SessionLost, Waiting, Answer
<1>4. CASE UNCHANGED pc
  BY <1>0, <1>4
<1> QED
  BY <1>1, <1>2, <1>3, <1>4
     DEF Next, Starts, Pulls, KeyChanges, RemoteStep, TarClears, TarUnpacks, TarEnds, SetupInstalls, CommandEnds

(* Only the start of setup.sh makes a call the latest one of its router.   *)
LEMMA LatestStep ==
    ASSUME BasicInv, OneAtATime, RunningIsLatest, LatestInv, Serial, [Next]_vars
    PROVE  RunningIsLatest' /\ LatestInv'
<1>0. TypeOK /\ \A c \in Calls : CallInv(c)
  BY DEF BasicInv
<1>a. TypeOK' /\ OneAtATime'
  BY <1>0, TypeStep, OneAtATimeStep
<1>b. ASSUME NEW c \in Calls, IsSetup(c), pc[c] # "idle"
      PROVE  IsSetup(c)' /\ request'[c] = request[c] /\ (cmd[c] # "none" => cmd'[c] # "none")
  <2> DEFINE Kept == IsSetup(c)' /\ request'[c] = request[c] /\ (cmd[c] # "none" => cmd'[c] # "none")
  <2> USE <1>0, <1>b DEF TypeOK, IsSetup
  <2>1. ASSUME NEW d \in Calls, NEW q \in Requests, Receives(d, q) PROVE Kept
    BY <2>1 DEF Receives
  <2>2. ASSUME NEW d \in Calls, RunStarts(d) \/ CommandEnds(d) PROVE Kept
    <3>1. /\ request' = request
          /\ \E x \in {"running", "ok", "bad"} : cmd' = [cmd EXCEPT ![d] = x]
      BY <2>2 DEF RunStarts, CommandEnds
    <3>2. cmd \in [Calls -> {"none", "running", "ok", "bad"}]
      OBVIOUS
    <3> HIDE <1>0 DEF TypeOK
    <3>3. cmd[c] # "none" => cmd'[c] # "none"
      BY <3>1, <3>2
    <3> QED
      BY <1>b, <3>1, <3>3
  <2>3. CASE UNCHANGED <<request, cmd>>
    BY <2>3
  <2> QED
    BY <2>1, <2>2, <2>3
       DEF Next, ServerStep, Starts, Stops, Denies, Lists, Refuses, ConnectFails, StageStarts, StageEnds, RunEnds,
           TimesOut, SessionLost, Pulls, KeyChanges, RemoteStep, TarClears, TarUnpacks, TarEnds, SetupInstalls
<1>1. CASE \E d \in Calls : RunStarts(d) /\ IsSetup(d)
  <2>1. PICK d \in Calls : RunStarts(d) /\ IsSetup(d)
    BY <1>1
  <2>2. /\ request' = request /\ pc'[d] = "running" /\ cmd'[d] # "none" /\ request[d].router \in Routers
        /\ latest' = [latest EXCEPT ![request[d].router] = d]
        /\ \A c \in Calls : c # d => cmd'[c] = cmd[c]
    <3>1. /\ pc[d] = "staged"
          /\ pc' = [pc EXCEPT ![d] = "running"] /\ cmd' = [cmd EXCEPT ![d] = "running"]
          /\ latest' = [latest EXCEPT ![request[d].router] = d]
          /\ request' = request
      BY <2>1 DEF RunStarts
    <3>2. /\ pc \in [Calls -> {"idle", "received", "staging", "staged", "running", "answered"}]
          /\ cmd \in [Calls -> {"none", "running", "ok", "bad"}]
      BY <1>0 DEF TypeOK
    <3>3. request[d].router \in Routers
      BY <1>0, <3>1 DEF CallInv, Wanted, Permitted
    <3> QED
      BY <3>1, <3>2, <3>3
  <2>3. RunningIsLatest'
    <3> SUFFICES ASSUME NEW c \in Calls, pc'[c] = "running", IsSetup(c)'
                 PROVE  latest'[request'[c].router] = c
      BY DEF RunningIsLatest
    <3>1. c = d
      BY <1>a, <2>2 DEF OneAtATime, Active
    <3> QED
      BY <1>0, <2>2, <3>1 DEF TypeOK
  <2>4. LatestInv'
    <3> SUFFICES ASSUME NEW r \in Routers, NEW c \in Calls, latest'[r] = c
                 PROVE  IsSetup(c)' /\ On(c, r)' /\ cmd'[c] # "none"
      BY DEF LatestInv
    <3>1. CASE r = request[d].router
      <4>1. c = d
        BY <1>0, <2>2, <3>1 DEF TypeOK
      <4> QED
        BY <2>1, <2>2, <3>1, <4>1 DEF IsSetup, On
    <3>2. CASE r # request[d].router
      <4>1. IsSetup(c) /\ On(c, r) /\ cmd[c] # "none"
        BY <1>0, <2>2, <3>2 DEF TypeOK, LatestInv
      <4> QED
        BY <2>2, <4>1 DEF IsSetup, On
    <3> QED
      BY <3>1, <3>2
  <2> QED
    BY <2>3, <2>4
<1>2. CASE latest' = latest /\ \A c \in Calls : pc'[c] = "running" /\ IsSetup(c)' => pc[c] = "running" /\ IsSetup(c)
  <2>1. RunningIsLatest'
    <3> SUFFICES ASSUME NEW c \in Calls, pc'[c] = "running", IsSetup(c)'
                 PROVE  latest'[request'[c].router] = c
      BY DEF RunningIsLatest
    <3> QED
      BY <1>b, <1>2 DEF RunningIsLatest
  <2>2. LatestInv'
    <3> SUFFICES ASSUME NEW r \in Routers, NEW c \in Calls, latest'[r] = c
                 PROVE  IsSetup(c)' /\ On(c, r)' /\ cmd'[c] # "none"
      BY DEF LatestInv
    <3>1. IsSetup(c) /\ On(c, r) /\ cmd[c] # "none"
      BY <1>2 DEF LatestInv
    <3>2. pc[c] # "idle"
      BY <1>0, <3>1 DEF CallInv
    <3> QED
      BY <1>b, <3>1, <3>2 DEF On, IsSetup
  <2> QED
    BY <2>1, <2>2
<1>3. latest' = latest \/ \E d \in Calls : RunStarts(d) /\ IsSetup(d)
  <2> DEFINE Kept == latest' = latest
  <2>1. ASSUME NEW d \in Calls, NEW q \in Requests, Receives(d, q) PROVE Kept
    BY <2>1 DEF Receives
  <2>2. ASSUME NEW d \in Calls, ServerStep(d), ~(RunStarts(d) /\ IsSetup(d)) PROVE Kept
    BY <2>2 DEF ServerStep, Denies, Lists, Refuses, ConnectFails, StageStarts, StageEnds, RunStarts, RunEnds
  <2>3. ASSUME NEW d \in Calls, TimesOut(d) \/ SessionLost(d) PROVE Kept
    BY <2>3 DEF TimesOut, SessionLost
  <2>4. ASSUME NEW d \in Calls, RemoteStep(d) PROVE Kept
    BY <2>4 DEF RemoteStep, TarClears, TarUnpacks, TarEnds, SetupInstalls, CommandEnds
  <2>5. CASE Starts \/ Stops \/ (\E n \in Releases : Pulls(n)) \/ (\E r \in Routers : KeyChanges(r))
    BY <2>5 DEF Starts, Stops, Pulls, KeyChanges
  <2>6. CASE UNCHANGED vars
    BY <2>6
  <2> HIDE DEF Kept
  <2> QED
    BY <2>1, <2>2, <2>3, <2>4, <2>5, <2>6 DEF Next, Kept
<1>4. ASSUME ~ \E d \in Calls : RunStarts(d) /\ IsSetup(d), NEW c \in Calls, pc'[c] = "running", IsSetup(c)'
      PROVE  pc[c] = "running" /\ IsSetup(c)
  <2> DEFINE Was == pc[c] = "running" /\ IsSetup(c)
  <2> USE <1>0, <1>4 DEF TypeOK, IsSetup
  <2>1. ASSUME NEW d \in Calls, NEW q \in Requests, Receives(d, q) PROVE Was
    BY <2>1 DEF Receives
  <2>2. CASE Stops
    BY <2>2 DEF Stops
  <2>3. ASSUME NEW d \in Calls, RunStarts(d) PROVE Was
    BY <2>3 DEF RunStarts
  <2>4. ASSUME NEW d \in Calls, StageStarts(d) \/ StageEnds(d) PROVE Was
    BY <2>4 DEF StageStarts, StageEnds, Answer
  <2>5. ASSUME NEW d \in Calls, Denies(d) \/ Lists(d) \/ Refuses(d) \/ ConnectFails(d) \/ RunEnds(d) \/ TimesOut(d) \/ SessionLost(d)
        PROVE  Was
    BY <2>5 DEF Denies, Lists, Refuses, ConnectFails, RunEnds, TimesOut, SessionLost, Answer
  <2>6. CASE UNCHANGED <<pc, request>>
    BY <2>6
  <2> QED
    BY <2>1, <2>2, <2>3, <2>4, <2>5, <2>6
       DEF Next, ServerStep, Starts, Pulls, KeyChanges, RemoteStep, TarClears, TarUnpacks, TarEnds, SetupInstalls,
           CommandEnds
<1> QED
  BY <1>1, <1>2, <1>3, <1>4

(* Only tar writes the payload of a settled router, and only one at a time.*)
LEMMA UnpackedStep ==
    ASSUME SerialInv, Serial, [Next]_vars
    PROVE  UnpackedInv'
<1>0. TypeOK /\ BasicInv /\ (\A c \in Calls : CallInv(c) /\ PartsInv(c)) /\ OneAtATime /\ UnpackedInv
  BY DEF SerialInv, BasicInv
<1> SUFFICES ASSUME NEW c \in Calls, NEW r \in Routers, NEW p \in Parts,
                    IsSetup(c)', On(c, r)', Active(c)', Settled(r)',
                    tar'[c] \in {"cleared", "ok"}, p \in unpacked'[c]
             PROVE  payload'[r][p] = snap'[c]
  BY DEF UnpackedInv
<1> DEFINE Goal == payload'[r][p] = snap'[c]
<1>s. Settled(r)
  BY <1>0, SettledBefore
<1>a. CallInv(c)' /\ PartsInv(c)'
  BY <1>0, CallStep
<1>b. ASSUME tar[c] \in {"cleared", "ok"}, p \in unpacked[c], request'[c] = request[c], Active(c)
      PROVE  payload[r][p] = snap[c]
  BY <1>0, <1>s, <1>b DEF UnpackedInv, IsSetup, On
<1> USE <1>0 DEF TypeOK, Active
<1>1. ASSUME NEW d \in Calls, NEW q \in Requests, Receives(d, q) PROVE Goal
  <2>1. c # d
    BY <1>1, <1>a DEF Receives, CallInv
  <2> QED
    BY <1>1, <1>b, <2>1 DEF Receives
<1>2. ASSUME NEW d \in Calls, StageStarts(d) PROVE Goal
  <2>1. c # d
    BY <1>2 DEF StageStarts
  <2> QED
    BY <1>2, <1>b, <2>1 DEF StageStarts
<1>3. ASSUME NEW d \in Calls, TarClears(d) PROVE Goal
  <2>1. c # d
    BY <1>3 DEF TarClears, PartsInv
  <2>2. Active(c)
    BY <1>3 DEF TarClears
  <2>3. request[d].router # r
    <3>1. CASE request[d].router = r
      <4>1. IsSetup(d) /\ On(d, r)
        BY <1>3, <3>1 DEF TarClears, CallInv, IsSetup, On
      <4>2. pc[d] = "staging"
        BY <1>3, <1>s, <4>1, NoOrphans DEF TarClears
      <4> QED
        BY <2>1, <2>2, <4>2 DEF OneAtATime
    <3> QED
      BY <3>1
  <2> QED
    BY <1>3, <1>b, <2>1, <2>2, <2>3 DEF TarClears
<1>4. ASSUME NEW d \in Calls, NEW x \in Parts, TarUnpacks(d, x) PROVE Goal
  <2>1. Active(c) /\ request' = request /\ snap' = snap /\ tar' = tar
    BY <1>4 DEF TarUnpacks
  <2>2. CASE c = d
    <3>1. request[d].router = r /\ request[d].router \in Routers
      BY <2>1, <2>2 DEF On
    <3> QED
      BY <1>4, <1>b, <2>1, <2>2, <3>1 DEF TarUnpacks
  <2>3. CASE c # d
    <3>1. request[d].router # r
      <4>1. CASE request[d].router = r
        <5>1. IsSetup(d) /\ On(d, r)
          BY <1>4, <4>1 DEF TarUnpacks, CallInv, IsSetup, On
        <5>2. pc[d] = "staging"
          BY <1>4, <1>s, <5>1, NoOrphans DEF TarUnpacks
        <5> QED
          BY <2>1, <2>3, <5>2 DEF OneAtATime
      <4> QED
        BY <4>1
    <3> QED
      BY <1>4, <1>b, <2>1, <2>3, <3>1 DEF TarUnpacks
  <2> QED
    BY <2>2, <2>3
<1>5. ASSUME NEW d \in Calls, TarEnds(d) PROVE Goal
  BY <1>5, <1>b DEF TarEnds
<1>6. CASE UNCHANGED <<pc, request, tar, unpacked, payload, snap>>
  BY <1>6, <1>b
<1>7. ASSUME NEW d \in Calls, Denies(d) \/ Lists(d) \/ Refuses(d) \/ ConnectFails(d) \/ StageEnds(d) \/ RunStarts(d)
                              \/ RunEnds(d) \/ TimesOut(d) \/ SessionLost(d)
      PROVE  Goal
  <2>1. Active(c)
    BY <1>7 DEF Denies, Lists, Refuses, ConnectFails, StageEnds, RunStarts, RunEnds, TimesOut, SessionLost, Answer,
                ReadyToConnect, Accepted, Waiting
  <2> QED
    BY <1>7, <1>b, <2>1 DEF Denies, Lists, Refuses, ConnectFails, StageEnds, RunStarts, RunEnds, TimesOut, SessionLost
<1>8. CASE Stops
  BY <1>8 DEF Stops
<1> HIDE <1>0 DEF Goal, TypeOK, Active
<1>9. Starts \/ (\E d \in Calls : CommandEnds(d) \/ \E x \in Parts : SetupInstalls(d, x))
        \/ (\E n \in Releases : Pulls(n)) \/ (\E x \in Routers : KeyChanges(x)) \/ UNCHANGED vars
      => UNCHANGED <<pc, request, tar, unpacked, payload, snap>>
  BY DEF Starts, SetupInstalls, CommandEnds, Pulls, KeyChanges
<1> QED
  BY <1>1, <1>2, <1>3, <1>4, <1>5, <1>6, <1>7, <1>8, <1>9 DEF Goal, Next, ServerStep, RemoteStep

(* Only the latest setup of a settled router installs anything.            *)
LEMMA InForceStep ==
    ASSUME SerialInv, Serial, [Next]_vars
    PROVE  InForceInv'
<1>0. /\ TypeOK /\ BasicInv /\ (\A c \in Calls : CallInv(c) /\ PartsInv(c))
      /\ RunningIsLatest /\ LatestInv /\ UnpackedInv /\ InForceInv
  BY DEF SerialInv, BasicInv
<1> SUFFICES ASSUME NEW c \in Calls, NEW r \in Routers, NEW p \in Parts,
                    latest'[r] = c, Settled(r)', p \in done'[c]
             PROVE  installed'[r][p] = [release |-> snap'[c], by |-> c]
  BY DEF InForceInv
<1> DEFINE Goal == installed'[r][p] = [release |-> snap'[c], by |-> c]
<1>s. Settled(r)
  BY <1>0, SettledBefore
<1>a. ASSUME latest[r] = c, p \in done[c]
      PROVE  installed[r][p] = [release |-> snap[c], by |-> c]
  BY <1>0, <1>s, <1>a DEF InForceInv
<1>1. CASE UNCHANGED <<latest, done, installed, snap>>
  BY <1>1, <1>a
<1>2. ASSUME NEW d \in Calls, StageStarts(d) PROVE Goal
  <2>1. cmd[d] = "none"
    BY <1>0, <1>2 DEF StageStarts, Accepted, CallInv
  <2>2. c # d
    BY <1>0, <1>2, <2>1 DEF StageStarts, PartsInv
  <2> QED
    BY <1>0, <1>2, <1>a, <2>2 DEF StageStarts, TypeOK
<1>3. ASSUME NEW d \in Calls, RunStarts(d) PROVE Goal
  <2>1. cmd[d] = "none"
    BY <1>0, <1>3 DEF RunStarts, Accepted, CallInv
  <2>2. c # d
    BY <1>0, <1>3, <2>1 DEF RunStarts, PartsInv
  <2>3. latest[r] = c
    BY <1>0, <1>3, <2>2 DEF RunStarts, TypeOK
  <2> QED
    BY <1>0, <1>3, <1>a, <2>3 DEF RunStarts
<1>4. ASSUME NEW d \in Calls, NEW x \in Parts, SetupInstalls(d, x) PROVE Goal
  <2>0. latest' = latest /\ snap' = snap /\ done' = [done EXCEPT ![d] = @ \cup {x}]
        /\ installed' = [installed EXCEPT ![request[d].router][x] =
                             [release |-> payload[request[d].router][x], by |-> d]]
        /\ IsSetup(d) /\ cmd[d] = "running"
    BY <1>4 DEF SetupInstalls
  <2>1. CASE request[d].router = r
    <3>1. On(d, r) /\ pc[d] = "running" /\ tar[d] = "ok"
      <4>1. On(d, r)
        BY <2>0, <2>1 DEF On, IsSetup
      <4> QED
        BY <1>0, <1>s, <2>0, <4>1, NoOrphans DEF CallInv
    <3>2. latest[r] = d
      BY <1>0, <2>0, <2>1, <3>1 DEF RunningIsLatest
    <3>3. c = d
      BY <2>0, <3>2
    <3>4. unpacked[d] = Parts
      BY <1>0, <3>1 DEF PartsInv
    <3>5. payload[r][x] = snap[d]
      BY <1>0, <1>s, <2>0, <3>1, <3>4 DEF UnpackedInv, Active
    <3>6. CASE p = x
      <4>1. installed \in [Routers -> [Parts -> [release : Releases \cup {Missing}, by : Calls \cup {NoCall}]]]
        BY <1>0 DEF TypeOK
      <4>2. installed'[r][p] = [release |-> payload[r][x], by |-> d]
        BY <2>0, <2>1, <3>6, <4>1
      <4> QED
        BY <2>0, <3>3, <3>5, <4>2
    <3>7. CASE p # x
      <4>1. p \in done[c]
        BY <1>0, <2>0, <3>3, <3>7 DEF TypeOK
      <4> QED
        BY <1>0, <1>a, <2>0, <2>1, <3>7, <4>1 DEF TypeOK
    <3> QED
      BY <3>6, <3>7
  <2>2. CASE request[d].router # r
    <3>1. c # d
      <4>1. CASE c = d
        BY <1>0, <2>0, <2>2, <4>1 DEF LatestInv, On
      <4> QED
        BY <4>1
    <3>2. p \in done[c]
      BY <1>0, <2>0, <3>1 DEF TypeOK
    <3> QED
      BY <1>0, <1>a, <2>0, <2>2, <3>2 DEF TypeOK
  <2> QED
    BY <2>1, <2>2
<1> HIDE DEF Goal
<1> QED
  BY <1>1, <1>2, <1>3, <1>4
     DEF Goal, Next, ServerStep, RemoteStep, Starts, Stops, Receives, Denies, Lists, Refuses, ConnectFails, StageEnds,
         RunEnds, TimesOut, SessionLost, TarClears, TarUnpacks, TarEnds, CommandEnds, Pulls, KeyChanges

LEMMA SerialStep == ASSUME Serial, SerialInv, [Next]_vars PROVE SerialInv'
<1>1. BasicInv /\ TypeOK /\ OneAtATime /\ RunningIsLatest /\ LatestInv
  BY DEF SerialInv, BasicInv
<1> QED
  BY <1>1, BasicStep, OneAtATimeStep, LatestStep, UnpackedStep, InForceStep DEF SerialInv

LEMMA SerialInvariant == ASSUME Serial PROVE Spec => []SerialInv
<1>1. SerialInv /\ [Next]_vars => SerialInv'
  BY SerialStep
<1> QED
  BY <1>1, InitSerial, PTL DEF Spec

-----------------------------------------------------------------------------
(* As long as no outcome of a setup is unknown, setup.sh runs on the whole *)
(* payload staged for it: no earlier staging or setup is still at work.    *)
THEOREM SetupFindsItsPayload == ASSUME Serial PROVE Spec => []PayloadIsOwn
<1>1. SerialInv => PayloadIsOwn
  <2> SUFFICES ASSUME SerialInv, NEW c \in Calls, NEW r \in Routers,
                      IsSetup(c), On(c, r), pc[c] \in {"staged", "running"}, Settled(r)
               PROVE  payload[r] = [p \in Parts |-> snap[c]]
    BY DEF PayloadIsOwn
  <2>1. TypeOK /\ CallInv(c) /\ PartsInv(c) /\ UnpackedInv
    BY DEF SerialInv, BasicInv
  <2>2. tar[c] = "ok" /\ unpacked[c] = Parts /\ Active(c)
    BY <2>1 DEF CallInv, PartsInv, Active
  <2>3. \A p \in Parts : payload[r][p] = snap[c]
    BY <2>1, <2>2 DEF UnpackedInv
  <2>4. payload[r] \in [Parts -> Releases \cup {Missing}]
    BY <2>1 DEF TypeOK
  <2> QED
    BY <2>3, <2>4
<1> QED
  BY <1>1, SerialInvariant, PTL

(* ... and the last setup, if it was reported ok, is what is installed.    *)
THEOREM LastSetupHolds == ASSUME Serial PROVE Spec => []LastSetupIsInForce
<1>1. SerialInv => LastSetupIsInForce
  <2> SUFFICES ASSUME SerialInv, NEW c \in Calls, NEW r \in Routers,
                      latest[r] = c, answer[c] = "ok", Settled(r)
               PROVE  installed[r] = [p \in Parts |-> [release |-> snap[c], by |-> c]]
    BY DEF LastSetupIsInForce
  <2>1. TypeOK /\ CallInv(c) /\ PartsInv(c) /\ LatestInv /\ InForceInv
    BY DEF SerialInv, BasicInv
  <2>2. done[c] = Parts
    BY <2>1 DEF LatestInv, PartsInv
  <2>3. \A p \in Parts : installed[r][p] = [release |-> snap[c], by |-> c]
    BY <2>1, <2>2 DEF InForceInv
  <2>4. installed[r] \in [Parts -> [release : Releases \cup {Missing}, by : Calls \cup {NoCall}]]
    BY <2>1 DEF TypeOK
  <2> QED
    BY <2>3, <2>4
<1> QED
  BY <1>1, SerialInvariant, PTL

-----------------------------------------------------------------------------
(* Nothing on a router is ahead of the repository, and on a settled router *)
(* nothing is ahead of what the setup that is being dealt with has packed. *)

NotAhead ==
    /\ \A c \in Calls : snap[c] <= release
    /\ \A r \in Routers, p \in Parts : payload[r][p] <= release /\ installed[r][p].release <= release

PackedIsNewest ==
    \A c \in Calls, r \in Routers, p \in Parts :
        IsSetup(c) /\ On(c, r) /\ Active(c) /\ Settled(r) /\ tar[c] # "none" =>
            installed[r][p].release <= snap[c]

(* The releases are numbers, and the repository only moves on.             *)
LEMMA ReleaseTypes ==
    ASSUME TypeOK
    PROVE  /\ release \in Nat /\ \A c \in Calls : snap[c] \in Nat
           /\ \A r \in Routers, p \in Parts : payload[r][p] \in Nat /\ installed[r][p].release \in Nat
<1>1. Releases \cup {Missing} \subseteq Nat
  BY BoundAssumption DEF Releases
<1>2. installed \in [Routers -> [Parts -> [release : Releases \cup {Missing}, by : Calls \cup {NoCall}]]]
  BY DEF TypeOK
<1>3. ASSUME NEW r \in Routers, NEW p \in Parts PROVE installed[r][p].release \in Releases \cup {Missing}
  BY <1>2
<1>4. /\ release \in Releases /\ snap \in [Calls -> Releases \cup {Missing}]
      /\ payload \in [Routers -> [Parts -> Releases \cup {Missing}]]
  BY DEF TypeOK
<1> QED
  BY <1>1, <1>3, <1>4

LEMMA ReleaseStep ==
    ASSUME BasicInv, [Next]_vars
    PROVE  /\ release <= release'
           /\ \A c \in Calls : snap'[c] \in {snap[c], release}
<1>0. TypeOK /\ release \in Nat
  BY ReleaseTypes DEF BasicInv
<1>1. ASSUME NEW d \in Calls, StageStarts(d)
      PROVE  release' = release /\ \A c \in Calls : snap'[c] \in {snap[c], release}
  BY <1>0, <1>1 DEF StageStarts, TypeOK
<1>2. ASSUME NEW n \in Releases, Pulls(n) PROVE release' = release + 1 /\ snap' = snap
  BY <1>2 DEF Pulls
<1>3. (\E d \in Calls : StageStarts(d)) \/ (\E n \in Releases : Pulls(n)) \/ UNCHANGED <<release, snap>>
  BY DEF Next, ServerStep, RemoteStep, Starts, Stops, Receives, Denies, Lists, Refuses, ConnectFails, StageEnds,
         RunStarts, RunEnds, TimesOut, SessionLost, TarClears, TarUnpacks, TarEnds, SetupInstalls, CommandEnds, KeyChanges
<1>4. CASE \E d \in Calls : StageStarts(d)
  BY <1>0, <1>1, <1>4
<1>5. CASE \E n \in Releases : Pulls(n)
  BY <1>0, <1>2, <1>5
<1>6. CASE UNCHANGED <<release, snap>>
  BY <1>0, <1>6
<1> QED
  BY <1>3, <1>4, <1>5, <1>6

LEMMA NotAheadStep == ASSUME BasicInv, NotAhead, [Next]_vars PROVE NotAhead'
<1>0. TypeOK /\ TypeOK' /\ release <= release'
  BY BasicStep, ReleaseStep DEF BasicInv
<1>t. /\ release \in Nat /\ \A c \in Calls : snap[c] \in Nat
      /\ \A r \in Routers, p \in Parts : payload[r][p] \in Nat /\ installed[r][p].release \in Nat
  BY <1>0, ReleaseTypes
<1>u. release' \in Nat
  <2>1. release' \in Releases
    BY <1>0 DEF TypeOK
  <2> QED
    BY <2>1, BoundAssumption DEF Releases
<1>1. ASSUME NEW c \in Calls PROVE snap'[c] <= release'
  BY <1>0, <1>t, <1>u, ReleaseStep DEF NotAhead
<1>2. ASSUME NEW r \in Routers, NEW p \in Parts
      PROVE  payload'[r][p] <= release' /\ installed'[r][p].release <= release'
  <2>1. payload[r][p] <= release' /\ installed[r][p].release <= release' /\ \A c \in Calls : snap[c] <= release'
    BY <1>0, <1>t, <1>u DEF NotAhead
  <2>2. FileChange(r, p)
    BY FileStep
  <2>3. payload'[r][p] <= release'
    BY <1>u, <2>1, <2>2 DEF FileChange
  <2>4. CASE installed'[r][p] = installed[r][p]
    BY <2>1, <2>3, <2>4
  <2>5. CASE installed'[r][p] # installed[r][p]
    <3>1. PICK d \in Calls : installed'[r][p] = [release |-> payload[r][p], by |-> d]
      BY <2>2, <2>5 DEF FileChange
    <3>2. installed'[r][p].release = payload[r][p]
      BY <3>1
    <3> QED
      BY <2>1, <2>3, <3>2
  <2> QED
    BY <2>4, <2>5
<1> QED
  BY <1>1, <1>2 DEF NotAhead

(* On a settled router a file changes only under the setup that is being   *)
(* dealt with, into the one that this setup has packed.                    *)
LEMMA InstalledStep ==
    ASSUME SerialInv, Serial, [Next]_vars, NEW r \in Routers, NEW p \in Parts, Settled(r)'
    PROVE  \/ installed'[r][p] = installed[r][p]
           \/ \E d \in Calls : /\ IsSetup(d) /\ On(d, r) /\ Active(d) /\ tar[d] # "none"
                               /\ installed'[r][p].release = snap[d] /\ UNCHANGED <<pc, request, snap, tar>>
<1>0. TypeOK /\ BasicInv /\ UnpackedInv /\ Settled(r)
  BY SettledBefore DEF SerialInv, BasicInv
<1> SUFFICES ASSUME installed'[r][p] # installed[r][p]
             PROVE  \E d \in Calls : /\ IsSetup(d) /\ On(d, r) /\ Active(d) /\ tar[d] # "none"
                                    /\ installed'[r][p].release = snap[d] /\ UNCHANGED <<pc, request, snap, tar>>
  OBVIOUS
<1>1. PICK d \in Calls : /\ SetupInstalls(d, p) /\ On(d, r)
                        /\ installed'[r][p] = [release |-> payload[r][p], by |-> d]
  BY <1>0, FileStep DEF FileChange
<1>2. IsSetup(d) /\ cmd[d] = "running" /\ UNCHANGED <<pc, request, snap, tar>>
  BY <1>1 DEF SetupInstalls
<1>3. pc[d] = "running"
  BY <1>0, <1>1, <1>2, NoOrphans
<1>4. CallInv(d) /\ PartsInv(d)
  BY <1>0 DEF BasicInv
<1>5. tar[d] = "ok" /\ unpacked[d] = Parts /\ Active(d)
  BY <1>2, <1>3, <1>4 DEF CallInv, PartsInv, Active
<1>6. payload[r][p] = snap[d]
  BY <1>0, <1>1, <1>2, <1>5 DEF UnpackedInv
<1> QED
  BY <1>1, <1>2, <1>5, <1>6

LEMMA NewestStep ==
    ASSUME SerialInv, Serial, NotAhead, PackedIsNewest, [Next]_vars
    PROVE  PackedIsNewest'
<1>0. TypeOK /\ BasicInv /\ (\A c \in Calls : CallInv(c)) /\ OneAtATime
  BY DEF SerialInv, BasicInv
<1>t. /\ \A c \in Calls : snap[c] \in Nat
      /\ \A r \in Routers, p \in Parts : installed[r][p].release \in Nat
  BY <1>0, ReleaseTypes
<1> SUFFICES ASSUME NEW c \in Calls, NEW r \in Routers, NEW p \in Parts,
                    IsSetup(c)', On(c, r)', Active(c)', Settled(r)', tar'[c] # "none"
             PROVE  installed'[r][p].release <= snap'[c]
  BY DEF PackedIsNewest
<1>s. Settled(r)
  BY <1>0, SettledBefore
<1>1. CASE tar[c] = "none"
  <2>1. StageStarts(c)
    <3>1. ASSUME NEW d \in Calls, TarClears(d) \/ TarEnds(d) PROVE FALSE
      BY <1>0, <1>1, <3>1 DEF TarClears, TarEnds, TypeOK
    <3>2. ASSUME NEW d \in Calls, StageStarts(d) PROVE c = d
      BY <1>0, <1>1, <3>2 DEF StageStarts, TypeOK
    <3> QED
      BY <1>1, <3>1, <3>2
         DEF Next, ServerStep, RemoteStep, Starts, Stops, Receives, Denies, Lists, Refuses, ConnectFails, StageEnds,
             RunStarts, RunEnds, TimesOut, SessionLost, TarUnpacks, SetupInstalls, CommandEnds, Pulls, KeyChanges
  <2>2. snap'[c] = release /\ installed' = installed
    BY <1>0, <2>1 DEF StageStarts, TypeOK
  <2> QED
    BY <2>2 DEF NotAhead
<1>2. CASE tar[c] # "none"
  <2>1. request'[c] = request[c] /\ snap'[c] = snap[c]
    BY <1>0, <1>2, PackedStays
  <2>2. IsSetup(c) /\ On(c, r)
    BY <2>1 DEF IsSetup, On
  <2>3. Active(c)
    <3>1. pc[c] \notin {"idle", "received"}
      BY <1>0, <1>2 DEF CallInv
    <3>2. pc[c] = "answered" => pc'[c] = "answered"
      BY <1>0, AnsweredStays
    <3> QED
      BY <3>1, <3>2 DEF Active
  <2>4. installed[r][p].release <= snap[c]
    BY <1>2, <1>s, <2>2, <2>3 DEF PackedIsNewest
  <2>5. CASE installed'[r][p] = installed[r][p]
    BY <2>1, <2>4, <2>5
  <2>6. CASE installed'[r][p] # installed[r][p]
    <3>1. PICK d \in Calls : Active(d) /\ installed'[r][p].release = snap[d]
      BY <2>6, InstalledStep
    <3>2. c = d
      BY <1>0, <2>3, <3>1 DEF OneAtATime
    <3> QED
      BY <1>t, <2>1, <3>1, <3>2
  <2> QED
    BY <2>5, <2>6
<1> QED
  BY <1>1, <1>2

(* Where tools run one at a time and every outcome is known, a setup never *)
(* replaces a file by one of an earlier release.                           *)
THEOREM NothingOlder == ASSUME Serial PROVE Spec => NeverDowngrades
<1> DEFINE Inv == SerialInv /\ NotAhead /\ PackedIsNewest
           Step == \A r \in Routers, p \in Parts : Settled(r)' => installed'[r][p].release >= installed[r][p].release
<1>1. Init => Inv
  <2>1. ASSUME Init, NEW r \in Routers, NEW p \in Parts
        PROVE  payload[r][p] <= release /\ installed[r][p].release <= release
    <3>1. release = 1 /\ payload[r][p] = 0 /\ installed[r][p].release = 0
      BY <2>1 DEF Init, Nowhere, Virgin
    <3> QED
      BY <3>1
  <2>c. ASSUME Init, NEW c \in Calls PROVE snap[c] <= release
    <3>1. release = 1 /\ snap[c] = 0
      BY <2>c DEF Init
    <3> QED
      BY <3>1
  <2>2. Init => NotAhead
    BY <2>1, <2>c DEF NotAhead
  <2>3. Init => PackedIsNewest
    BY DEF Init, PackedIsNewest
  <2> QED
    BY <2>2, <2>3, InitSerial
<1>2. Inv /\ [Next]_vars => Inv'
  BY SerialStep, NotAheadStep, NewestStep DEF SerialInv
<1>3. Inv /\ [Next]_vars => Step
  <2> SUFFICES ASSUME Inv, [Next]_vars, NEW r \in Routers, NEW p \in Parts, Settled(r)'
               PROVE  installed'[r][p].release >= installed[r][p].release
    OBVIOUS
  <2>1. TypeOK /\ BasicInv /\ Settled(r)
    BY SettledBefore DEF SerialInv, BasicInv
  <2>2. /\ \A c \in Calls : snap[c] \in Nat
        /\ installed[r][p].release \in Nat
    BY <2>1, ReleaseTypes
  <2>3. CASE installed'[r][p] = installed[r][p]
    BY <2>2, <2>3
  <2>4. CASE installed'[r][p] # installed[r][p]
    <3>1. PICK d \in Calls : /\ IsSetup(d) /\ On(d, r) /\ Active(d) /\ tar[d] # "none"
                            /\ installed'[r][p].release = snap[d]
      BY <2>4, InstalledStep
    <3>2. installed[r][p].release <= snap[d]
      BY <2>1, <3>1 DEF PackedIsNewest
    <3> QED
      BY <2>2, <3>1, <3>2
  <2> QED
    BY <2>3, <2>4
<1>4. [][Step]_vars => NeverDowngrades
  BY PTL DEF NeverDowngrades, Step
<1> HIDE DEF Inv, Step
<1> QED
  BY <1>1, <1>2, <1>3, <1>4, PTL DEF Spec
=============================================================================
