---------------------------- MODULE MCMcpSidecar ----------------------------
(* Instances of McpSidecar for TLC: one router, requests that differ in     *)
(* what the policy looks at.                                                *)
EXTENDS McpSidecar

MCInventory == << [name |-> "main", host |-> "192.168.0.1", port |-> 22] >>
MCHosts == {"192.168.0.1", "192.168.0.221"}

Base == [tool |-> "ssh_check", router |-> "main", hostHeader |-> "localhost", origin |-> NoOrigin,
         token |-> "a long random token", confirm |-> FALSE]
Setup == [tool |-> "run_repo_setup", router |-> "main", hostHeader |-> "localhost", origin |-> NoOrigin,
          token |-> "a long random token", confirm |-> TRUE, host |-> "192.168.0.221", port |-> 514,
          proto |-> "udp", profile |-> <<"clients", "traffic">>]

GoodRequests == {Setup, Base}
BadRequests == {[Setup EXCEPT !.confirm = FALSE], [Setup EXCEPT !.profile = <<"full", "dpi">>],
                [Setup EXCEPT !.token = "another"], [Base EXCEPT !.router = "unknown"],
                [Base EXCEPT !.tool = "list_routers"]}
MCRequests == GoodRequests \cup BadRequests
SetupOnly == {Setup}
MCToken == "a long random token"
=============================================================================
