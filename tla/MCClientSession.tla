--------------------------- MODULE MCClientSession ---------------------------
(***************************************************************************)
(* ClientSession with two logins, at most two clicks on logout and one     *)
(* file server: the more the user does, the less the administrators do.    *)
(***************************************************************************)
EXTENDS ClientSession

CONSTANTS l1, l2, c1, c2, share

MCLogins == {c1, c2}
MCLogouts == {l1, l2}
MCServers == {share}

Machine(logouts) ==
  [runtime |-> TRUE, tunnel |-> None, conf |-> None, logouts |-> logouts]

\* What a crash may leave; a client whose runtime is missing.
Left == [Machine({l1}) EXCEPT !.tunnel = Earlier, !.conf = Torn]
Bare == [Machine({l1}) EXCEPT !.runtime = FALSE]

NoPeer == [state |-> "absent", key |-> NoKey]

\* A server without file servers, with one, and with a profile that delivers it.
New == [profile |-> NoProfile, servers |-> {}, code |-> "none", peer |-> NoPeer, changes |-> 0]
Sharing == [New EXCEPT !.servers = MCServers]
Delivering ==
  [Sharing EXCEPT !.profile = [state |-> "enabled", targeted |-> TRUE, vpn |-> TRUE,
                               files |-> TRUE, servers |-> MCServers]]
Managed(server, n) == [server EXCEPT !.changes = n]

MCMachines == {Machine({}), Machine({l1}), Machine(MCLogouts), Left, Bare}
MCScenarios ==
  {<<Machine(MCLogouts), New>>, <<Left, New>>, <<Bare, New>>,
   <<Machine({l1}), Managed([New EXCEPT !.peer = [state |-> "on", key |-> Elsewhere]], 1)>>,
   <<Machine({}), Managed(New, 1)>>,
   <<Machine({}), Managed(Sharing, 2)>>,
   <<Machine({}), Managed(Delivering, 1)>>,
   <<Machine({}), [Managed(Delivering, 1) EXCEPT !.code = "issued"]>>}
MCServings == { begin[2] : begin \in MCScenarios }
=============================================================================
