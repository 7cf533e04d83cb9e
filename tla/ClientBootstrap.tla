--------------------------- MODULE ClientBootstrap ---------------------------
(***************************************************************************)
(* What the server hands to a client that logs in (api.py 633-756), beside *)
(* the administrators who change what that is: accounts, deployment        *)
(* profiles and their delivery switches, file servers (api.py 241-432),    *)
(* VPN peers and devices.                                                  *)
(*                                                                         *)
(* One user, one machine and one profile; a VPN network and a server key   *)
(* are configured.  A call reads the snapshot of its transaction, commits, *)
(* and reads the file servers in a transaction after that.  Calls run in   *)
(* parallel threads, and go on when their client has given up.             *)
(*                                                                         *)
(* Left out: names, hosts, shares and routes; the interface wg0 and what   *)
(* its configuration shows (VpnControl); other profiles and other users'   *)
(* codes (Workspace).                                                      *)
(***************************************************************************)
EXTENDS Naturals, FiniteSets

CONSTANTS
  Calls,       \* calls of bootstrap_client; also names the key pair and the device row of a call
  Servers,     \* file servers
  Servings,    \* what the server may have at first
  MaxChanges,  \* bound of `changes`
  NoKey,
  Elsewhere    \* a key of another device of the user

ASSUME KeysAssumption == NoKey \notin Calls /\ Elsewhere \notin Calls \cup {NoKey}

VARIABLES
  user,        \* the account: active, active without a VPN address, suspended or deleted
  profile,     \* the row of client_deployment_profiles
  pending,     \* the update of it that an administrator's handler is about to commit
  fileServer,  \* table file_servers
  device,      \* the rows of the machine in table devices that are not revoked
  peer,        \* the row of vpn_peers for the user's address
  code,        \* the enrollment code the client was installed with, if any
  call,        \* what each call is at
  changes,     \* of administrators and other devices
  troubled     \* history: calls whose key was replaced behind their back, or disabled

tables == <<user, profile, fileServer, device, peer, code>>
bootstrap == <<user, profile, pending, fileServer, device, peer, code, call, changes, troubled>>

Profiles ==
  [state : {"absent", "enabled", "withdrawn"}, targeted : BOOLEAN,
   vpn : BOOLEAN, files : BOOLEAN, servers : SUBSET Servers]

NoProfile ==
  [state |-> "absent", targeted |-> FALSE, vpn |-> FALSE, files |-> FALSE, servers |-> {}]

\* A call: what it found, whether it hands out a VPN profile and file shares, and as history
\* the servers that were gone when it began, the calls whose transaction overlapped its own,
\* and the calls that committed since it was sent.  "lost" is an error after the commit.
CallRecords ==
  [stage : {"idle", "sent", "read", "committed", "answered", "failed", "lost"},
   found : BOOLEAN, was : {"absent", "on", "off"}, vpn : BOOLEAN, files : SUBSET Servers,
   shares : SUBSET Servers, gone : SUBSET Servers, met : SUBSET Calls, passed : SUBSET Calls]

Unsent ==
  [stage |-> "idle", found |-> FALSE, was |-> "absent", vpn |-> FALSE, files |-> {},
   shares |-> {}, gone |-> {}, met |-> {}, passed |-> {}]

ASSUME ServingsAssumption ==
  /\ MaxChanges \in Nat
  /\ \A begin \in Servings :
       /\ begin.profile \in Profiles /\ begin.code \in {"none", "issued"}
       /\ begin.servers \subseteq Servers
       /\ begin.peer \in [state : {"absent"}, key : {NoKey}]
                        \cup [state : {"on", "off"}, key : {Elsewhere}]
       /\ begin.changes \in 0 .. MaxChanges

TablesTypeOK ==
  /\ user \in {"active", "addressless", "gone"}
  /\ profile \in Profiles
  /\ pending \in Profiles
  /\ fileServer \in [Servers -> {"absent", "enabled", "disabled"}]
  /\ device \subseteq Calls
  /\ peer \in [state : {"absent"}, key : {NoKey}]
             \cup [state : {"on", "off"}, key : Calls \cup {Elsewhere}]
  /\ code \in {"none", "issued", "used", "expired"}
  /\ call \in [Calls -> CallRecords]
  /\ changes \in 0 .. MaxChanges
  /\ troubled \subseteq Calls

Serves(begin) ==
  /\ profile = begin.profile /\ peer = begin.peer /\ code = begin.code
  /\ fileServer = [s \in Servers |-> IF s \in begin.servers THEN "enabled" ELSE "absent"]
  /\ changes = MaxChanges - begin.changes

BootstrapInit ==
  /\ \E begin \in Servings : Serves(begin)
  /\ user = "active"
  /\ pending = NoProfile
  /\ device = {}
  /\ call = [c \in Calls |-> Unsent]
  /\ troubled = {}

Enabled == { s \in Servers : fileServer[s] = "enabled" }

Assigned == profile.state = "enabled" /\ profile.targeted

Coded == code # "none"

\* The transactions that are open.
Open == { c \in Calls : call[c].stage = "read" }

----------------------------------------------------------------------------
(* bootstrap_client().                                                     *)

Send(c) ==
  /\ call[c].stage = "idle"
  /\ call' = [call EXCEPT ![c].stage = "sent"]
  /\ UNCHANGED <<tables, pending, changes, troubled>>

\* 403, 409 and 410.
Refused == user = "gone" \/ (Coded /\ (code = "expired" \/ ~ Assigned))

\* Everything the call decides is decided on its snapshot; a code delivers all there is.
Snapshot(c) ==
  [call[c] EXCEPT
     !.stage = "read", !.found = (device # {}), !.was = peer.state,
     !.vpn = (user = "active" /\ (Assigned /\ ~ Coded => profile.vpn)),
     !.files = IF Assigned /\ (Coded \/ profile.files) THEN profile.servers ELSE {},
     !.gone = { s \in Servers : fileServer[s] = "disabled" },
     !.met = Open]

\* The open call d meets c.
Joined(c, d) == [call[d] EXCEPT !.met = IF d \in Open THEN @ \cup {c} ELSE @]

\* Mutation: a device is registered at every login.
ReadBlind(c) ==
  /\ call[c].stage = "sent" /\ ~ Refused
  /\ call' = [d \in Calls |->
       IF d = c THEN [Snapshot(c) EXCEPT !.found = FALSE] ELSE Joined(c, d)]
  /\ UNCHANGED <<tables, pending, changes, troubled>>

Read(c) ==
  /\ call[c].stage = "sent" /\ ~ Refused
  /\ call' = [d \in Calls |-> IF d = c THEN Snapshot(c) ELSE Joined(c, d)]
  /\ UNCHANGED <<tables, pending, changes, troubled>>

\* Mutation: a peer that was revoked keeps its state.
RotatedRevoked(c) == [state |-> IF call[c].was = "absent" THEN "on" ELSE peer.state, key |-> c]

\* The row of the peer under the INSERT, or the UPDATE of the columns that differ from the
\* snapshot.
Rotated(c) == [state |-> IF call[c].was = "on" THEN peer.state ELSE "on", key |-> c]

\* flush, sync_vpn and commit.  The peer's address is unique; nothing makes a device so.
Commit(c) ==
  /\ call[c].stage = "read"
  /\ call[c].vpn /\ call[c].was = "absent" => peer.state = "absent"
  /\ device' = IF call[c].found THEN device ELSE device \cup {c}
  /\ peer' = IF call[c].vpn THEN Rotated(c) ELSE peer
  /\ code' = IF Coded THEN "used" ELSE code
  /\ call' = [d \in Calls |->
       IF d = c THEN [call[c] EXCEPT !.stage = "committed"]
       ELSE [call[d] EXCEPT
               !.passed = IF call[d].stage \in {"sent", "read"} THEN @ \cup {c} ELSE @]]
  /\ troubled' = IF call[c].vpn THEN troubled \cup call[c].passed ELSE troubled
  /\ UNCHANGED <<user, profile, fileServer, pending, changes>>

\* Mutation: the servers of the profile as they are listed.
AnswerUnfiltered(c) ==
  /\ call[c].stage = "committed"
  /\ call' = [call EXCEPT ![c].stage = "answered", ![c].shares = call[c].files]
  /\ UNCHANGED <<tables, pending, changes, troubled>>

\* The file servers are read after the commit, by the list of the snapshot.
Answer(c) ==
  /\ call[c].stage = "committed"
  /\ call' = [call EXCEPT ![c].stage = "answered", ![c].shares = call[c].files \cap Enabled]
  /\ UNCHANGED <<tables, pending, changes, troubled>>

\* An error: a refusal, a constraint, wg-quick, the database; after the commit it keeps the
\* new key from everyone.
FailCall(c) ==
  /\ call[c].stage \in {"sent", "read", "committed"}
  /\ call' = [call EXCEPT ![c].stage = IF @ = "committed" THEN "lost" ELSE "failed"]
  /\ UNCHANGED <<tables, pending, changes, troubled>>

CallStep(c) == Read(c) \/ Commit(c) \/ Answer(c) \/ FailCall(c)

----------------------------------------------------------------------------
(* Administrators and other devices.                                       *)

Counted == changes < MaxChanges /\ changes' = changes + 1

\* update_user() and create_user(): status and VPN address.
ChangeUser(state) ==
  /\ Counted
  /\ user # state /\ user' = state
  /\ UNCHANGED <<profile, fileServer, device, peer, code, pending, call, troubled>>

\* delete_user(): an enabled profile loses the user, and is disabled without other targets.
\* Devices and peers stay.
DeleteUser ==
  /\ Counted
  /\ user # "gone" /\ user' = "gone"
  /\ \/ profile' = [profile EXCEPT !.targeted = FALSE]
     \/ Assigned /\ profile' = [profile EXCEPT !.targeted = FALSE, !.state = "withdrawn"]
  /\ UNCHANGED <<fileServer, device, peer, code, pending, call, troubled>>

\* create_ and update_client_deployment() up to the flush: the targets are active accounts,
\* the servers enabled, and an update needs an enabled profile.
ReadProfile(p) ==
  /\ Counted
  /\ pending = NoProfile
  /\ profile.state # "withdrawn" /\ p.state = "enabled"
  /\ p.targeted => user # "gone"
  /\ p.servers # {} /\ p.servers \subseteq Enabled
  /\ pending' = p
  /\ UNCHANGED <<tables, call, troubled>>

\* The row is inserted, or its columns are changed; a withdrawal in between stands.
WriteProfile ==
  /\ pending # NoProfile
  /\ profile' = [pending EXCEPT
                    !.state = IF profile.state = "withdrawn" THEN "withdrawn" ELSE "enabled"]
  /\ pending' = NoProfile
  /\ UNCHANGED <<user, fileServer, device, peer, code, call, changes, troubled>>

\* delete_client_deployment().
WithdrawProfile ==
  /\ Counted
  /\ profile.state = "enabled"
  /\ profile' = [profile EXCEPT !.state = "withdrawn"]
  /\ UNCHANGED <<user, fileServer, device, peer, code, pending, call, troubled>>

CreateServer(s) ==
  /\ Counted
  /\ fileServer[s] = "absent"
  /\ fileServer' = [fileServer EXCEPT ![s] = "enabled"]
  /\ UNCHANGED <<user, profile, device, peer, code, pending, call, troubled>>

\* Mutation: the row is marked deleted, as delete_user() marks an account.
DisableServerAsDeleted(s) ==
  /\ Counted
  /\ fileServer[s] = "enabled"
  /\ fileServer' = [fileServer EXCEPT ![s] = "deleted"]
  /\ UNCHANGED <<user, profile, device, peer, code, pending, call, troubled>>

\* delete_file_server(): the profiles that list the server keep it.
DisableServer(s) ==
  /\ Counted
  /\ fileServer[s] = "enabled"
  /\ fileServer' = [fileServer EXCEPT ![s] = "disabled"]
  /\ UNCHANGED <<user, profile, device, peer, code, pending, call, troubled>>

RevokeDevice(d) ==
  /\ Counted
  /\ d \in device
  /\ device' = device \ {d}
  /\ UNCHANGED <<user, profile, fileServer, peer, code, pending, call, troubled>>

\* revoke_vpn_peer(), also under a call that has found the peer enabled.
RevokePeer ==
  /\ Counted
  /\ peer.state = "on"
  /\ peer' = [peer EXCEPT !.state = "off"]
  /\ troubled' = troubled \cup { c \in Open : call[c].was = "on" } \cup ({peer.key} \cap Calls)
  /\ UNCHANGED <<user, profile, fileServer, device, code, pending, call>>

\* The user logs in on another machine, which takes over the address.
EnrollElsewhere ==
  /\ Counted
  /\ user = "active"
  /\ peer' = [state |-> "on", key |-> Elsewhere]
  /\ troubled' = troubled \cup ({peer.key} \cap Calls)
  /\ UNCHANGED <<user, profile, fileServer, device, code, pending, call>>

ExpireCode ==
  /\ code = "issued"
  /\ code' = "expired"
  /\ UNCHANGED <<user, profile, fileServer, device, peer, pending, call, changes, troubled>>

Manage ==
  \/ \E state \in {"active", "addressless", "gone"} : ChangeUser(state)
  \/ DeleteUser
  \/ \E p \in Profiles : ReadProfile(p)
  \/ WriteProfile \/ WithdrawProfile
  \/ \E s \in Servers : CreateServer(s) \/ DisableServer(s)
  \/ \E d \in Calls : RevokeDevice(d)
  \/ RevokePeer \/ EnrollElsewhere \/ ExpireCode

BootstrapNext == Manage \/ \E c \in Calls : Send(c) \/ CallStep(c)

BootstrapSpec == BootstrapInit /\ [][BootstrapNext]_bootstrap

----------------------------------------------------------------------------
(* Properties.                                                             *)

\* No call hands out a share of a file server that was disabled before the call began,
\* although profiles keep naming it and may be changed meanwhile (api.py 740-744).
DisabledServersStayHidden == \A c \in Calls : call[c].shares \cap call[c].gone = {}

\* A machine has two devices only if the calls that registered them overlapped
\* (api.py 649-657).
DevicesAreOne ==
  \A c, d \in device : c # d => d \in call[c].met \/ c \in call[d].met
=============================================================================
