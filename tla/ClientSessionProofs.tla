------------------------- MODULE ClientSessionProofs -------------------------
(***************************************************************************)
(* Proofs about ClientSession, for every set of logins, servers and        *)
(* changes: it implements both of its parts, bootstrap_client keeps its    *)
(* promises whatever administrators do meanwhile, and a tunnel that has    *)
(* not outlived its session is one the server serves.                      *)
(***************************************************************************)
EXTENDS ClientSession, WindowsClientProofs

Committed == {"committed", "answered", "lost"}

\* A call whose snapshot has a peer finds one when it commits.
Snapshots == \A c \in Open : call[c].was # "absent" => peer.state # "absent"

\* A disabled server is never enabled again, and answers are filtered by what is enabled.
Shares ==
  /\ \A c \in Calls : call[c].stage # "answered" => call[c].shares = {}
  /\ \A c \in Calls : \A s \in call[c].gone : fileServer[s] = "disabled"
  /\ DisabledServersStayHidden

\* Who registers a device, or is about to, overlaps every other one.
Overlaps(c, d) == d \in call[c].met \/ c \in call[d].met

Registrations ==
  /\ \A c \in device : call[c].stage \in Committed
  /\ \A c, d \in Open : c # d => Overlaps(c, d)
  /\ \A c \in Open : ~ call[c].found => \A d \in device : Overlaps(c, d)
  /\ DevicesAreOne

\* What a call that is not troubled relies on.
Trust ==
  \A c \in Open : call[c].was = "on" /\ c \notin troubled => peer.state = "on"

BootstrapInv == TablesTypeOK /\ Snapshots /\ Shares /\ Registrations /\ Trust
LEMMA BootstrapStarts == BootstrapInit => BootstrapInv
<1> SUFFICES ASSUME BootstrapInit PROVE BootstrapInv
  OBVIOUS
<1> USE KeysAssumption, ServingsAssumption DEF BootstrapInit, Serves, Unsent
<1>1. TablesTypeOK
  <2>1. peer.state # "absent" => peer.key = Elsewhere
    OBVIOUS
  <2>2. NoProfile \in Profiles
    BY DEF NoProfile, Profiles
  <2>3. Unsent \in CallRecords
    BY DEF CallRecords
  <2> QED
    BY <2>1, <2>2, <2>3 DEF TablesTypeOK
<1>2. Open = {}
  BY DEF Open
<1>3. Snapshots /\ Trust
  BY <1>2 DEF Snapshots, Trust
<1>4. Shares
  BY DEF Shares, DisabledServersStayHidden
<1>5. Registrations
  BY <1>2 DEF Registrations, DevicesAreOne
<1> QED
  BY <1>1, <1>3, <1>4, <1>5 DEF BootstrapInv

LEMMA SendKept ==
  ASSUME BootstrapInv, NEW c \in Calls, Send(c) PROVE BootstrapInv'
<1> USE KeysAssumption, ServingsAssumption
    DEF BootstrapInv, tables, Send
<1>1. TablesTypeOK'
  <2>1. call' \in [Calls -> CallRecords]
    BY DEF TablesTypeOK, CallRecords
  <2> QED
    BY <2>1 DEF TablesTypeOK
<1>2. Snapshots' /\ Trust'
  BY DEF Snapshots, Trust, Open, TablesTypeOK, CallRecords
<1>3. Shares'
  BY DEF Shares, DisabledServersStayHidden, TablesTypeOK, CallRecords
<1>4. Registrations'
  BY DEF Registrations, DevicesAreOne, Overlaps, Open, Committed, TablesTypeOK, CallRecords
<1> QED
  BY <1>1, <1>2, <1>3, <1>4

LEMMA ReadKept ==
  ASSUME BootstrapInv, NEW c \in Calls, Read(c) PROVE BootstrapInv'
<1> USE DEF BootstrapInv, tables
<1>1. Open \subseteq Calls /\ call[c].stage = "sent" /\ \A d \in Calls : call[d] \in CallRecords
  BY DEF Read, Open, TablesTypeOK
<1>2. /\ Snapshot(c) \in CallRecords
      /\ Snapshot(c).stage = "read" /\ Snapshot(c).found = (device # {})
      /\ Snapshot(c).was = peer.state
      /\ Snapshot(c).gone = { s \in Servers : fileServer[s] = "disabled" }
      /\ Snapshot(c).shares = call[c].shares /\ Snapshot(c).met = Open
  <2>1. /\ peer.state \in {"absent", "on", "off"} /\ profile.servers \subseteq Servers
        /\ (user = "active" /\ (Assigned /\ ~ Coded => profile.vpn)) \in BOOLEAN
        /\ (device # {}) \in BOOLEAN
    BY DEF TablesTypeOK, Profiles
  <2> DEFINE vpn == user = "active" /\ (Assigned /\ ~ Coded => profile.vpn)
             files == IF Assigned /\ (Coded \/ profile.files) THEN profile.servers ELSE {}
             gone == { s \in Servers : fileServer[s] = "disabled" }
             found == device # {}
  <2>2. files \subseteq Servers /\ gone \subseteq Servers
    BY <2>1
  <2>3. Snapshot(c) = [call[c] EXCEPT !.stage = "read", !.found = found, !.was = peer.state,
                         !.vpn = vpn, !.files = files, !.gone = gone, !.met = Open]
    BY DEF Snapshot
  <2>4. vpn \in BOOLEAN /\ found \in BOOLEAN
    BY <2>1
  <2> HIDE DEF vpn, files, gone, found
  <2>5. /\ call[c] \in CallRecords /\ peer.state \in {"absent", "on", "off"}
        /\ files \in SUBSET Servers /\ gone \in SUBSET Servers /\ Open \in SUBSET Calls
    BY <1>1, <2>1, <2>2
  <2> DEFINE r == [stage |-> "read", found |-> found, was |-> peer.state, vpn |-> vpn,
                   files |-> files, shares |-> call[c].shares, gone |-> gone, met |-> Open,
                   passed |-> call[c].passed]
  <2>6. Snapshot(c) = r
    BY <2>3, <2>5 DEF CallRecords
  <2>7. call[c].shares \in SUBSET Servers /\ call[c].passed \in SUBSET Calls
    BY <2>5 DEF CallRecords
  <2>8. r \in CallRecords
    BY <2>4, <2>5, <2>7 DEF CallRecords
  <2> QED
    BY <2>6, <2>8 DEF found, gone
<1>3. ASSUME NEW d \in Calls
      PROVE  /\ Joined(c, d) \in CallRecords
             /\ Joined(c, d).stage = call[d].stage /\ Joined(c, d).found = call[d].found
             /\ Joined(c, d).was = call[d].was /\ Joined(c, d).gone = call[d].gone
             /\ Joined(c, d).shares = call[d].shares
             /\ Joined(c, d).met = IF d \in Open THEN call[d].met \cup {c} ELSE call[d].met
  BY <1>1 DEF Joined, CallRecords
<1>4. call'[c] = Snapshot(c) /\ \A d \in Calls \ {c} : call'[d] = Joined(c, d)
  BY DEF Read
<1>5. call' \in [Calls -> CallRecords]
  BY <1>2, <1>3 DEF Read
<1>6. TablesTypeOK'
  BY <1>5 DEF TablesTypeOK, Read
<1>7. /\ call'[c].stage = "read"
      /\ call'[c].found = (device # {}) /\ call'[c].was = peer.state
      /\ call'[c].gone = { s \in Servers : fileServer[s] = "disabled" }
      /\ call'[c].shares = call[c].shares /\ call'[c].met = Open
  BY <1>2, <1>4
<1>8. ASSUME NEW d \in Calls, d # c
      PROVE  /\ call'[d].stage = call[d].stage /\ call'[d].found = call[d].found
             /\ call'[d].was = call[d].was /\ call'[d].gone = call[d].gone
             /\ call'[d].shares = call[d].shares
             /\ call'[d].met = IF d \in Open THEN call[d].met \cup {c} ELSE call[d].met
  BY <1>3, <1>4, <1>8
<1>9. Open' = Open \cup {c} /\ UNCHANGED <<peer, troubled, device, fileServer>>
  <2>1. UNCHANGED <<peer, troubled, device, fileServer>>
    BY DEF Read
  <2>2. ASSUME NEW d \in Calls PROVE d \in Open' <=> d \in Open \cup {c}
    BY <1>7, <1>8 DEF Open
  <2>3. Open' \subseteq Calls
    BY DEF Open
  <2> QED
    BY <1>1, <2>1, <2>2, <2>3
<1>10. Snapshots' /\ Trust'
  BY <1>7, <1>8, <1>9 DEF Snapshots, Trust, Open
<1>11. Shares'
  <2>1. \A d \in Calls : \A s \in call'[d].gone : fileServer'[s] = "disabled"
    BY <1>7, <1>8, <1>9 DEF Shares
  <2>2. call'[c].shares \cap call'[c].gone = {}
    <3>1. call[c].shares = {}
      BY <1>1 DEF Shares
    <3> QED
      BY <1>7, <3>1
  <2> QED
    <3>1. \A d \in Calls \ {c} : call'[d].shares \cap call'[d].gone = {}
      BY <1>8 DEF Shares, DisabledServersStayHidden
    <3> QED
      BY <3>1, <2>1, <2>2, <1>1, <1>7, <1>8 DEF Shares, DisabledServersStayHidden
<1>12. Registrations'
  <2>1. \A d \in device : d \in Calls /\ d # c
    BY <1>1 DEF Registrations, Committed, TablesTypeOK
  <2>2. \A d, e \in Calls : Overlaps(d, e) /\ d # c /\ e # c => Overlaps(d, e)'
    BY <1>8 DEF Overlaps
  <2>3. \A d \in Open : Overlaps(c, d)' /\ Overlaps(d, c)'
    BY <1>7 DEF Overlaps
  <2>4. Open \subseteq Calls /\ c \notin Open
    BY <1>1 DEF Open
  <2>5. \A d \in device' : call'[d].stage \in Committed
    BY <1>8, <1>9, <2>1 DEF Registrations
  <2>6. \A d, e \in Open' : d # e => Overlaps(d, e)'
    BY <1>9, <2>2, <2>3, <2>4 DEF Registrations
  <2>7. \A d \in Open' : ~ call'[d].found => \A e \in device' : Overlaps(d, e)'
    BY <1>7, <1>8, <1>9, <2>1, <2>2, <2>4 DEF Registrations
  <2>8. DevicesAreOne'
    BY <1>9, <2>1, <2>2 DEF Registrations, DevicesAreOne, Overlaps
  <2> QED
    BY <2>5, <2>6, <2>7, <2>8 DEF Registrations
<1> QED
  BY <1>6, <1>10, <1>11, <1>12

LEMMA CommittedRecord ==
  ASSUME NEW record \in CallRecords PROVE [record EXCEPT !.stage = "committed"] \in CallRecords
BY DEF CallRecords

LEMMA PassedRecord ==
  ASSUME NEW record \in CallRecords, NEW c \in Calls
  PROVE  [record EXCEPT !.passed = @ \cup {c}] \in CallRecords
BY DEF CallRecords

LEMMA CommitKept ==
  ASSUME BootstrapInv, NEW c \in Calls, Commit(c) PROVE BootstrapInv'
<1> USE KeysAssumption, ServingsAssumption
    DEF BootstrapInv, tables, Commit, Rotated
<1>1. TablesTypeOK'
  <2>1. call' \in [Calls -> CallRecords]
    <3>1. call \in [Calls -> CallRecords]
      BY DEF TablesTypeOK
    <3>2. ASSUME NEW d \in Calls
          PROVE  /\ [call[c] EXCEPT !.stage = "committed"] \in CallRecords
                 /\ [call[d] EXCEPT !.passed = @ \cup {c}] \in CallRecords
      <4>1. call[c] \in CallRecords /\ call[d] \in CallRecords
        BY <3>1
      <4> QED
        BY <4>1, CommittedRecord, PassedRecord
    <3>3. call' = [d \in Calls |->
            IF d = c THEN [call[c] EXCEPT !.stage = "committed"]
            ELSE IF call[d].stage \in {"sent", "read"}
                 THEN [call[d] EXCEPT !.passed = @ \cup {c}] ELSE call[d]]
      <4>1. ASSUME NEW d \in Calls, call[d].stage \notin {"sent", "read"}
            PROVE [call[d] EXCEPT !.passed = call[d].passed] = call[d]
        BY <3>1 DEF CallRecords
      <4> QED
        BY <4>1
    <3> QED
      BY <3>1, <3>2, <3>3
  <2>2. peer' \in [state : {"absent"}, key : {NoKey}]
                  \cup [state : {"on", "off"}, key : Calls \cup {Elsewhere}]
    BY DEF TablesTypeOK, Snapshots, Open
  <2>3. /\ device' \subseteq Calls /\ code' \in {"none", "issued", "used", "expired"}
        /\ troubled' \subseteq Calls
    BY DEF TablesTypeOK, CallRecords
  <2> QED
    BY <2>1, <2>2, <2>3 DEF TablesTypeOK
<1>2. Snapshots' /\ Trust'
  BY DEF Snapshots, Trust, Open, TablesTypeOK, CallRecords
<1>3. Shares'
  BY DEF Shares, DisabledServersStayHidden, TablesTypeOK, CallRecords
<1>4. Registrations'
  BY DEF Registrations, DevicesAreOne, Overlaps, Open, Committed, TablesTypeOK, CallRecords
<1> QED
  BY <1>1, <1>2, <1>3, <1>4

LEMMA AnswerKept ==
  ASSUME BootstrapInv, NEW c \in Calls, Answer(c) PROVE BootstrapInv'
<1> USE KeysAssumption, ServingsAssumption
    DEF BootstrapInv, tables, Answer, Enabled
<1>1. TablesTypeOK'
  <2>1. call' \in [Calls -> CallRecords]
    <3> DEFINE shares == call[c].files \cap Enabled
               r == [call[c] EXCEPT !.stage = "answered", !.shares = shares]
    <3>1. shares \subseteq Servers
      BY DEF Enabled
    <3>2. call \in [Calls -> CallRecords]
      BY DEF TablesTypeOK
    <3>3. call' = [call EXCEPT ![c] = r]
      BY <3>2
    <3> HIDE DEF shares
    <3>4. r \in CallRecords
      BY <3>1, <3>2 DEF CallRecords
    <3> HIDE DEF r
    <3> QED
      BY <3>2, <3>3, <3>4, Zenon
  <2> QED
    BY <2>1 DEF TablesTypeOK
<1>2. Snapshots' /\ Trust'
  BY DEF Snapshots, Trust, Open, TablesTypeOK, CallRecords
<1>3. Shares'
  BY DEF Shares, DisabledServersStayHidden, TablesTypeOK, CallRecords
<1>4. Registrations'
  BY DEF Registrations, DevicesAreOne, Overlaps, Open, Committed, TablesTypeOK, CallRecords
<1> QED
  BY <1>1, <1>2, <1>3, <1>4

LEMMA FailCallKept ==
  ASSUME BootstrapInv, NEW c \in Calls, FailCall(c) PROVE BootstrapInv'
<1> USE KeysAssumption, ServingsAssumption
    DEF BootstrapInv, tables, FailCall
<1>1. TablesTypeOK'
  BY DEF TablesTypeOK, CallRecords, Profiles, NoProfile, Snapshots, Open
<1>2. Snapshots' /\ Trust'
  BY DEF Snapshots, Trust, Open, TablesTypeOK, CallRecords
<1>3. Shares'
  BY DEF Shares, DisabledServersStayHidden, TablesTypeOK, CallRecords
<1>4. Registrations'
  BY DEF Registrations, DevicesAreOne, Overlaps, Open, Committed, TablesTypeOK, CallRecords
<1> QED
  BY <1>1, <1>2, <1>3, <1>4

LEMMA ChangeUserKept ==
  ASSUME BootstrapInv, NEW state \in {"active", "addressless", "gone"}, ChangeUser(state)
  PROVE  BootstrapInv'
<1> USE KeysAssumption, ServingsAssumption
    DEF BootstrapInv, tables, ChangeUser, Counted
<1>1. TablesTypeOK'
  BY DEF TablesTypeOK, CallRecords, Profiles, NoProfile, Snapshots, Open
<1>2. Snapshots' /\ Trust'
  BY DEF Snapshots, Trust, Open, TablesTypeOK, CallRecords
<1>3. Shares'
  BY DEF Shares, DisabledServersStayHidden, TablesTypeOK, CallRecords
<1>4. Registrations'
  BY DEF Registrations, DevicesAreOne, Overlaps, Open, Committed, TablesTypeOK, CallRecords
<1> QED
  BY <1>1, <1>2, <1>3, <1>4

LEMMA DeleteUserKept ==
  ASSUME BootstrapInv, DeleteUser PROVE BootstrapInv'
<1> USE KeysAssumption, ServingsAssumption
    DEF BootstrapInv, tables, DeleteUser, Counted
<1>1. TablesTypeOK'
  <2>1. profile' \in Profiles
    BY DEF TablesTypeOK, Profiles
  <2> QED
    BY <2>1 DEF TablesTypeOK
<1>2. Snapshots' /\ Trust'
  BY DEF Snapshots, Trust, Open, TablesTypeOK, CallRecords
<1>3. Shares'
  BY DEF Shares, DisabledServersStayHidden, TablesTypeOK, CallRecords
<1>4. Registrations'
  BY DEF Registrations, DevicesAreOne, Overlaps, Open, Committed, TablesTypeOK, CallRecords
<1> QED
  BY <1>1, <1>2, <1>3, <1>4

LEMMA ReadProfileKept ==
  ASSUME BootstrapInv, NEW p \in Profiles, ReadProfile(p) PROVE BootstrapInv'
<1> USE KeysAssumption, ServingsAssumption
    DEF BootstrapInv, tables, ReadProfile, Counted
<1>1. TablesTypeOK'
  BY DEF TablesTypeOK, CallRecords, Profiles, NoProfile, Snapshots, Open
<1>2. Snapshots' /\ Trust'
  BY DEF Snapshots, Trust, Open, TablesTypeOK, CallRecords
<1>3. Shares'
  BY DEF Shares, DisabledServersStayHidden, TablesTypeOK, CallRecords
<1>4. Registrations'
  BY DEF Registrations, DevicesAreOne, Overlaps, Open, Committed, TablesTypeOK, CallRecords
<1> QED
  BY <1>1, <1>2, <1>3, <1>4

LEMMA WriteProfileKept ==
  ASSUME BootstrapInv, WriteProfile PROVE BootstrapInv'
<1> USE KeysAssumption, ServingsAssumption
    DEF BootstrapInv, tables, WriteProfile
<1>1. TablesTypeOK'
  BY DEF TablesTypeOK, CallRecords, Profiles, NoProfile, Snapshots, Open
<1>2. Snapshots' /\ Trust'
  BY DEF Snapshots, Trust, Open, TablesTypeOK, CallRecords
<1>3. Shares'
  BY DEF Shares, DisabledServersStayHidden, TablesTypeOK, CallRecords
<1>4. Registrations'
  BY DEF Registrations, DevicesAreOne, Overlaps, Open, Committed, TablesTypeOK, CallRecords
<1> QED
  BY <1>1, <1>2, <1>3, <1>4

LEMMA WithdrawProfileKept ==
  ASSUME BootstrapInv, WithdrawProfile PROVE BootstrapInv'
<1> USE KeysAssumption, ServingsAssumption
    DEF BootstrapInv, tables, WithdrawProfile, Counted
<1>1. TablesTypeOK'
  BY DEF TablesTypeOK, CallRecords, Profiles, NoProfile, Snapshots, Open
<1>2. Snapshots' /\ Trust'
  BY DEF Snapshots, Trust, Open, TablesTypeOK, CallRecords
<1>3. Shares'
  BY DEF Shares, DisabledServersStayHidden, TablesTypeOK, CallRecords
<1>4. Registrations'
  BY DEF Registrations, DevicesAreOne, Overlaps, Open, Committed, TablesTypeOK, CallRecords
<1> QED
  BY <1>1, <1>2, <1>3, <1>4

LEMMA CreateServerKept ==
  ASSUME BootstrapInv, NEW s \in Servers, CreateServer(s) PROVE BootstrapInv'
<1> USE KeysAssumption, ServingsAssumption
    DEF BootstrapInv, tables, CreateServer, Counted
<1>1. TablesTypeOK'
  BY DEF TablesTypeOK, CallRecords, Profiles, NoProfile, Snapshots, Open
<1>2. Snapshots' /\ Trust'
  BY DEF Snapshots, Trust, Open, TablesTypeOK, CallRecords
<1>3. Shares'
  BY DEF Shares, DisabledServersStayHidden, TablesTypeOK, CallRecords
<1>4. Registrations'
  BY DEF Registrations, DevicesAreOne, Overlaps, Open, Committed, TablesTypeOK, CallRecords
<1> QED
  BY <1>1, <1>2, <1>3, <1>4

LEMMA DisableServerKept ==
  ASSUME BootstrapInv, NEW s \in Servers, DisableServer(s) PROVE BootstrapInv'
<1> USE KeysAssumption, ServingsAssumption
    DEF BootstrapInv, tables, DisableServer, Counted
<1>1. TablesTypeOK'
  BY DEF TablesTypeOK, CallRecords, Profiles, NoProfile, Snapshots, Open
<1>2. Snapshots' /\ Trust'
  BY DEF Snapshots, Trust, Open, TablesTypeOK, CallRecords
<1>3. Shares'
  BY DEF Shares, DisabledServersStayHidden, TablesTypeOK, CallRecords
<1>4. Registrations'
  BY DEF Registrations, DevicesAreOne, Overlaps, Open, Committed, TablesTypeOK, CallRecords
<1> QED
  BY <1>1, <1>2, <1>3, <1>4

LEMMA RevokeDeviceKept ==
  ASSUME BootstrapInv, NEW d \in Calls, RevokeDevice(d) PROVE BootstrapInv'
<1> USE KeysAssumption, ServingsAssumption
    DEF BootstrapInv, tables, RevokeDevice, Counted
<1>1. TablesTypeOK'
  BY DEF TablesTypeOK, CallRecords, Profiles, NoProfile, Snapshots, Open
<1>2. Snapshots' /\ Trust'
  BY DEF Snapshots, Trust, Open, TablesTypeOK, CallRecords
<1>3. Shares'
  BY DEF Shares, DisabledServersStayHidden, TablesTypeOK, CallRecords
<1>4. Registrations'
  BY DEF Registrations, DevicesAreOne, Overlaps, Open, Committed, TablesTypeOK, CallRecords
<1> QED
  BY <1>1, <1>2, <1>3, <1>4

LEMMA RevokePeerKept ==
  ASSUME BootstrapInv, RevokePeer PROVE BootstrapInv'
<1> USE KeysAssumption, ServingsAssumption
    DEF BootstrapInv, tables, RevokePeer, Counted
<1>1. TablesTypeOK'
  BY DEF TablesTypeOK, CallRecords, Profiles, NoProfile, Snapshots, Open
<1>2. Snapshots' /\ Trust'
  BY DEF Snapshots, Trust, Open, TablesTypeOK, CallRecords
<1>3. Shares'
  BY DEF Shares, DisabledServersStayHidden, TablesTypeOK, CallRecords
<1>4. Registrations'
  BY DEF Registrations, DevicesAreOne, Overlaps, Open, Committed, TablesTypeOK, CallRecords
<1> QED
  BY <1>1, <1>2, <1>3, <1>4

LEMMA EnrollElsewhereKept ==
  ASSUME BootstrapInv, EnrollElsewhere PROVE BootstrapInv'
<1> USE KeysAssumption, ServingsAssumption
    DEF BootstrapInv, tables, EnrollElsewhere, Counted
<1>1. TablesTypeOK'
  BY DEF TablesTypeOK, CallRecords, Profiles, NoProfile, Snapshots, Open
<1>2. Snapshots' /\ Trust'
  BY DEF Snapshots, Trust, Open, TablesTypeOK, CallRecords
<1>3. Shares'
  BY DEF Shares, DisabledServersStayHidden, TablesTypeOK, CallRecords
<1>4. Registrations'
  BY DEF Registrations, DevicesAreOne, Overlaps, Open, Committed, TablesTypeOK, CallRecords
<1> QED
  BY <1>1, <1>2, <1>3, <1>4

LEMMA ExpireCodeKept ==
  ASSUME BootstrapInv, ExpireCode PROVE BootstrapInv'
<1> USE KeysAssumption, ServingsAssumption
    DEF BootstrapInv, tables, ExpireCode
<1>1. TablesTypeOK'
  BY DEF TablesTypeOK, CallRecords, Profiles, NoProfile, Snapshots, Open
<1>2. Snapshots' /\ Trust'
  BY DEF Snapshots, Trust, Open, TablesTypeOK, CallRecords
<1>3. Shares'
  BY DEF Shares, DisabledServersStayHidden, TablesTypeOK, CallRecords
<1>4. Registrations'
  BY DEF Registrations, DevicesAreOne, Overlaps, Open, Committed, TablesTypeOK, CallRecords
<1> QED
  BY <1>1, <1>2, <1>3, <1>4

LEMMA ManageKeeps == ASSUME BootstrapInv, Manage PROVE BootstrapInv'
BY ChangeUserKept, DeleteUserKept, ReadProfileKept, WriteProfileKept, WithdrawProfileKept,
   CreateServerKept, DisableServerKept, RevokeDeviceKept, RevokePeerKept, EnrollElsewhereKept,
   ExpireCodeKept DEF Manage

LEMMA CallsKeep == ASSUME BootstrapInv, NEW c \in Calls, CallStep(c) PROVE BootstrapInv'
BY ReadKept, CommitKept, AnswerKept, FailCallKept DEF CallStep

LEMMA UnchangedKeeps == ASSUME BootstrapInv, UNCHANGED bootstrap PROVE BootstrapInv'
BY DEF BootstrapInv, TablesTypeOK, Snapshots, Shares, DisabledServersStayHidden, Registrations,
       DevicesAreOne, Overlaps, Trust, Open, bootstrap

LEMMA BootstrapKeeps == ASSUME BootstrapInv, [BootstrapNext]_bootstrap PROVE BootstrapInv'
BY ManageKeeps, CallsKeep, SendKept, UnchangedKeeps DEF BootstrapNext

\* bootstrap_client gives out no share of a server that was disabled before, and registers a
\* second device only for calls that overlap, whatever clients and administrators do.
THEOREM BootstrapIsSound == BootstrapSpec => [](DisabledServersStayHidden /\ DevicesAreOne)
<1>1. BootstrapInit => BootstrapInv
  BY BootstrapStarts
<1>2. BootstrapInv /\ [BootstrapNext]_bootstrap => BootstrapInv'
  BY BootstrapKeeps
<1>3. BootstrapInv => DisabledServersStayHidden /\ DevicesAreOne
  BY DEF BootstrapInv, Shares, Registrations
<1> QED
  BY <1>1, <1>2, <1>3, PTL DEF BootstrapSpec

----------------------------------------------------------------------------
(* The composition implements its parts.                                   *)

LEMMA LoginIsClients == ASSUME Login PROVE [ClientNext]_client
<1>1. CASE SignIn
  BY <1>1 DEF SignIn, LoginStep, ClientNext
<1>2. CASE Enter
  BY <1>2 DEF Enter, LoginStep, ClientNext
<1>3. CASE Receive
  <2>1. ASSUME NEW result \in Outcomes \ {"pending"}, BootstrapEnds(result) PROVE ClientNext
    BY <2>1 DEF ClientNext
  <2> QED
    BY <1>3, <2>1 DEF Receive, Outcomes
<1>4. CASE Connect
  BY <1>4 DEF Connect, LoginStep, ClientNext
<1> QED
  BY <1>1, <1>2, <1>3, <1>4 DEF Login

LEMMA NextIsClients == [Next]_vars => [ClientNext]_client
<1> SUFFICES ASSUME [Next]_vars PROVE [ClientNext]_client
  OBVIOUS
<1>1. CASE User
  BY <1>1 DEF User, ClientNext
<1>2. CASE Login
  BY <1>2, LoginIsClients
<1>3. CASE CloseGoesOn
  BY <1>3 DEF CloseGoesOn, ClientNext
<1>4. CASE Server
  BY <1>4 DEF Server
<1>5. ASSUME NEW l \in Logouts, LogoutGoesOn(l) PROVE [ClientNext]_client
  BY <1>5 DEF LogoutGoesOn, ClientNext
<1>6. CASE UNCHANGED vars
  BY <1>6 DEF vars, client
<1> QED
  BY <1>1, <1>2, <1>3, <1>4, <1>5, <1>6 DEF Next

LEMMA NextIsBootstraps == ASSUME ClientInv, [Next]_vars PROVE [BootstrapNext]_bootstrap
<1> USE SessionAssumption
<1>1. CASE User
  BY <1>1 DEF User
<1>2. CASE Login
  <2>1. CASE SignIn
    BY <2>1 DEF SignIn
  <2>2. CASE Enter
    <3>1. current \in Logins
      BY <2>2 DEF Enter, Authenticated, ClientInv, Control, ClientTypeOK
    <3>2. CASE at' = "bootstrap"
      BY <2>2, <3>1, <3>2 DEF Enter, BootstrapNext
    <3>3. CASE at' # "bootstrap"
      BY <2>2, <3>3 DEF Enter
    <3> QED
      BY <3>2, <3>3
  <2>3. CASE Receive
    BY <2>3 DEF Receive
  <2>4. CASE Connect
    BY <2>4 DEF Connect
  <2> QED
    BY <1>2, <2>1, <2>2, <2>3, <2>4 DEF Login
<1>3. CASE CloseGoesOn
  BY <1>3 DEF CloseGoesOn
<1>4. CASE Server
  BY <1>4 DEF Server, BootstrapNext
<1>5. ASSUME NEW l \in Logouts, LogoutGoesOn(l) PROVE [BootstrapNext]_bootstrap
  BY <1>5 DEF LogoutGoesOn
<1>6. CASE UNCHANGED vars
  BY <1>6 DEF vars, bootstrap
<1> QED
  BY <1>1, <1>2, <1>3, <1>4, <1>5, <1>6 DEF Next

\* A client and its server, seen from the machine, are a client: what is proved of
\* WindowsClient holds whatever the server answers.
THEOREM SessionIsClients == Spec => ClientSpec
<1>1. Init => ClientInit
  BY DEF Init
<1> QED
  BY <1>1, NextIsClients, PTL DEF Spec, ClientSpec

\* And seen from the server they are its calls: what is proved of ClientBootstrap holds
\* whatever the window does.
THEOREM SessionIsBootstraps == Spec => BootstrapSpec
<1>1. Init => BootstrapInit
  BY DEF Init
<1>2. Spec => []ClientInv
  BY SessionIsClients, ClientIsSound, PTL
<1>3. ClientInv /\ [Next]_vars => [BootstrapNext]_bootstrap
  BY NextIsBootstraps
<1> QED
  BY <1>1, <1>2, <1>3, PTL DEF Spec, BootstrapSpec

LEMMA SessionParts == Spec => [](ClientInv /\ BootstrapInv)
<1>1. BootstrapInit => BootstrapInv
  BY BootstrapStarts
<1>2. BootstrapInv /\ [BootstrapNext]_bootstrap => BootstrapInv'
  BY BootstrapKeeps
<1> QED
  BY <1>1, <1>2, SessionIsClients, ClientIsSound, SessionIsBootstraps, PTL DEF BootstrapSpec

\* Every variable of window, machine and tables keeps its type.
THEOREM SessionTypeCorrect == Spec => []TypeOK
<1>1. ClientInv /\ BootstrapInv => TypeOK
  BY DEF ClientInv, BootstrapInv, TypeOK
<1> QED
  BY <1>1, SessionParts, PTL

\* No tunnel serves a window without a session unless it was installed behind the logout or
\* could not be removed.
THEOREM NoTunnelAfterLogout == Spec => []LoggedOutMeansNoTunnel
BY SessionIsClients, ClientIsSound, SoundClientIsSafe, PTL

\* The private key is on the disk of an open window only during its own connection.
THEOREM KeyFileIsContained == Spec => []KeyFileIsOfConnection
BY SessionIsClients, ClientIsSound, SoundClientIsSafe, PTL

\* Who does not click logout twice never sees a dashboard without a session.
THEOREM DashboardsHaveSessions == Spec => []DashboardHasSession
BY SessionIsClients, ClientIsSound, SoundClientIsSafe, PTL

\* Whatever the window does, no share of a disabled server is given out.
THEOREM SharesAreEnabled == Spec => []DisabledServersStayHidden
BY BootstrapIsSound, SessionIsBootstraps, PTL

\* Whatever the window does, a second device needs two calls at once.
THEOREM DevicesStayOne == Spec => []DevicesAreOne
BY BootstrapIsSound, SessionIsBootstraps, PTL

----------------------------------------------------------------------------
(* The tunnel and the peer.                                                *)

Known(c) == call[c].stage = "answered" /\ call[c].vpn

\* Every call that is still to commit has seen the commit of c.
Latest(c) ==
  \A d \in Calls \ {c} :
    call[c].stage \in Committed /\ call[d].stage \in {"sent", "read"} => c \in call[d].passed

Served(c) ==
  call[c].stage \in Committed /\ call[c].vpn /\ c \notin troubled =>
    peer.state = "on" /\ peer.key = c

Profiled ==
  at \in {"write", "uninstall", "install"} \/ (at = "bootstrap" /\ outcome = "profile")

Entitled(c) == Latest(c) /\ Served(c)

\* The login that runs, and the one whose tunnel is there, made the latest call.
Coupled ==
  /\ current \in Logins => Entitled(current)
  /\ at = "authenticate" => call[current].stage = "idle"
  /\ Profiled => Known(current)
  /\ tunnel \in Logins => Known(tunnel) /\ (~ left => Entitled(tunnel))

LEMMA CoupledStarts == ASSUME Init PROVE Coupled
<1>1. at = "nothing" /\ current = None
  BY DEF Init, ClientInit
<1>2. tunnel \in {None, Earlier}
  BY MachinesAssumption DEF Init, ClientInit, Runs
<1> QED
  BY <1>1, <1>2, NamesAssumption DEF Coupled, Profiled

\* Nothing the server does by itself takes an entitlement away.
LEMMA ServerKeepsEntitlement ==
  ASSUME BootstrapInv, NEW d \in Calls, Manage \/ \E c \in Calls : CallStep(c)
  PROVE  /\ Entitled(d) => Entitled(d)'
         /\ Known(d) => Known(d)'
         /\ call[d].stage = "idle" => call'[d].stage = "idle"
<1> USE DEF Entitled, Latest, Served, Known, Committed, BootstrapInv, tables
<1>1. CASE Manage
  <2>1. UNCHANGED call
    BY <1>1 DEF Manage, ChangeUser, DeleteUser, ReadProfile, WriteProfile, WithdrawProfile,
                CreateServer, DisableServer, RevokeDevice, RevokePeer, EnrollElsewhere,
                ExpireCode
  <2>2. Served(d) => Served(d)'
    <3>1. CASE UNCHANGED <<peer, troubled>>
      BY <2>1, <3>1
    <3>2. CASE RevokePeer
      BY <2>1, <3>2 DEF RevokePeer
    <3>3. CASE EnrollElsewhere
      BY <2>1, <3>3 DEF EnrollElsewhere
    <3> QED
      BY <1>1, <3>1, <3>2, <3>3
         DEF Manage, ChangeUser, DeleteUser, ReadProfile, WriteProfile, WithdrawProfile,
             CreateServer, DisableServer, RevokeDevice, ExpireCode
  <2> QED
    BY <2>1, <2>2
<1>2. ASSUME NEW c \in Calls, Read(c)
      PROVE (Entitled(d) => Entitled(d)') /\ (Known(d) => Known(d)')
            /\ (call[d].stage = "idle" => call'[d].stage = "idle")
  <2>1. /\ call[c].stage = "sent" /\ call'[c].stage = "read"
        /\ call'[c].passed = call[c].passed
    BY <1>2 DEF Read, Snapshot, TablesTypeOK, CallRecords
  <2>2. \A e \in Calls \ {c} :
          /\ call'[e].stage = call[e].stage /\ call'[e].passed = call[e].passed
          /\ call'[e].vpn = call[e].vpn
    BY <1>2 DEF Read, Joined, TablesTypeOK, CallRecords
  <2>3. UNCHANGED <<peer, troubled>>
    BY <1>2 DEF Read
  <2> QED
    BY <2>1, <2>2, <2>3
<1>3. ASSUME NEW c \in Calls, Commit(c)
      PROVE (Entitled(d) => Entitled(d)') /\ (Known(d) => Known(d)')
            /\ (call[d].stage = "idle" => call'[d].stage = "idle")
  <2>1. /\ call[c].stage = "read" /\ call'[c].stage = "committed"
        /\ call'[c].vpn = call[c].vpn
    BY <1>3 DEF Commit, TablesTypeOK, CallRecords
  <2>2. \A e \in Calls \ {c} :
          /\ call'[e].stage = call[e].stage /\ call'[e].vpn = call[e].vpn
          /\ call'[e].passed = IF call[e].stage \in {"sent", "read"}
                               THEN call[e].passed \cup {c} ELSE call[e].passed
    <3> SUFFICES ASSUME NEW e \in Calls \ {c}
        PROVE /\ call'[e].stage = call[e].stage /\ call'[e].vpn = call[e].vpn
              /\ call'[e].passed = IF call[e].stage \in {"sent", "read"}
                                   THEN call[e].passed \cup {c} ELSE call[e].passed
      OBVIOUS
    <3> DEFINE passed == IF call[e].stage \in {"sent", "read"}
                         THEN call[e].passed \cup {c} ELSE call[e].passed
    <3>1. call'[e] = [call[e] EXCEPT !.passed = passed]
      BY <1>3 DEF Commit
    <3>2. call[e] \in CallRecords
      BY DEF TablesTypeOK
    <3> HIDE DEF passed
    <3>3. /\ call'[e].stage = call[e].stage /\ call'[e].vpn = call[e].vpn
          /\ call'[e].passed = passed
      BY <3>1, <3>2 DEF CallRecords
    <3> QED
      BY <3>3 DEF passed
  <2>3. Latest(d) => Latest(d)'
    BY <2>1, <2>2
  <2>4. Entitled(d) => Served(d)'
    <3>1. troubled \subseteq troubled'
      BY <1>3 DEF Commit
    <3>2. CASE ~ call[c].vpn
      BY <1>3, <2>1, <2>2, <3>1, <3>2 DEF Commit
    <3>3. CASE call[c].vpn /\ d # c
      BY <1>3, <2>1, <2>2, <3>1, <3>3 DEF Commit
    <3>4. CASE call[c].vpn /\ d = c
      <4>1. peer'.key = c /\ peer'.state = IF call[c].was = "on" THEN peer.state ELSE "on"
        BY <1>3, <3>4 DEF Commit, Rotated
      <4>2. call[c].was = "on" /\ c \notin troubled => peer.state = "on"
        BY <2>1 DEF Trust, Open
      <4> QED
        BY <3>1, <3>4, <4>1, <4>2
    <3> QED
      BY <3>2, <3>3, <3>4
  <2> QED
    BY <2>1, <2>2, <2>3, <2>4
<1>4. ASSUME NEW c \in Calls, Answer(c) \/ FailCall(c)
      PROVE (Entitled(d) => Entitled(d)') /\ (Known(d) => Known(d)')
            /\ (call[d].stage = "idle" => call'[d].stage = "idle")
  <2>1. /\ call'[c].vpn = call[c].vpn /\ call'[c].passed = call[c].passed
        /\ \/ call[c].stage = "committed" /\ call'[c].stage \in {"answered", "lost"}
           \/ call[c].stage \in {"sent", "read"} /\ call'[c].stage = "failed"
    BY <1>4 DEF Answer, FailCall, TablesTypeOK, CallRecords
  <2>2. \A e \in Calls \ {c} : call'[e] = call[e]
    BY <1>4 DEF Answer, FailCall, TablesTypeOK
  <2>3. UNCHANGED <<peer, troubled>>
    BY <1>4 DEF Answer, FailCall
  <2> QED
    BY <2>1, <2>2, <2>3
<1> QED
  BY <1>1, <1>2, <1>3, <1>4 DEF CallStep

LEMMA ServerKeepsCoupled ==
  ASSUME ClientInv, BootstrapInv, Coupled, Server PROVE Coupled'
<1>1. UNCHANGED <<current, at, outcome, tunnel, left>>
  BY DEF Server, client
<1>2. ASSUME NEW d \in Calls
      PROVE  /\ Entitled(d) => Entitled(d)'
             /\ Known(d) => Known(d)'
             /\ call[d].stage = "idle" => call'[d].stage = "idle"
  BY <1>2, ServerKeepsEntitlement DEF Server
<1>3. at = "authenticate" \/ Profiled => current \in Calls
  BY SessionAssumption DEF ClientInv, Control, ClientTypeOK, Profiled
<1> QED
  BY <1>1, <1>2, <1>3, SessionAssumption DEF Coupled, Profiled

\* The next call is sent from the login panel, where no tunnel is entitled any more.
LEMMA EnterKeepsCoupled ==
  ASSUME ClientInv, BootstrapInv, Coupled, Enter PROVE Coupled'
<1> USE SessionAssumption DEF Enter, Authenticated, Await, Leave, machine
<1>1. /\ at = "authenticate" /\ current \in Logins /\ panel = "login"
      /\ call[current].stage = "idle" /\ current \in Calls
  BY DEF ClientInv, Control, ClientTypeOK, Coupled
<1>2. UNCHANGED <<tunnel, left>> /\ at' \in {"bootstrap", "nothing"} /\ outcome' = "pending"
  OBVIOUS
<1>3. tunnel \in Logins => left
  BY <1>1, NamesAssumption DEF ClientInv, Removal, LoggedOutMeansNoTunnel
<1>4. CASE at' = "bootstrap"
  <2>1. Send(current) /\ current' = current
    BY <1>4
  <2>2. call'[current].stage = "sent"
    BY <1>1, <2>1 DEF Send, BootstrapInv, TablesTypeOK, CallRecords
  <2>3. \A d \in Calls \ {current} : call'[d] = call[d]
    BY <2>1 DEF Send, BootstrapInv, TablesTypeOK
  <2>4. Entitled(current)'
    BY <1>1, <2>1, <2>2 DEF Entitled, Latest, Served, Committed
  <2>5. tunnel \in Logins => Known(tunnel)'
    BY <1>1, <2>3 DEF Coupled, Known
  <2> QED
    BY <1>2, <1>3, <1>4, <2>1, <2>4, <2>5 DEF Coupled, Profiled
<1>5. CASE at' = "nothing"
  <2>1. UNCHANGED bootstrap /\ current' = None
    BY <1>1, <1>5
  <2> QED
    BY <1>2, <1>3, <1>5, <2>1, NamesAssumption DEF Coupled, Profiled, Known, bootstrap
<1> QED
  BY <1>2, <1>4, <1>5

\* What the other steps of the window may do to the login that runs and to the tunnel.
Moves ==
  /\ current' \in {current, None}
  /\ \/ tunnel' \in {tunnel, None} /\ (~ left' => ~ left \/ tunnel' = None)
     \/ Profiled /\ tunnel' = current
  /\ at' = "authenticate" => at = "authenticate" /\ current' = current
  /\ Profiled' => Profiled /\ current' = current

LEMMA UninstallMoves ==
  Uninstall => tunnel' \in {tunnel, None} /\ (~ left' => ~ left \/ tunnel' = None)
BY DEF Uninstall

LEMMA ConnectMoves ==
  ASSUME ClientInv, Connect PROVE Moves
<1> USE DEF Moves, Profiled, Await, Leave, interface, machine
<1>1. CASE Configure
  BY <1>1 DEF Configure
<1>2. CASE WriteEnds
  BY <1>2 DEF WriteEnds
<1>3. CASE Written
  BY <1>3 DEF Written
<1>4. CASE UninstallEnds
  BY <1>4, UninstallMoves DEF UninstallEnds
<1>5. CASE Uninstalled
  BY <1>5 DEF Uninstalled
<1>6. CASE InstallEnds
  <2>1. conf = current
    BY <1>6 DEF InstallEnds, ClientInv, Keys, Connecting
  <2> QED
    BY <1>6, <2>1 DEF InstallEnds
<1>7. CASE Installed
  BY <1>7 DEF Installed
<1> QED
  BY <1>1, <1>2, <1>3, <1>4, <1>5, <1>6, <1>7 DEF Connect

LEMMA OtherMoves ==
  ASSUME SignIn \/ CloseGoesOn \/ Close \/ Die
           \/ \E l \in Logouts : Logout(l) \/ LogoutStep(l)
  PROVE  Moves
<1> USE DEF Moves, Profiled, interface, handlers, machine
<1>1. CASE SignIn
  BY <1>1 DEF SignIn, AuthenticationEnds, Ends
<1>2. CASE CloseGoesOn
  BY <1>2, UninstallMoves DEF CloseGoesOn, CloseEnds
<1>3. CASE Close
  BY <1>3 DEF Close
<1>4. CASE Die
  <2>1. ~ left' => ~ left
    BY <1>4, Zenon DEF Die
  <2> QED
    BY <1>4, <2>1 DEF Die
<1>5. ASSUME NEW l \in Logouts, Logout(l) \/ ClearingEnds(l) \/ Cleared(l) PROVE Moves
  BY <1>5, UninstallMoves DEF Logout, ClearingEnds, Cleared
<1> QED
  BY <1>1, <1>2, <1>3, <1>4, <1>5 DEF LogoutStep

LEMMA MovesKeepCoupled ==
  ASSUME ClientInv, ClientInv', Coupled, Moves, UNCHANGED bootstrap PROVE Coupled'
<1>1. UNCHANGED <<call, peer, troubled>>
  BY DEF bootstrap
<1>2. None \notin Logins
  BY NamesAssumption
<1>3. Profiled => current \in Logins
  BY DEF ClientInv, Control, ClientTypeOK, Profiled
<1>4. current' \in Logins => Entitled(current')
  BY <1>2 DEF Coupled, Moves
<1>5. at' = "authenticate" => call[current'].stage = "idle"
  BY DEF Coupled, Moves
<1>6. Profiled' => Known(current')
  BY DEF Coupled, Moves
<1>7. tunnel' \in Logins => Known(tunnel') /\ (~ left' => Entitled(tunnel'))
  BY <1>2, <1>3 DEF Coupled, Moves
<1> QED
  BY <1>1, <1>4, <1>5, <1>6, <1>7 DEF Coupled, Entitled, Latest, Served, Known

LEMMA ReceiveKeepsCoupled ==
  ASSUME ClientInv, Coupled, Receive PROVE Coupled'
<1> USE DEF Receive, BootstrapEnds, Ends, interface, machine, bootstrap
<1>1. UNCHANGED <<current, at, tunnel, left, call, peer, troubled>> /\ at = "bootstrap"
  OBVIOUS
<1>2. outcome' = "profile" => Known(current)
  BY DEF Known
<1> QED
  BY <1>1, <1>2 DEF Coupled, Profiled, Known, Entitled, Latest, Served

LEMMA ClickKeepsCoupled ==
  ASSUME ClientInv, Coupled, NEW f \in Logins, call[f].stage = "idle", Click(f),
         UNCHANGED bootstrap
  PROVE  Coupled'
<1> USE DEF Click, Await, machine, bootstrap
<1>1. current' = f /\ at' = "authenticate" /\ UNCHANGED <<tunnel, left, call, peer, troubled>>
  OBVIOUS
<1>2. Entitled(f)'
  BY <1>1 DEF Entitled, Latest, Served, Committed
<1> QED
  BY <1>1, <1>2 DEF Coupled, Profiled, Known, Entitled, Latest, Served

LEMMA CoupledKept ==
  ASSUME ClientInv, ClientInv', BootstrapInv, Coupled, [Next]_vars PROVE Coupled'
<1>1. CASE User
  <2>1. CASE Close \/ Die \/ \E l \in Logouts : Logout(l)
    BY <1>1, <2>1, OtherMoves, MovesKeepCoupled DEF User
  <2>2. ASSUME NEW f \in Logins, call[f].stage = "idle", Click(f) PROVE Coupled'
    BY <1>1, <2>2, ClickKeepsCoupled DEF User
  <2> QED
    BY <1>1, <2>1, <2>2 DEF User
<1>2. CASE Login
  <2>1. CASE SignIn
    BY <2>1, OtherMoves, MovesKeepCoupled DEF SignIn
  <2>2. CASE Connect
    BY <2>2, ConnectMoves, MovesKeepCoupled DEF Connect
  <2> QED
    BY <1>2, <2>1, <2>2, EnterKeepsCoupled, ReceiveKeepsCoupled DEF Login
<1>3. CASE CloseGoesOn
  BY <1>3, OtherMoves, MovesKeepCoupled DEF CloseGoesOn
<1>4. CASE Server
  BY <1>4, ServerKeepsCoupled
<1>5. ASSUME NEW l \in Logouts, LogoutGoesOn(l) PROVE Coupled'
  BY <1>5, OtherMoves, MovesKeepCoupled DEF LogoutGoesOn
<1>6. CASE UNCHANGED vars
  BY <1>6 DEF vars, Coupled, Profiled, Known, Entitled, Latest, Served
<1> QED
  BY <1>1, <1>2, <1>3, <1>4, <1>5, <1>6 DEF Next

\* As long as nobody else touches the peer, a tunnel is one the server serves with the key
\* the tunnel has, whatever calls, clicks and administrators overlap.
THEOREM TunnelsAreServed == Spec => []TunnelIsServed
<1>1. Init => Coupled
  BY CoupledStarts
<1>2. ClientInv /\ ClientInv' /\ BootstrapInv /\ Coupled /\ [Next]_vars => Coupled'
  BY CoupledKept
<1>3. Coupled => TunnelIsServed
  BY DEF Coupled, TunnelIsServed, Known, Entitled, Served, Committed
<1> QED
  BY <1>1, <1>2, <1>3, SessionParts, PTL DEF Spec
=============================================================================
