------------------------- MODULE WindowsClientProofs -------------------------
(***************************************************************************)
(* Proofs about WindowsClient, for every number of clicks and every        *)
(* machine: a login holds the key file only while its connection is made,  *)
(* and a logout leaves neither a tunnel nor a dashboard without a session  *)
(* behind.                                                                 *)
(***************************************************************************)
EXTENDS WindowsClient, TLAPS

\* The login button stands for the one handler that may run, and what the handler awaits for
\* where it is.
Control ==
  /\ button <=> current = None
  /\ current = None <=> at = "nothing"
  /\ at = "authenticate" => panel = "login"
  /\ at \in {"write", "uninstall", "install"} => runtime

Connecting == at \in {"uninstall", "install"} \/ (at = "write" /\ outcome = "ok")

\* GOne.conf holds a key exactly while a connection is made with it.
Keys ==
  /\ Connecting => conf = current
  /\ conf \in Logins => Connecting

\* Where nobody will remove the tunnel, there is none that has not outlived its session.
Removal ==
  /\ (\E l \in Logouts : logout[l] = "cleared") => tunnel = None \/ left
  /\ ~ runtime => tunnel = None \/ left
  /\ LoggedOutMeansNoTunnel

\* One logout at a time leaves the login that follows its session.
Sessions ==
  ~ doubled =>
    /\ \A l \in Logouts : Running(l) => panel = "dashboard"
    /\ \A k, l \in Logouts : Running(k) /\ Running(l) => k = l
    /\ at = "authenticate" /\ window = "open" => api = current
    /\ panel = "dashboard" /\ window = "open" => api # None

ClientInv == ClientTypeOK /\ Control /\ Keys /\ Removal /\ Sessions

LEMMA ClientStarts == ClientInit => ClientInv
<1> SUFFICES ASSUME ClientInit PROVE ClientInv
  OBVIOUS
<1> USE NamesAssumption, MachinesAssumption DEF ClientInit, Runs
<1>1. ClientTypeOK
  BY DEF ClientTypeOK, Awaited, Outcomes
<1>2. Control /\ Keys
  BY DEF Control, Keys, Connecting
<1>3. Removal
  BY DEF Removal, LoggedOutMeansNoTunnel
<1>4. Sessions
  BY DEF Sessions, Running
<1> QED
  BY <1>1, <1>2, <1>3, <1>4 DEF ClientInv

LEMMA UninstallType ==
  ASSUME ClientTypeOK, Uninstall PROVE tunnel' \in {None, tunnel} /\ left' \in BOOLEAN
BY DEF Uninstall

LEMMA ClickKept ==
  ASSUME ClientInv, NEW f \in Logins, Click(f) PROVE ClientInv'
<1> USE NamesAssumption
    DEF ClientInv, ClientTypeOK, Awaited, Outcomes, interface, handlers, machine,
        Click, Await
<1>1. ClientTypeOK'
  BY DEF Keys, Connecting
<1>2. Control' /\ Keys'
  BY DEF Control, Keys, Connecting
<1>3. Removal'
  BY <1>1 DEF Removal, Control, LoggedOutMeansNoTunnel
<1>4. Sessions'
  BY <1>1 DEF Sessions, Control, Running
<1> QED
  BY <1>1, <1>2, <1>3, <1>4

LEMMA EndsKept ==
  ASSUME ClientInv, NEW step \in {"authenticate", "bootstrap"},
         NEW result \in Outcomes \ {"pending"}, Ends(step, result) PROVE ClientInv'
<1> USE NamesAssumption
    DEF ClientInv, ClientTypeOK, Awaited, Outcomes, interface, handlers, machine,
        Ends
<1>1. ClientTypeOK'
  BY DEF Keys, Connecting
<1>2. Control' /\ Keys'
  BY DEF Control, Keys, Connecting
<1>3. Removal'
  BY <1>1 DEF Removal, Control, LoggedOutMeansNoTunnel
<1>4. Sessions'
  BY <1>1 DEF Sessions, Control, Running
<1> QED
  BY <1>1, <1>2, <1>3, <1>4

LEMMA AuthenticatedKept ==
  ASSUME ClientInv, Authenticated PROVE ClientInv'
<1> USE NamesAssumption
    DEF ClientInv, ClientTypeOK, Awaited, Outcomes, interface, handlers, machine,
        Authenticated, Await, Leave
<1>1. ClientTypeOK'
  BY DEF Keys, Connecting
<1>2. Control' /\ Keys'
  BY DEF Control, Keys, Connecting
<1>3. Removal'
  BY <1>1 DEF Removal, Control, LoggedOutMeansNoTunnel
<1>4. Sessions'
  BY <1>1 DEF Sessions, Control, Running
<1> QED
  BY <1>1, <1>2, <1>3, <1>4

LEMMA ConfigureKept ==
  ASSUME ClientInv, Configure PROVE ClientInv'
<1> USE NamesAssumption
    DEF ClientInv, ClientTypeOK, Awaited, Outcomes, interface, handlers, machine,
        Configure, Await, Leave
<1>1. ClientTypeOK'
  BY DEF Keys, Connecting
<1>2. Control' /\ Keys'
  BY DEF Control, Keys, Connecting
<1>3. Removal'
  BY <1>1 DEF Removal, Control, LoggedOutMeansNoTunnel
<1>4. Sessions'
  BY <1>1 DEF Sessions, Control, Running
<1> QED
  BY <1>1, <1>2, <1>3, <1>4

LEMMA WriteEndsKept ==
  ASSUME ClientInv, WriteEnds PROVE ClientInv'
<1> USE NamesAssumption
    DEF ClientInv, ClientTypeOK, Awaited, Outcomes, interface, handlers, machine,
        WriteEnds
<1>1. ClientTypeOK'
  BY DEF Keys, Connecting
<1>2. Control' /\ Keys'
  BY DEF Control, Keys, Connecting
<1>3. Removal'
  BY <1>1 DEF Removal, Control, LoggedOutMeansNoTunnel
<1>4. Sessions'
  BY <1>1 DEF Sessions, Control, Running
<1> QED
  BY <1>1, <1>2, <1>3, <1>4

LEMMA WrittenKept ==
  ASSUME ClientInv, Written PROVE ClientInv'
<1> USE NamesAssumption
    DEF ClientInv, ClientTypeOK, Awaited, Outcomes, interface, handlers, machine,
        Written, Await, Leave
<1>1. ClientTypeOK'
  BY DEF Keys, Connecting
<1>2. Control' /\ Keys'
  BY DEF Control, Keys, Connecting
<1>3. Removal'
  BY <1>1 DEF Removal, Control, LoggedOutMeansNoTunnel
<1>4. Sessions'
  BY <1>1 DEF Sessions, Control, Running
<1> QED
  BY <1>1, <1>2, <1>3, <1>4

LEMMA UninstallEndsKept ==
  ASSUME ClientInv, UninstallEnds PROVE ClientInv'
<1> USE NamesAssumption
    DEF ClientInv, ClientTypeOK, Awaited, Outcomes, interface, handlers, machine,
        UninstallEnds, Uninstall
<1>1. ClientTypeOK'
  BY DEF Keys, Connecting
<1>2. Control' /\ Keys'
  BY DEF Control, Keys, Connecting
<1>3. Removal'
  BY <1>1 DEF Removal, Control, LoggedOutMeansNoTunnel
<1>4. Sessions'
  BY <1>1 DEF Sessions, Control, Running
<1> QED
  BY <1>1, <1>2, <1>3, <1>4

LEMMA UninstalledKept ==
  ASSUME ClientInv, Uninstalled PROVE ClientInv'
<1> USE NamesAssumption
    DEF ClientInv, ClientTypeOK, Awaited, Outcomes, interface, handlers, machine,
        Uninstalled, Await, Leave
<1>1. ClientTypeOK'
  BY DEF Keys, Connecting
<1>2. Control' /\ Keys'
  BY DEF Control, Keys, Connecting
<1>3. Removal'
  BY <1>1 DEF Removal, Control, LoggedOutMeansNoTunnel
<1>4. Sessions'
  BY <1>1 DEF Sessions, Control, Running
<1> QED
  BY <1>1, <1>2, <1>3, <1>4

LEMMA InstallEndsKept ==
  ASSUME ClientInv, InstallEnds PROVE ClientInv'
<1> USE NamesAssumption
    DEF ClientInv, ClientTypeOK, Awaited, Outcomes, interface, handlers, machine,
        InstallEnds, Unattended
<1>1. ClientTypeOK'
  BY DEF Keys, Connecting
<1>2. Control' /\ Keys'
  BY DEF Control, Keys, Connecting
<1>3. Removal'
  BY <1>1 DEF Removal, Control, LoggedOutMeansNoTunnel
<1>4. Sessions'
  BY <1>1 DEF Sessions, Control, Running
<1> QED
  BY <1>1, <1>2, <1>3, <1>4

LEMMA InstalledKept ==
  ASSUME ClientInv, Installed PROVE ClientInv'
<1> USE NamesAssumption
    DEF ClientInv, ClientTypeOK, Awaited, Outcomes, interface, handlers, machine,
        Installed, Await, Leave
<1>1. ClientTypeOK'
  BY DEF Keys, Connecting
<1>2. Control' /\ Keys'
  BY DEF Control, Keys, Connecting
<1>3. Removal'
  BY <1>1 DEF Removal, Control, LoggedOutMeansNoTunnel
<1>4. Sessions'
  BY <1>1 DEF Sessions, Control, Running
<1> QED
  BY <1>1, <1>2, <1>3, <1>4

LEMMA LogoutKept ==
  ASSUME ClientInv, NEW l \in Logouts, Logout(l) PROVE ClientInv'
<1> USE NamesAssumption
    DEF ClientInv, ClientTypeOK, Awaited, Outcomes, interface, handlers, machine,
        Logout
<1>1. ClientTypeOK'
  BY DEF Keys, Connecting
<1>2. Control' /\ Keys'
  BY DEF Control, Keys, Connecting
<1>3. Removal'
  BY <1>1 DEF Removal, Control, LoggedOutMeansNoTunnel
<1>4. Sessions'
  BY <1>1 DEF Sessions, Control, Running
<1> QED
  BY <1>1, <1>2, <1>3, <1>4

LEMMA ClearingEndsKept ==
  ASSUME ClientInv, NEW l \in Logouts, ClearingEnds(l) PROVE ClientInv'
<1> USE NamesAssumption
    DEF ClientInv, ClientTypeOK, Awaited, Outcomes, interface, handlers, machine,
        ClearingEnds, Uninstall
<1>1. ClientTypeOK'
  <2>1. tunnel' \in Logins \cup {None, Earlier} /\ left' \in BOOLEAN
    BY UninstallType
  <2> HIDE DEF Uninstall
  <2> QED
    BY <2>1
<1>2. Control' /\ Keys'
  BY DEF Control, Keys, Connecting
<1>3. Removal'
  BY <1>1 DEF Removal, Control, LoggedOutMeansNoTunnel
<1>4. Sessions'
  BY <1>1 DEF Sessions, Control, Running
<1> QED
  BY <1>1, <1>2, <1>3, <1>4

LEMMA ClearedKept ==
  ASSUME ClientInv, NEW l \in Logouts, Cleared(l) PROVE ClientInv'
<1> USE NamesAssumption
    DEF ClientInv, ClientTypeOK, Awaited, Outcomes, interface, handlers, machine,
        Cleared
<1>1. ClientTypeOK'
  BY DEF Keys, Connecting
<1>2. Control' /\ Keys'
  BY DEF Control, Keys, Connecting
<1>3. Removal'
  BY <1>1 DEF Removal, Control, LoggedOutMeansNoTunnel
<1>4. Sessions'
  BY <1>1 DEF Sessions, Control, Running
<1> QED
  BY <1>1, <1>2, <1>3, <1>4

LEMMA CloseKept ==
  ASSUME ClientInv, Close PROVE ClientInv'
<1> USE NamesAssumption
    DEF ClientInv, ClientTypeOK, Awaited, Outcomes, interface, handlers, machine,
        Close
<1>1. ClientTypeOK'
  BY DEF Keys, Connecting
<1>2. Control' /\ Keys'
  BY DEF Control, Keys, Connecting
<1>3. Removal'
  BY <1>1 DEF Removal, Control, LoggedOutMeansNoTunnel
<1>4. Sessions'
  BY <1>1 DEF Sessions, Control, Running
<1> QED
  BY <1>1, <1>2, <1>3, <1>4

LEMMA CloseEndsKept ==
  ASSUME ClientInv, CloseEnds PROVE ClientInv'
<1> USE NamesAssumption
    DEF ClientInv, ClientTypeOK, Awaited, Outcomes, interface, handlers, machine,
        CloseEnds, Uninstall
<1>1. ClientTypeOK'
  <2>1. tunnel' \in Logins \cup {None, Earlier} /\ left' \in BOOLEAN
    BY UninstallType
  <2> HIDE DEF Uninstall
  <2> QED
    BY <2>1
<1>2. Control' /\ Keys'
  BY DEF Control, Keys, Connecting
<1>3. Removal'
  BY <1>1 DEF Removal, Control, LoggedOutMeansNoTunnel
<1>4. Sessions'
  BY <1>1 DEF Sessions, Control, Running
<1> QED
  BY <1>1, <1>2, <1>3, <1>4

LEMMA DieKept ==
  ASSUME ClientInv, Die PROVE ClientInv'
<1> USE NamesAssumption
    DEF ClientInv, ClientTypeOK, Awaited, Outcomes, interface, handlers, machine,
        Die
<1>1. ClientTypeOK'
  BY DEF Keys, Connecting
<1>2. Control' /\ Keys'
  BY DEF Control, Keys, Connecting
<1>3. Removal'
  BY <1>1 DEF Removal, Control, LoggedOutMeansNoTunnel
<1>4. Sessions'
  BY <1>1 DEF Sessions, Control, Running
<1> QED
  BY <1>1, <1>2, <1>3, <1>4

LEMMA StutteringKeeps == ASSUME ClientInv, UNCHANGED client PROVE ClientInv'
BY DEF ClientInv, ClientTypeOK, Control, Keys, Connecting, Removal, LoggedOutMeansNoTunnel,
       Sessions, Running, client

LEMMA LoginKeeps == ASSUME ClientInv, LoginStep PROVE ClientInv'
<1>1. CASE AuthenticationEnds
  BY <1>1, EndsKept DEF AuthenticationEnds, Awaited, Outcomes
<1> QED
  BY <1>1, AuthenticatedKept, ConfigureKept, WriteEndsKept, WrittenKept, UninstallEndsKept,
     UninstalledKept, InstallEndsKept, InstalledKept DEF LoginStep

LEMMA ClientKeeps == ASSUME ClientInv, [ClientNext]_client PROVE ClientInv'
<1>1. ASSUME NEW result \in Outcomes \ {"pending"}, BootstrapEnds(result) PROVE ClientInv'
  BY <1>1, EndsKept DEF BootstrapEnds, Awaited
<1>2. ASSUME NEW l \in Logouts, LogoutStep(l) PROVE ClientInv'
  BY <1>2, ClearingEndsKept, ClearedKept DEF LogoutStep
<1> QED
  BY <1>1, <1>2, StutteringKeeps, LoginKeeps, ClickKept, LogoutKept, CloseKept, CloseEndsKept,
     DieKept DEF ClientNext

\* A window is in one handler at a time and its GOne.conf holds the key of that handler.
THEOREM ClientIsSound == ClientSpec => []ClientInv
<1>1. ClientInit => ClientInv
  BY ClientStarts
<1>2. ClientInv /\ [ClientNext]_client => ClientInv'
  BY ClientKeeps
<1> QED
  BY <1>1, <1>2, PTL DEF ClientSpec

LEMMA SoundClientIsSafe ==
  ClientInv =>
    ClientTypeOK /\ LoggedOutMeansNoTunnel /\ KeyFileIsOfConnection /\ DashboardHasSession
<1> SUFFICES ASSUME ClientInv
    PROVE ClientTypeOK /\ LoggedOutMeansNoTunnel /\ KeyFileIsOfConnection /\ DashboardHasSession
  OBVIOUS
<1> USE DEF ClientInv
<1>1. ClientTypeOK /\ LoggedOutMeansNoTunnel
  BY DEF Removal
<1>2. KeyFileIsOfConnection
  BY DEF Keys, KeyFileIsOfConnection
<1>3. DashboardHasSession
  BY DEF Sessions, DashboardHasSession
<1> QED
  BY <1>1, <1>2, <1>3
=============================================================================
