---------------------------- MODULE WindowsClient ----------------------------
(***************************************************************************)
(* The Windows client: the window, the session with the server, the file   *)
(* GOne.conf and the tunnel service (MainWindow.xaml.cs, GOneApiClient.cs, *)
(* WindowsConnectionManager.cs, WindowsVpnManager.cs).                     *)
(*                                                                         *)
(* Handlers run on the UI thread up to an await and go on there when what  *)
(* they await has ended; in between the user may click.  What is awaited   *)
(* ends by itself, also while the UI thread is blocked.  Left out: texts,  *)
(* lists, the settings file, and platforms other than Windows.             *)
(***************************************************************************)
EXTENDS FiniteSets

CONSTANTS
  Logins,    \* clicks on the login button; also names the api object of the click
  Logouts,   \* clicks on the logout button
  Machines,  \* what the client may find on its machine, and the clicks on logout it gets
  None,
  Earlier,   \* a tunnel that an earlier run of the application has left
  Torn       \* the content of GOne.conf after a write that failed

ASSUME NamesAssumption ==
  None \notin Logins /\ Earlier \notin Logins \cup {None} /\ Torn \notin Logins \cup {None}

ASSUME MachinesAssumption ==
  \A begin \in Machines :
    /\ begin.runtime \in BOOLEAN
    /\ begin.tunnel \in {None, Earlier} /\ begin.conf \in {None, Torn}
    /\ begin.logouts \subseteq Logouts

VARIABLES
  window,    \* "closing": OnClosed has started its command; "stuck": the command has ended
  panel,     \* the visible panel
  button,    \* LoginButton.IsEnabled
  api,       \* the session object of the window
  current,   \* the login whose Login_Click runs
  at,        \* what it awaits
  outcome,   \* and what came of it
  logout,    \* per click, what Logout_Click is at
  conf,      \* whose configuration GOne.conf holds
  tunnel,    \* whose configuration the tunnel service runs
  runtime,   \* wireguard.exe is there
  left,      \* history: the tunnel has outlived its session
  doubled    \* history: logout was clicked while a logout was still running

interface == <<window, panel, button, api>>
handlers == <<current, at, outcome, logout>>
machine == <<conf, tunnel, left>>
client == <<window, panel, button, api, current, at, outcome, logout, conf, tunnel,
            runtime, left, doubled>>

Awaited == {"nothing", "authenticate", "bootstrap", "write", "uninstall", "install"}

Outcomes == {"pending", "ok", "profile", "error"}

ClientTypeOK ==
  /\ window \in {"open", "closing", "stuck", "closed"}
  /\ panel \in {"login", "dashboard"}
  /\ button \in BOOLEAN
  /\ api \in Logins \cup {None}
  /\ current \in Logins \cup {None}
  /\ at \in Awaited
  /\ outcome \in Outcomes
  /\ logout \in [Logouts -> {"idle", "clearing", "cleared", "done"}]
  /\ conf \in Logins \cup {None, Torn}
  /\ tunnel \in Logins \cup {None, Earlier}
  /\ runtime \in BOOLEAN /\ left \in BOOLEAN /\ doubled \in BOOLEAN

Runs(begin) ==
  /\ conf = begin.conf /\ runtime = begin.runtime /\ tunnel = begin.tunnel
  /\ logout = [l \in Logouts |-> IF l \in begin.logouts THEN "idle" ELSE "done"]

ClientInit ==
  /\ \E begin \in Machines : Runs(begin)
  /\ window = "open" /\ panel = "login" /\ button = TRUE
  /\ api = None /\ current = None /\ at = "nothing" /\ outcome = "pending"
  /\ left = (tunnel # None)
  /\ doubled = FALSE

----------------------------------------------------------------------------
(* Login_Click.                                                            *)

Await(step) == at' = step /\ outcome' = "pending"

\* The finally clause.
Leave == current' = None /\ Await("nothing") /\ button' = TRUE

\* A new object: none that is in use.
Click(f) ==
  /\ window = "open" /\ panel = "login" /\ button
  /\ f \notin {api, conf, tunnel}
  /\ button' = FALSE
  /\ api' = f /\ current' = f /\ Await("authenticate")
  /\ UNCHANGED <<window, panel, logout, machine, runtime, doubled>>

\* Mutation: Dispose leaves a pending request alone, and nothing ends it.
EndsUndisturbed(step, result) ==
  /\ window # "closed"
  /\ at = step /\ outcome = "pending"
  /\ api = current
  /\ outcome' = result
  /\ UNCHANGED <<interface, current, at, logout, machine, runtime, doubled>>

\* What a request comes to.  A disposed session only ends in errors; the 100 seconds of
\* HttpClient end every other one.
Ends(step, result) ==
  /\ window # "closed"
  /\ at = step /\ outcome = "pending"
  /\ result # "error" => api = current
  /\ outcome' = result
  /\ UNCHANGED <<interface, current, at, logout, machine, runtime, doubled>>

AuthenticationEnds == Ends("authenticate", "ok") \/ Ends("authenticate", "error")

BootstrapEnds(result) == Ends("bootstrap", result)

\* Goes on after LoginAsync.  Without its session BootstrapAsync is not even called.
Authenticated ==
  /\ window = "open" /\ at = "authenticate" /\ outcome # "pending"
  /\ IF outcome = "ok"
     THEN /\ panel' = "dashboard" /\ UNCHANGED api
          /\ IF api = None THEN Leave ELSE Await("bootstrap") /\ UNCHANGED <<button, current>>
     ELSE /\ api' = None /\ UNCHANGED panel
          /\ Leave
  /\ UNCHANGED <<window, logout, machine, runtime, doubled>>

\* Mutation: an error of the configuration is handled like one of the login.
ConfigureDropsSession ==
  /\ window = "open" /\ at = "bootstrap" /\ outcome # "pending"
  /\ IF outcome = "profile" /\ runtime
     THEN Await("write") /\ UNCHANGED <<button, current, api>>
     ELSE Leave /\ api' = IF outcome = "error" THEN None ELSE api
  /\ UNCHANGED <<window, panel, logout, machine, runtime, doubled>>

\* ApplyAsync and ConnectAsync up to the first await.  An error ends the configuration only.
Configure ==
  /\ window = "open" /\ at = "bootstrap" /\ outcome # "pending"
  /\ IF outcome = "profile" /\ runtime
     THEN Await("write") /\ UNCHANGED <<button, current>>
     ELSE Leave
  /\ UNCHANGED <<window, panel, api, logout, machine, runtime, doubled>>

\* Also the end of the application ends the write somewhere.
WriteEnds ==
  /\ at = "write" /\ outcome = "pending"
  /\ \/ outcome' = "ok" /\ conf' = current
     \/ outcome' = "error" /\ conf' \in {conf, Torn}
  /\ UNCHANGED <<interface, current, at, logout, tunnel, left, runtime, doubled>>

Written ==
  /\ window = "open" /\ at = "write" /\ outcome # "pending"
  /\ IF outcome = "ok" THEN Await("uninstall") /\ UNCHANGED <<button, current>> ELSE Leave
  /\ UNCHANGED <<window, panel, api, logout, machine, runtime, doubled>>

\* What /uninstalltunnelservice does to the machine; a failure is tolerated.
Uninstall ==
  \/ tunnel' = None /\ left' = FALSE
  \/ tunnel # None /\ left' = TRUE /\ UNCHANGED tunnel

\* The command ends; "error" is one that could not be started.
UninstallEnds ==
  /\ at = "uninstall" /\ outcome = "pending"
  /\ \/ outcome' = "ok" /\ Uninstall
     \/ outcome' = "error" /\ UNCHANGED <<tunnel, left>>
  /\ UNCHANGED <<interface, current, at, logout, conf, runtime, doubled>>

\* Mutation: only a connection that succeeds deletes the file.
UninstalledNoFinally ==
  /\ window = "open" /\ at = "uninstall" /\ outcome # "pending"
  /\ IF outcome = "ok" THEN Await("install") /\ UNCHANGED <<button, current, conf>>
     ELSE Leave /\ UNCHANGED conf
  /\ UNCHANGED <<window, panel, api, logout, tunnel, left, runtime, doubled>>

Uninstalled ==
  /\ window = "open" /\ at = "uninstall" /\ outcome # "pending"
  /\ IF outcome = "ok" THEN Await("install") /\ UNCHANGED <<button, current, conf>>
     ELSE conf' = None /\ Leave
  /\ UNCHANGED <<window, panel, api, logout, tunnel, left, runtime, doubled>>

\* No command will come to remove a tunnel that is installed now.
Unattended ==
  \/ panel = "login"
  \/ window \in {"stuck", "closed"}
  \/ \E l \in Logouts : logout[l] = "cleared"

\* /installtunnelservice refuses a service that exists.
InstallEnds ==
  /\ at = "install" /\ outcome = "pending"
  /\ \/ /\ outcome' = "ok" /\ tunnel = None
        /\ tunnel' = conf /\ left' = Unattended
     \/ outcome' = "error" /\ UNCHANGED <<tunnel, left>>
  /\ UNCHANGED <<interface, current, at, logout, conf, runtime, doubled>>

Installed ==
  /\ window = "open" /\ at = "install" /\ outcome # "pending"
  /\ conf' = None /\ Leave
  /\ UNCHANGED <<window, panel, api, logout, tunnel, left, runtime, doubled>>

----------------------------------------------------------------------------
(* Logout_Click and OnClosed.                                              *)

Running(l) == logout[l] \in {"clearing", "cleared"}

\* Mutation: the session ends and the tunnel is left to the next login.
LogoutWithoutClear(l) ==
  /\ window = "open" /\ panel = "dashboard" /\ logout[l] = "idle"
  /\ doubled' = (doubled \/ \E k \in Logouts : Running(k))
  /\ logout' = [logout EXCEPT ![l] = "cleared"]
  /\ UNCHANGED <<interface, current, at, outcome, machine, runtime>>

\* Without the runtime there is nothing to await.
Logout(l) ==
  /\ window = "open" /\ panel = "dashboard" /\ logout[l] = "idle"
  /\ doubled' = (doubled \/ \E k \in Logouts : Running(k))
  /\ IF runtime
     THEN logout' = [logout EXCEPT ![l] = "clearing"] /\ UNCHANGED <<panel, api>>
     ELSE logout' = [logout EXCEPT ![l] = "done"] /\ panel' = "login" /\ api' = None
  /\ UNCHANGED <<window, button, current, at, outcome, machine, runtime>>

ClearingEnds(l) ==
  /\ logout[l] = "clearing"
  /\ logout' = [logout EXCEPT ![l] = "cleared"]
  /\ Uninstall
  /\ UNCHANGED <<interface, current, at, outcome, conf, runtime, doubled>>

Cleared(l) ==
  /\ window = "open" /\ logout[l] = "cleared"
  /\ logout' = [logout EXCEPT ![l] = "done"]
  /\ api' = None /\ panel' = "login"
  /\ UNCHANGED <<window, button, current, at, outcome, machine, runtime, doubled>>

\* Mutation: the window closes without waiting for anything.
CloseAtOnce ==
  /\ window = "open"
  /\ window' = "stuck"
  /\ UNCHANGED <<panel, button, api, handlers, machine, runtime, doubled>>

\* OnClosed starts the command and blocks the UI thread, which the rest of ClearAsync needs.
Close ==
  /\ window = "open"
  /\ IF runtime
     THEN window' = "closing" /\ UNCHANGED api
     ELSE window' = "closed" /\ api' = None
  /\ UNCHANGED <<panel, button, handlers, machine, runtime, doubled>>

CloseEnds ==
  /\ window = "closing"
  /\ window' = "stuck"
  /\ Uninstall
  /\ UNCHANGED <<panel, button, api, handlers, conf, runtime, doubled>>

\* The application dies, of an exception or of the user's impatience with a closed window
\* that does not go.  Commands that run go on.
Die ==
  /\ window \in {"open", "stuck"}
  /\ window' = "closed"
  /\ left' = (left \/ tunnel # None)
  /\ UNCHANGED <<panel, button, api, handlers, conf, tunnel, runtime, doubled>>

----------------------------------------------------------------------------

\* The steps of Login_Click but for the answer of the bootstrap.
LoginStep ==
  \/ AuthenticationEnds \/ Authenticated \/ Configure \/ WriteEnds \/ Written
  \/ UninstallEnds \/ Uninstalled \/ InstallEnds \/ Installed

LogoutStep(l) == ClearingEnds(l) \/ Cleared(l)

ClientNext ==
  \/ \E f \in Logins : Click(f)
  \/ \E result \in Outcomes \ {"pending"} : BootstrapEnds(result)
  \/ LoginStep
  \/ \E l \in Logouts : Logout(l) \/ LogoutStep(l)
  \/ Close \/ CloseEnds \/ Die

ClientSpec == ClientInit /\ [][ClientNext]_client

----------------------------------------------------------------------------
(* Properties.                                                             *)

\* A user who has logged out, or whose login failed, has no tunnel: one is there only if it
\* was installed behind the logout, its removal failed, or an earlier run has left it
\* (windows/README.md: logging out or closing the window removes the tunnel service).
LoggedOutMeansNoTunnel == panel = "login" /\ tunnel # None => left

\* Nobody who has logged out or closed the window is connected after that: logging out or
\* closing the window removes the tunnel service (windows/README.md 48-49; logout and close
\* leave a connection that is being made to itself). A window is "stuck" once it was closed;
\* the command of an application that was killed is no matter of this promise.
ConnectsOnlySessions ==
  [][tunnel' \in Logins /\ tunnel' # tunnel =>
       panel = "dashboard" /\ window # "stuck"]_client

\* The private key lies in GOne.conf only while the connection that wrote it is being made,
\* whichever of its commands fails (WindowsVpnManager.cs 25-34).
KeyFileIsOfConnection == conf \in Logins /\ window = "open" => conf = current

\* The dashboard has a session unless logout was clicked twice (MainWindow.xaml.cs 76-84):
\* neither a failed configuration nor one the user did not wait for takes it away.
DashboardHasSession == panel = "dashboard" /\ window = "open" /\ ~ doubled => api # None
=============================================================================
