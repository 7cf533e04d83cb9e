---------------------------- MODULE ClientSession ----------------------------
(***************************************************************************)
(* A Windows client and its server: the calls of bootstrap_client are the  *)
(* requests of WindowsClient.  A client that disposes its session or loses *)
(* patience gives up on the answer; the handler of the call goes on.       *)
(***************************************************************************)
EXTENDS WindowsClient, ClientBootstrap

CONSTANT
  Scenarios    \* pairs of what a client and its server begin with

\* Every login makes one call.
ASSUME SessionAssumption == Calls = Logins /\ Scenarios \subseteq Machines \X Servings

vars == <<window, panel, button, api, current, at, outcome, logout, conf, tunnel, runtime,
          left, doubled,
          user, profile, pending, fileServer, device, peer, code, call, changes, troubled>>

TypeOK == ClientTypeOK /\ TablesTypeOK

Init ==
  /\ ClientInit /\ BootstrapInit
  /\ \E begin \in Scenarios : Runs(begin[1]) /\ Serves(begin[2])

\* create_user_session() and get_current_principal() answer an active account.
SignIn ==
  /\ AuthenticationEnds
  /\ outcome' = "ok" => user # "gone"
  /\ UNCHANGED bootstrap

\* BootstrapAsync sends its request at once.
Enter ==
  /\ Authenticated
  /\ IF at' = "bootstrap" THEN Send(current) ELSE UNCHANGED bootstrap

\* What the request comes to: the answer of its call, an error, or nothing in time.
Receive ==
  /\ \/ BootstrapEnds("error")
     \/ /\ at = "bootstrap" /\ call[current].stage = "answered"
        /\ BootstrapEnds(IF call[current].vpn THEN "profile" ELSE "ok")
  /\ UNCHANGED bootstrap

Connect ==
  /\ \/ Configure \/ WriteEnds \/ Written
     \/ UninstallEnds \/ Uninstalled \/ InstallEnds \/ Installed
  /\ UNCHANGED bootstrap

Login == SignIn \/ Enter \/ Receive \/ Connect

LogoutGoesOn(l) == LogoutStep(l) /\ UNCHANGED bootstrap

CloseGoesOn == CloseEnds /\ UNCHANGED bootstrap

User ==
  /\ \/ \E f \in Logins : call[f].stage = "idle" /\ Click(f)
     \/ \E l \in Logouts : Logout(l)
     \/ Close \/ Die
  /\ UNCHANGED bootstrap

Server == (Manage \/ \E c \in Calls : CallStep(c)) /\ UNCHANGED client

Next ==
  \/ User \/ Login \/ CloseGoesOn \/ Server
  \/ \E l \in Logouts : LogoutGoesOn(l)

\* Requests end by an answer or after the 100 seconds of HttpClient, commands of
\* wireguard.exe end, and the UI thread runs what is due unless it is blocked.  Nobody has to
\* click, and no call has to be answered.
Fairness ==
  /\ WF_vars(Login) /\ WF_vars(CloseGoesOn)
  /\ \A l \in Logouts : WF_vars(LogoutGoesOn(l))

Spec == Init /\ [][Next]_vars /\ Fairness

----------------------------------------------------------------------------
(* Properties.                                                             *)

\* The key of the tunnel is the one the server knows for the user's address, unless an
\* administrator revoked it, another device took the address over, or an older call of this
\* client was carried out late (api.py 704-737, MainWindow.xaml.cs 61-74).
TunnelIsServed ==
  tunnel \in Logins /\ ~ left /\ tunnel \notin troubled =>
    peer.state = "on" /\ peer.key = tunnel

\* The login button comes back and a logout ends: no answer that never comes, no disposed
\* session and no failed command holds them up (MainWindow.xaml.cs 46-49 and 76-84).
WindowAnswers ==
  /\ ~ button ~> button \/ window # "open"
  /\ \A l \in Logouts : Running(l) ~> ~ Running(l) \/ window # "open"

\* Closing the window removes the tunnel, although its handler never returns, unless a
\* connection was being made or the removal failed (windows/README.md, OnClosed).
CloseRemovesTunnel == window \in {"closing", "stuck"} ~> tunnel = None \/ left
=============================================================================
