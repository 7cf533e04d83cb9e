---------------------------- MODULE MCServerStart ----------------------------
(***************************************************************************)
(* ServerStart with the revisions of this build, two ports, two database   *)
(* users and at most two scripts.                                          *)
(***************************************************************************)
EXTENDS ServerStart, Revisions

CONSTANTS
  first, second,   \* the scripts
  kept, older      \* secrets

MCScripts == {first, second}
MCKnown == {kept, older}
MCUsers == {"g_one", "other"}
MCPorts == {8000, 8001}
MCOrigins == {{}, Baseline, OrmSchema}
MCNeeded == Tables \cup LateColumns \cup Baseline

Blank == [root |-> Unset, password |-> Unset, user |-> "g_one", port |-> 8000]
Kept == [Blank EXCEPT !.root = kept, !.password = kept]
Older == [root |-> older, password |-> older, user |-> "g_one"]

Quiet == [p \in MCPorts |-> "nobody"]

One == {[s \in {first} |-> "deploy"]}
Beside(commands) ==
  {[s \in MCScripts |-> IF s = first THEN "deploy" ELSE c] : c \in commands}

\* A deploy by itself meets two faults, one beside another script meets one.
Server(settings, volumes, site, base, schemas, commands) ==
  [env |-> settings, volume |-> volumes, mariadb |-> base, recovery |-> FALSE,
   web |-> [state |-> site,
            env |-> IF volumes = Unset THEN settings
                    ELSE [root |-> volumes.root, password |-> volumes.password,
                          user |-> volumes.user, port |-> 8000]],
   holder |-> Quiet, schemas |-> schemas, commands |-> commands,
   faults |-> IF commands = One THEN 2 ELSE 1]

\* A machine without anything, or with nothing but a legacy uvicorn on the port.
FirstInstallation == Server(Blank, Unset, "absent", "absent", {{}}, One)
Legacy == [FirstInstallation EXCEPT !.holder[8000] = "legacy"]

\* A server of the foundation release.
Foundations == Server(Kept, CredentialsOf(Kept), "running", "up", {Baseline}, One)

\* A volume moved to a machine whose .env is made anew while someone else sets it up too.
MovedVolume == Server(Blank, Older, "absent", "absent", {OrmSchema},
                      Beside({"deploy", "configure"}))

\* A server at work that is deployed while an operator or the next deploy job does something
\* else; the passwords of .env may have been replaced since it was started.
Redeployment(volumes, commands) ==
  Server(Kept, volumes, "running", "up", {OrmSchema}, Beside(commands))

\* A stranger on the port.
Stranger ==
  [Redeployment(Older, {"configure"}) EXCEPT !.holder[8000] = "stranger", !.web.state = "stopped"]

MCScenarios ==
  {FirstInstallation, Legacy, Foundations, MovedVolume, Stranger,
   Redeployment(Older, {"deploy", "stop", "restart"}),
   Redeployment(CredentialsOf(Kept), {"start", "configure"})}
=============================================================================
