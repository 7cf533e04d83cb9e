----------------------------- MODULE ServerStart -----------------------------
(***************************************************************************)
(* How a server comes up: the scripts that prepare .env, synchronise the   *)
(* credentials MariaDB keeps in its volume and start the containers (the   *)
(* deploy job, configure_server.py, ensure_compose_env.py,                 *)
(* sync_database_credentials.py, manage_server.py, host_port.py), composed *)
(* with the upgrade the API runs at every start (Migrations).              *)
(*                                                                         *)
(* Several scripts may run at once: nothing locks .env or the containers,  *)
(* and a deploy job that is cancelled leaves its remote shell behind.      *)
(* Left out: settings that neither decide a login nor a port, pulling and  *)
(* building images, and commands that only report.                         *)
(***************************************************************************)
EXTENDS Migrations

CONSTANTS
  Scripts,    \* processes, each of them one command of an operator or one deploy job
  Users,      \* names for G_ONE_DB_USER
  Ports,
  Scenarios,  \* what the server may look like at first
  Known,      \* secrets from before
  MaxFaults,  \* bound of `faults`
  Unset       \* a secret .env lacks; credentials nobody has applied

Commands == {"deploy", "start", "stop", "restart", "configure"}

Secrets == Known \cup (Scripts \X Commands)

Environments ==
  [root : Secrets \cup {Unset}, password : Secrets \cup {Unset}, user : Users, port : Ports]

Credentials == [root : Secrets, password : Secrets, user : Users]

\* What the scripts take from .env to reach the database.
CredentialsOf(e) == [root |-> e.root, password |-> e.password, user |-> e.user]

Complete(e) == e.root # Unset /\ e.password # Unset

ASSUME UnsetAssumption ==
  /\ Unset \notin Secrets
  /\ Unset \notin [root : Secrets \cup {Unset}, password : Secrets \cup {Unset}, user : Users]

\* No scenario begins in the middle of a recovery.
ASSUME ScenariosAssumption ==
  /\ MaxFaults \in Nat
  /\ \A begin \in Scenarios :
       /\ begin.env \in Environments
       /\ begin.volume \in Credentials \cup {Unset}
       /\ begin.mariadb \in {"absent", "stopped", "up"} /\ begin.recovery = FALSE
       /\ begin.web \in [state : {"absent", "stopped", "running"}, env : Environments]
       /\ begin.holder \in [Ports -> {"nobody", "legacy", "stranger"}]
       /\ \A commands \in begin.commands : \A s \in DOMAIN commands : commands[s] \in Commands
       /\ begin.faults \in 0 .. MaxFaults

VARIABLES
  env,        \* .env
  volume,     \* the credentials in the database volume; Unset before its first start
  mariadb,    \* the database container
  recovery,   \* the container without grant tables holds the volume
  web,        \* the web container, with the settings it was created with
  holder,     \* who else listens on a port
  script,     \* what each script is at
  faults

server == <<env, volume, mariadb, recovery, web, holder>>
vars == <<env, volume, mariadb, recovery, web, holder, script, faults, migration>>

Steps ==
  {"idle", "ensure", "replace", "write", "database", "sync", "authenticate", "stop", "recover",
   "reset", "remove", "give up", "again", "port", "up", "wait", "down", "restart",
   "done", "failed", "killed"}

Programs ==
  [step : Steps, command : Commands, env : Environments,
   applied : Credentials \cup {Unset}, alone : BOOLEAN]

TypeOK ==
  /\ UpgradeTypeOK
  /\ env \in Environments
  /\ volume \in Credentials \cup {Unset}
  /\ mariadb \in {"absent", "stopped", "up"}
  /\ recovery \in BOOLEAN
  /\ web \in [state : {"absent", "stopped", "running"}, env : Environments]
  /\ holder \in [Ports -> {"nobody", "legacy", "stranger"}]
  /\ script \in [Scripts -> Programs]
  /\ faults \in 0 .. MaxFaults

Init ==
  /\ UpgradeInit
  /\ \E begin \in Scenarios :
       /\ env = begin.env /\ volume = begin.volume /\ recovery = begin.recovery
       /\ mariadb = begin.mariadb /\ holder = begin.holder
       /\ web = begin.web
       /\ schema \in begin.schemas
       /\ \E commands \in begin.commands :
            script = [s \in Scripts |->
                       [step |-> IF s \in DOMAIN commands THEN "idle" ELSE "done",
                        command |-> IF s \in DOMAIN commands THEN commands[s] ELSE "start",
                        env |-> begin.env, applied |-> Unset, alone |-> FALSE]]
       /\ faults = MaxFaults - begin.faults

Active(s) == script[s].step \notin {"idle", "done", "failed", "killed"}

Available == mariadb = "up" /\ ~ recovery

\* The web container's login is one the database accepts.
Admitted ==
  /\ volume # Unset
  /\ web.env.user = volume.user /\ web.env.password = volume.password

Reachable == web.state = "running" /\ Available /\ Admitted

----------------------------------------------------------------------------
(* Running a script.                                                       *)

At(s, step) == script[s].step = step

Go(s, step) == script' = [script EXCEPT ![s].step = step]

\* What the command does once .env is complete.
AfterEnsure(command) ==
  CASE command = "deploy" -> "database"
    [] command = "start" -> "port"
    [] command = "stop" -> "down"
    [] OTHER -> "restart"

\* A deploy nothing in its way: the only script at work, no recovery server left behind,
\* the database user of .env the one the volume knows, no stranger on the port.
Deployable(s) ==
  /\ script[s].command = "deploy"
  /\ \A t \in Scripts : ~ Active(t)
  /\ ~ recovery /\ holder[env.port] # "stranger"
  /\ volume # Unset => volume.user = env.user

Start(s) ==
  /\ At(s, "idle")
  /\ script' = [t \in Scripts |->
       IF t = s THEN [script[s] EXCEPT !.step = "ensure", !.alone = Deployable(s)]
       ELSE [script[t] EXCEPT !.alone = FALSE]]
  /\ UNCHANGED <<server, faults, migration>>

\* The process of the API ends, if there is one.
Ends == Cut \/ (api = "off" /\ UNCHANGED migration)

----------------------------------------------------------------------------
(* .env: read, then replaced whole by what was read and changed.           *)

Completed(s, e) ==
  LET fresh(value) == IF value = Unset THEN <<s, script[s].command>> ELSE value IN
  [e EXCEPT !.root = fresh(e.root), !.password = fresh(e.password)]

EnsureEnvironment(s) ==
  /\ At(s, "ensure") /\ script[s].command # "configure"
  /\ script' = [script EXCEPT
       ![s].env = Completed(s, env),
       ![s].step = IF Complete(env) THEN AfterEnsure(script[s].command) ELSE "replace"]
  /\ UNCHANGED <<server, faults, migration>>

ReplaceEnvironment(s) ==
  /\ At(s, "replace")
  /\ env' = script[s].env
  /\ Go(s, AfterEnsure(script[s].command))
  /\ UNCHANGED <<volume, mariadb, recovery, web, holder, faults, migration>>

ReadSettings(s) ==
  /\ At(s, "ensure") /\ script[s].command = "configure"
  /\ \E e \in {[env EXCEPT !.port = p] : p \in Ports} \cup {[env EXCEPT !.user = u] : u \in Users} :
       script' = [script EXCEPT ![s].env = e, ![s].step = "write"]
  /\ UNCHANGED <<server, faults, migration>>

WriteSetting(s) ==
  /\ At(s, "write")
  /\ env' = script[s].env
  /\ Go(s, "done")
  /\ UNCHANGED <<volume, mariadb, recovery, web, holder, faults, migration>>

----------------------------------------------------------------------------
(* The database container and its credentials.                             *)

\* The first start of the container puts the credentials of .env into the volume.
Initialised == IF volume = Unset THEN CredentialsOf(env) ELSE volume

\* What follows the synchronisation: the deploy job runs manage_server.py start.
Synchronised(s) ==
  [script[s] EXCEPT !.command = "start", !.step = "ensure",
                    !.applied = CredentialsOf(script[s].env)]

\* docker compose up -d database --wait, before the synchronisation and again after a
\* recovery.  A container whose settings changed is replaced, which ends an API at its start;
\* one that cannot have the volume is started, but gets healthy only once it can.
UpDatabase(s) ==
  /\ At(s, "database") \/ At(s, "again")
  /\ IF Complete(env)
     THEN /\ volume' = Initialised /\ mariadb' = "up"
          /\ (api # "serving" /\ Ends) \/ UNCHANGED migration
     ELSE UNCHANGED <<volume, mariadb, migration>>
  /\ script' = [script EXCEPT ![s] =
       IF ~ Complete(env) \/ recovery THEN [script[s] EXCEPT !.step = "failed"]
       ELSE IF At(s, "again") THEN Synchronised(s)
       ELSE [script[s] EXCEPT !.step = "sync"]]
  /\ UNCHANGED <<env, recovery, web, holder, faults>>

ReadCredentials(s) ==
  /\ At(s, "sync")
  /\ script' = [script EXCEPT
       ![s].env = env, ![s].step = IF Complete(env) THEN "authenticate" ELSE "failed"]
  /\ UNCHANGED <<server, faults, migration>>

\* Mutation: only the root password is altered.
AlteredRoot(e) == [volume EXCEPT !.root = e.root]

\* The statement that alters both accounts.  It stops at a user the database lacks.
Altered(e) ==
  [root |-> e.root, user |-> volume.user,
   password |-> IF e.user = volume.user THEN e.password ELSE volume.password]

\* Whatever keeps the statement from succeeding is taken for an unknown root password.
Authenticate(s) ==
  LET e == script[s].env
      admitted == Available /\ volume # Unset /\ volume.root = e.root
  IN
  /\ At(s, "authenticate")
  /\ volume' = IF admitted THEN Altered(e) ELSE volume
  /\ IF admitted /\ e.user = volume.user
     THEN script' = [script EXCEPT ![s] = Synchronised(s)]
     ELSE Go(s, "stop")
  /\ UNCHANGED <<env, mariadb, recovery, web, holder, faults, migration>>

\* docker compose stop web database, and the removal of a recovery server left behind.
StopServices(s) ==
  /\ At(s, "stop")
  /\ web' = IF web.state = "running" THEN [web EXCEPT !.state = "stopped"] ELSE web
  /\ mariadb' = IF mariadb = "up" THEN "stopped" ELSE mariadb
  /\ recovery' = FALSE
  /\ Ends
  /\ Go(s, "recover")
  /\ UNCHANGED <<env, volume, holder, faults>>

\* The server without grant tables.  It gives up by itself when the volume is taken, and its
\* name can be taken too.
RunRecovery(s) ==
  /\ At(s, "recover")
  /\ recovery' = (recovery \/ mariadb # "up")
  /\ Go(s, IF mariadb = "up" \/ recovery THEN "give up" ELSE "reset")
  /\ UNCHANGED <<env, volume, mariadb, web, holder, faults, migration>>

\* Mutation: a statement that fails leaves the script without the finally clause.
ResetCredentialsNoFinally(s) ==
  LET e == script[s].env IN
  /\ At(s, "reset")
  /\ volume' = IF recovery THEN Altered(e) ELSE volume
  /\ Go(s, IF recovery /\ e.user = volume.user THEN "remove" ELSE "failed")
  /\ UNCHANGED <<env, mariadb, recovery, web, holder, faults, migration>>

ResetCredentials(s) ==
  LET e == script[s].env IN
  /\ At(s, "reset")
  /\ volume' = IF recovery THEN Altered(e) ELSE volume
  /\ Go(s, IF recovery /\ e.user = volume.user THEN "remove" ELSE "give up")
  /\ UNCHANGED <<env, mariadb, recovery, web, holder, faults, migration>>

\* The finally clause, on the way on or on the way out.
RemoveRecovery(s) ==
  /\ At(s, "remove") \/ At(s, "give up")
  /\ recovery' = FALSE
  /\ Go(s, IF At(s, "remove") THEN "again" ELSE "failed")
  /\ UNCHANGED <<env, volume, mariadb, web, holder, faults, migration>>

----------------------------------------------------------------------------
(* manage_server.py.                                                       *)

\* The port of .env is freed if G-One itself holds it.
EnsureHostPort(s) ==
  LET port == env.port
      own == web.state = "running" /\ web.env.port = port
  IN
  /\ At(s, "port")
  /\ IF own THEN web' = [web EXCEPT !.state = "absent"] /\ Ends
            ELSE UNCHANGED <<web, migration>>
  /\ holder' = [holder EXCEPT ![port] = IF @ = "legacy" THEN "nobody" ELSE @]
  /\ script' = [script EXCEPT
       ![s].env.port = port, ![s].step = IF holder[port] = "stranger" THEN "failed" ELSE "up"]
  /\ UNCHANGED <<env, volume, mariadb, recovery, faults>>

\* Mutation: a web container that exists is started as it is.
UpServicesReuse(s) ==
  /\ At(s, "up")
  /\ volume' = Initialised /\ mariadb' = "up"
  /\ Ends
  /\ web' = IF web.state = "absent" THEN [state |-> "running", env |-> env]
            ELSE [web EXCEPT !.state = "running"]
  /\ Go(s, "wait")
  /\ UNCHANGED <<env, recovery, holder, faults>>

\* docker compose up -d --build: the web container waits for a healthy database; it is
\* replaced when its settings or its image changed.
UpServices(s) ==
  /\ At(s, "up")
  /\ IF Complete(env)
     THEN volume' = Initialised /\ mariadb' = "up"
     ELSE UNCHANGED <<volume, mariadb>>
  /\ IF ~ Complete(env) \/ recovery
     THEN Go(s, "failed") /\ UNCHANGED <<web, migration>>
     ELSE \/ /\ web = [state |-> "running", env |-> env]
             /\ Go(s, "wait") /\ UNCHANGED <<web, migration>>
          \/ /\ Ends
             /\ web' = [state |-> IF holder[env.port] = "nobody" THEN "running" ELSE "stopped",
                        env |-> env]
             /\ Go(s, IF holder[env.port] = "nobody" THEN "wait" ELSE "failed")
  /\ UNCHANGED <<env, recovery, holder, faults>>

\* docker compose restart: the containers that exist, with the settings they were made with.
RestartServices(s) ==
  LET free == holder[web.env.port] = "nobody" IN
  /\ At(s, "restart")
  /\ web' = IF web.state = "absent" THEN web
            ELSE [web EXCEPT !.state = IF free THEN "running" ELSE "stopped"]
  /\ mariadb' = IF mariadb = "absent" THEN mariadb ELSE "up"
  /\ Ends
  /\ script' = [script EXCEPT ![s].env.port = env.port, ![s].step = "wait"]
  /\ UNCHANGED <<env, volume, recovery, holder, faults>>

\* Mutation: the container is forgotten rather than removed.
DownServicesHalf(s) ==
  /\ At(s, "down")
  /\ web' = [web EXCEPT !.state = "down"] /\ mariadb' = "absent"
  /\ Ends
  /\ Go(s, "done")
  /\ UNCHANGED <<env, volume, recovery, holder, faults>>

\* docker compose down.
DownServices(s) ==
  /\ At(s, "down")
  /\ web' = [web EXCEPT !.state = "absent"] /\ mariadb' = "absent"
  /\ Ends
  /\ Go(s, "done")
  /\ UNCHANGED <<env, volume, recovery, holder, faults>>

Ready(s) == api = "serving" /\ Reachable /\ web.env.port = script[s].env.port

WaitUntilReady(s) ==
  /\ At(s, "wait")
  /\ \/ Ready(s) /\ Go(s, "done")
     \/ Go(s, "failed")
  /\ UNCHANGED <<server, faults, migration>>

----------------------------------------------------------------------------
(* The API in the web container, and faults.                               *)

\* An attempt that does not reach the database ends at once: no step.
BeginUpgrade ==
  /\ Reachable
  /\ Begin
  /\ UNCHANGED <<server, script, faults>>

WorkUpgrade ==
  /\ Available
  /\ Work
  /\ UNCHANGED <<server, script, faults>>

ManageAccounts ==
  /\ Available
  /\ Administer
  /\ UNCHANGED <<server, script, faults>>

Disturbed(steps) ==
  /\ faults < MaxFaults /\ faults' = faults + 1
  /\ script' = [s \in Scripts |->
       [script[s] EXCEPT !.alone = FALSE,
                         !.step = IF s \in DOMAIN steps THEN steps[s] ELSE script[s].step]]

\* The process of the API or MariaDB dies; Docker starts it again.
Crash ==
  /\ Cut
  /\ Disturbed(<<>>)
  /\ UNCHANGED server

\* A command of the script fails, or the script raises before it.
Fail(s) ==
  /\ Active(s) /\ script[s].step \notin {"remove", "give up"}
  /\ Disturbed([t \in {s} |->
       CASE script[s].step = "authenticate" -> "stop"
         [] script[s].step \in {"recover", "reset"} -> "give up"
         [] OTHER -> "failed"])
  /\ UNCHANGED <<server, migration>>

\* The script itself dies, finally clause and all.
Kill(s) ==
  /\ script[s].step \in {"reset", "remove", "give up"}
  /\ Disturbed([t \in {s} |-> "killed"])
  /\ UNCHANGED <<server, migration>>

Step(s) ==
  \/ EnsureEnvironment(s) \/ ReplaceEnvironment(s) \/ ReadSettings(s) \/ WriteSetting(s)
  \/ UpDatabase(s) \/ ReadCredentials(s) \/ Authenticate(s)
  \/ StopServices(s) \/ RunRecovery(s) \/ ResetCredentials(s) \/ RemoveRecovery(s)
  \/ EnsureHostPort(s) \/ UpServices(s) \/ RestartServices(s) \/ DownServices(s)
  \/ WaitUntilReady(s)

Upgrade == BeginUpgrade \/ WorkUpgrade

Next ==
  \/ \E s \in Scripts : Start(s) \/ Step(s) \/ Fail(s) \/ Kill(s)
  \/ Upgrade \/ ManageAccounts \/ Crash

\* A script that was started goes on, and Docker keeps starting the API (restart:
\* unless-stopped).  Nobody has to start a script.
Fairness == WF_vars(Upgrade) /\ \A s \in Scripts : WF_vars(Step(s))

Spec == Init /\ [][Next]_vars /\ Fairness

----------------------------------------------------------------------------
(* Properties.                                                             *)

\* MariaDB without grant tables runs only inside the recovery of a script or after one that
\* was killed there, and never together with an API at work
\* (sync_database_credentials.py 58-85).
GrantlessIsContained ==
  /\ recovery => \E s \in Scripts : script[s].step \in {"reset", "remove", "give up", "killed"}
  /\ recovery \/ mariadb # "up" => api = "off"

\* Whether a script may have altered the accounts of the database.
Alters(s) ==
  \/ script[s].applied # Unset
  \/ script[s].command = "deploy" /\ script[s].step \notin {"idle", "ensure", "replace", "database"}

\* A deploy that is past the synchronisation has brought the credentials of .env into the
\* volume, recovery or not, whatever the scripts beside it do; only a second deploy, racing
\* with it, may put there what it read (sync_database_credentials.py 88-104).
CredentialsHold ==
  \A s \in Scripts :
    script[s].applied = CredentialsOf(env) /\ (\A t \in Scripts \ {s} : ~ Alters(t)) =>
      volume = CredentialsOf(env)

\* Once the faults are over, a web container that can reach the database for good ends up
\* serving for good: no interrupted upgrade makes the next one fail (migrations 0001-0007).
RestartServes == <>[]Reachable => <>[](api = "serving")

\* A deploy that nothing disturbs ends with an API that serves with the credentials of .env,
\* whatever the volume held: recovery included (deploy-on-pr-merge.yml 102-109).
DeployConverges ==
  \A s \in Scripts :
    script[s].alone ~>
      \/ ~ script[s].alone
      \/ api = "serving" /\ Reachable /\ CredentialsOf(web.env) = CredentialsOf(env)

\* A deploy that nothing disturbs fails at most in waiting: it leaves a web container that runs
\* with the credentials of .env and can reach the database, whatever the volume held
\* (sync_database_credentials.py 88-104, manage_server.py).
DeployReaches ==
  \A s \in Scripts :
    script[s].alone /\ script[s].step \in {"wait", "done", "failed"} =>
      Reachable /\ CredentialsOf(web.env) = CredentialsOf(env)
=============================================================================
