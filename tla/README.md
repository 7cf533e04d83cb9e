# TLA+ models of Project G-One

G-One is a self-hosted control plane (FastAPI, SQLAlchemy, MariaDB) that manages a
WireGuard gateway, accounts, devices, remote-support consent and the distribution of a
Windows client. This directory holds TLA+ modules for the parts whose correctness
depends on order, concurrency and failure, the TLC configurations that check them, and
proofs checked by TLAPS.

## Running

    tlc -config Support_concurrent.cfg MCSupportRequests.tla
    tlapm VpnControlProofs.tla

`PROJECT.json` lists the runs, which source lines each definition models, the mutations
that show that each property can fail, the findings, the hazards and the theorems.

## Inventory of the system

| Part | State | Operations | What is hard | What makes it correct |
| --- | --- | --- | --- | --- |
| Remote support (`api.py` 859-1001) | `devices`, `support_requests`, `audit_events` | create and revoke a device; create, decide, end a request | handlers run in parallel on snapshots; the deadline | no session without the owner's recorded consent; refusals final; tenants apart; audit tells the state |
| VPN control (`api.py` 634-810, 1034-1198; `wireguard.py`; `main.py`) | `vpn_networks`, `vpn_peers`, `wg0.conf`, `wg0` | configure network; create, route, revoke, rotate peer; restore at start | three stores without a common transaction; no lock on file and interface; crashes | the interface serves what the database says; a revoked key is not served; a failed change keeps the service |
| Accounts and sessions (`api.py` 77-158, 557-630; `auth.py`) | `installation_state`, `workspace_users`, signed tokens | claim the installation, log in, create, update, delete a user | one-time claim; write skew; tokens outlive roles | one claim; always an administrator |
| Deployment (`api.py` 201-541, 633-756) | `file_servers`, `client_deployment_profiles`, `client_enrollment_codes` | maintain profiles and servers; download a bundle; bootstrap a client | lists rewritten from snapshots; code expiry and activation | only targeted, active users get a profile; a code never activates after its expiry |
| API tokens (`api.py` 813-845) | `api_tokens` | issue, revoke | nothing concurrent | - |
| Migrations (`migrations.py`, `alembic/`) | schema, `alembic_version`, the row of `installation_state` | upgrade at start | DDL commits by itself; an upgrade can be cut off anywhere | a served schema is complete; interrupted upgrades come to an end; the setup page is open exactly until the first account |
| Windows client (`windows/GOne.Client`) | session, `GOne.conf`, installed tunnel | log in, configure, log out, close | events between awaits; blocking close; requests that outlive their client | no tunnel after logout; no key left in a file; the tunnel is the one the server knows |
| Administration scripts and deploy job (`scripts/`, `compose.yaml`, `deploy-on-pr-merge.yml`) | `.env`, the database volume, the containers | complete and change `.env`, synchronise and recover credentials, start, stop, restart | interrupted or concurrent commands; a recovery without grants | the server comes up with the credentials of `.env`; nothing is served without grants |
| Addresses and routes (`wireguard.py` 92-111) | - | `address_belongs`, `normalize_allowed_ips` | prefixes and textual equality | equal hosts are equal |
| Schemas, key arithmetic, console, packaging | - | - | - | not modelled, see below |

Interaction: the handlers share the database and nothing else, except that VPN handlers
also write one file and one interface. Every handler joins its audit event to its own
transaction. A token names subject, tenant and roles and is believed without a look at
the database (`auth.py` 93-102), so a handler's principal is an input of the models.
`lifespan` (`main.py` 38-45) migrates, restores the interface and only then accepts calls.
The scripts meet the API in the containers they start and in `.env`, from which both the
database's accounts and the API's login come. The client meets it in `bootstrap_client`.

### Setting

The models describe the production setting of `compose.yaml`: MariaDB 11.4, whose
InnoDB runs transactions in REPEATABLE READ and, until 11.6.2, lets a transaction update
a row that changed after its snapshot (`innodb_snapshot_isolation` is off). FastAPI runs
the synchronous handlers in a thread pool; each has its own session (`db.py` 19-21).
SQLAlchemy writes only the changed columns, by primary key, without a version counter.
The test suite uses SQLite in one thread, so none of its tests meets these interleavings.

## Modules

| Module | What it is |
| --- | --- |
| `Consent` | what a support request promises, over `phase` and `acts`: `StrictSpec` (the phase moves only along the lifecycle) and the weaker `LedgerSpec` (every phase was recorded and follows a recorded one) |
| `SupportRequests` | the handlers of devices and support requests as transactions |
| `SupportRequestsProofs` | types, consent, tenant separation, deadline |
| `SupportRefinementProofs` | audit log, the two refinements to `Consent`, and what holds while handlers do not overlap |
| `VpnControl` | VPN handlers, `wg0.conf`, `wg0`, faults, restart |
| `VpnControlProofs` | types, that the interface follows the database, and what revocations and faults do while handlers do not overlap |
| `Workspace` | setup, accounts, deployment profiles and enrollment codes as transactions |
| `WorkspaceProofs` | types, all safety invariants and all action properties of `Workspace`, and that deletions which do not race keep an administrator |
| `Revisions` | the seven upgrades as data: statements in their order and what makes them skip |
| `Migrations` | the start of the API: upgrade, restoration, traffic; cut off anywhere |
| `MigrationsProofs` | all safety invariants: served schemas are complete, uninterrupted ones mirror the models, no start repeats a statement, the setup page is decided |
| `ServerStart` | scripts, `.env`, database volume and containers, composed with `Migrations` (`EXTENDS`) |
| `ServerStartProofs` | refinement of `Migrations`, all safety invariants, and where an undisturbed deploy ends |
| `WindowsClient` | window, session, key file and tunnel service of the client |
| `WindowsClientProofs` | the client's inductive invariant |
| `ClientBootstrap` | `bootstrap_client` beside administrators and other devices |
| `ClientSession` | client and server composed |
| `ClientSessionProofs` | that the composition implements both parts, and all safety invariants |
| `MCSupportRequests`, `MCVpnControl`, `MCWorkspace`, `MCServerStart`, `MCClientSession` | small instances for TLC |

`SupportRequests` implements the abstract `Consent` under a refinement mapping. A server
start implements `Migrations`, and a client session implements both `WindowsClient` and
`ClientBootstrap`, each as the projection on its variables: what is proved of a part
holds in the composition.

### SupportRequests

State: `clock` (`now()`), `device`, `request` and `audits` (the three tables), and `tx`,
the open transaction of each worker. A handler is a Read action, which evaluates every
guard on the present state (the snapshot) and remembers the row and the values it
computed, and a Write action, which commits row and audit event together. In between,
other workers run. `decide_support_request` has a third step, `CheckDeadline`, since it
compares the deadline with a `now()` taken after its reads. `create_device` reads nothing
and is one step. `Abort` rolls back anywhere. A handler whose guard fails answers an error
and changes nothing, so that is no step.

Left out: `purpose`, `permissions`, `decided_at`, `ended_at`, `revoked_at` (written along
with the state, read by no guard of these handlers), wording of errors, the list handlers.
Flush and commit are one step: between them the row is locked and nothing of it is
visible, so only the time at which others block differs.

### VpnControl

State: `network` and `peer` (tables), `file` (`wg0.conf`), `iface` (what `wg0` runs), `tx`
(one handler per worker), `serving` (the API accepts calls). A handler passes the stages
begun, flushed, filed, downed, applied: it reads its snapshot and renders the tenant's
configuration with its own change in it (`Begin...`), takes the row lock (`Flush`, with
`Blocks` and `Unique` as InnoDB's locks and constraints), writes the file, takes the
interface down, brings it up from whatever the file holds by then, and commits. Faults
are chosen by the constant `Faults`: a failed write (which truncates the file), a failed
`wg-quick up`, a failed commit, a stop of the container. `Restore` is
`restore_wireguard`, run before the API serves.

`doubtful` and the handler field `solo` are history variables: they never guard an action.
`doubtful` says that the configuration last brought up came from a handler that
overlapped another (`raced`) or, alone, failed to commit (`failed`). `RuntimeIsDatabase` has
to except both, `RevocationHolds` only the first.

Left out: name, routes, keepalive and DNS of a peer beyond the network's settings value;
the row lock of a handler whose UPDATE would change nothing; iptables rules; the audit
events of VPN handlers (inserts that join the transaction). `EnrollClient` is
`enroll_client_vpn`; `bootstrap_client` rotates a peer by the same steps (`api.py` 714-735)
and is modelled as a whole, without the interface, in `ClientBootstrap`.

### Workspace

State: `clock`, `installed` (the row of `installation_state`), `account`, `profile` and
`code` (tables), `founders` (accounts with an `installation.admin_created` event), `told`
(the last audit event about each account), `tokens`, and `tx`, one open transaction per
worker. As above, a Read action takes the snapshot and computes what will be written and
a Write action commits it; `tx.cols` names the columns that differ from the snapshot,
the only ones SQLAlchemy writes. Three handlers do it differently:

- The setup claims the installation by an UPDATE, which reads the committed row and locks it
  (`Claim`), so a second claim waits until the first has committed or rolled back.
- `create_user` relies only on the unique constraint and is one step.
- `bootstrap_client` compares the expiry of a code after its reads (`CheckExpiry`) and
  writes `used_at` at the commit.

`tokens` holds the claims of every account that was active between two commits: who wants
can have logged in then. A token is believed whatever became of its account, and nothing
says when it is used, so no token is ever removed; their lifetime of an hour is not modelled.
`WriteUpdate` needs the row to exist, since SQLAlchemy raises when its UPDATE matches no
row; a DELETE of a missing row passes. `fresh` is a history variable of a deletion:
nothing was committed since it has read.

Left out: a second tenant (every query filters on the tenant; `SupportRequests` has two),
display names, addresses, routes, passwords, the counters `policy_version` and
`revision`, the bundle, and what `ClientBootstrap` has: file servers, delivery switches, the
device row and the key rotation of `bootstrap_client`. Of the roles only `tenant_admin` is kept; the parameter
`others` of `ReadUpdate` says that other roles change, which writes the list as well.

### Revisions and Migrations

`Revisions` lists, per file of `alembic/versions`, its `CREATE TABLE`, `CREATE INDEX`,
`ADD COLUMN` and `DROP TABLE` statements. The baseline looks for every index by itself; the
later revisions create a table and its index under one look at the table. The files under
`migrations/versions` are an identical copy of the baseline that nothing runs.

State of `Migrations`: `schema` (tables, indexes, late columns), `version` (stamped
revisions), `setup` (row 1 of `installation_state`), `accounts` (whether there are any),
`api` (what the process does), and `at`, `seen`: the statement that comes next and what the
inspection at the beginning of its revision has found. Each statement commits by itself
(`Execute`); the row of 0005 commits with the stamp (`Stamp`). `Cut` ends the process
anywhere, also where `restore_wireguard` raises. To create what exists is an error that ends
the process at every start: no step, so a start that runs into it is stuck. `torn` is a
history variable: some revision was cut off after some of its statements. While the API serves,
administrators change the one fact about accounts the upgrades look at: the setup page makes
the first (`FirstAdministrator`), `CreateUser` makes more, `DeleteUser` takes the last one away (two
administrators can delete each other, see `workspace_lastadmin`). `create_user` needs a token, and
tokens come from accounts, hence its guard `founded`, a history variable: there has been an
account since the databases of the first state were made. Left out: the token of an account that
an older release deleted within the hour before its upgrade.

### ServerStart

State: `env` (`.env`), `volume` (the accounts MariaDB keeps), `mariadb`, `recovery` (the server
without grant tables holds the volume), `web` (the container, with the settings it was
created with), `holder` (who else has a port), and per script its step and what it has read.
A script is the deploy job or a command of an operator; its steps are its commands, between
which the other scripts run: nothing locks `.env` or the containers, and
`cancel-in-progress` (`deploy-on-pr-merge.yml` 15) ends the job but not its remote shell.
`.env` is read in one step and replaced whole in another (`EnsureEnvironment`,
`ReplaceEnvironment`; `ReadSettings`, `WriteSetting`).

`Authenticate` alters both accounts in one statement that stops at an unknown user, and takes
every failure for an unknown root password; then follow `StopServices`, `RunRecovery`,
`ResetCredentials`, `RemoveRecovery` (the `finally` clause) and `UpDatabase`. `UpServices` is
`docker compose up`: it replaces the web container when settings or image changed;
`RestartServices` restarts what exists with the settings it was made with. `ManageAccounts` is
`Migrations!Administer` through an API that reaches its database.
Faults: a command fails (`Fail`), a script dies (`Kill`), the API or the database dies
(`Crash`). `applied` and `alone` are history variables of a script: the credentials it has
synchronised, and that nothing has disturbed it since it began.

Left out: settings that decide neither a login nor a port, pulls and builds, the commands
that only report, and the search for a working `docker` (`docker_access.py`).
`setup_server.py` completes `.env` and then runs a start; `update` is a pull and a start.

What the code does that no property forbids, visible in the model: a start removes its own
running web container before the new one is built (`host_port.py` 109); a changed database
user makes every later deploy fall into the recovery, fail there, and leave database and API
stopped; a recovery killed before its `finally` clause leaves a server without grants on the
volume, and every later deploy fails before it comes to the line that would remove it; a
deploy that dies between synchronisation and start leaves a running API that can no longer
log in; `restart` does not apply a changed `.env`, whatever `configure_server.py` 87 prints.

### WindowsClient

State: `window`, `panel`, `button`, `api` (the session object), the running `Login_Click`
with what it awaits and what came of it, per click the state of `Logout_Click`, `conf`
(`GOne.conf`) and `tunnel` (the service). A handler runs on the UI thread up to its await.
An action that ends what is awaited (`...Ends`) needs no UI thread; one that goes on after
it needs the window to be open. `OnClosed` blocks the UI thread on a task whose
continuation is queued to it, so the window goes from `closing` to `stuck` and stays there; the
command itself runs to its end (`CloseEnds`). `Die` is the end of the process: an exception
in an `async void` handler, or a user who kills the stuck window.

The login button is disabled until the `finally` clause, so logins do not overlap; logout
is not, so two of them can, and the second may take the session of a login in between
(`doubled`). `left` says that a tunnel has outlived its session: installed behind a logout or
a close, not removed by a failed command, or left by an earlier run. `windows/README.md`
49 promises the removal without the first of these exceptions, which `client_behind` shows.

### ClientBootstrap and ClientSession

State: the account, the profile row with its delivery switches and the update about to be
committed, `fileServer`, `device` (rows of the machine that are not revoked), `peer`, `code`,
and per call of `bootstrap_client` its stage. `Read` is the snapshot that decides device, profile,
VPN and shares; `Commit` writes device, peer and code; `Answer` reads the file servers in a
transaction after that, by the list of the snapshot. Calls overlap and go on when
the client has given up; `FailCall` after the commit keeps the new key from everyone.
Administrators and other devices change everything in between (`Manage`).
`gone`, `met` and `passed` are history fields of a call, `troubled` the calls whose key was
replaced or disabled behind their back.

`ClientSession` joins them: a login of the client sends one call, an answer can only be what
its call has answered, an error can come at any time.

Left out: names, hosts, share names, routes, other users, the contents of the bundle, and
`update_file_server`, which changes names only.

## Runs

| Run | Bounds | States | Result |
| --- | --- | --- | --- |
| `support_serial` | 1 worker, 1 device, 2 requests, clock to 2, lifetime 1 | 59,736 | holds |
| `support_concurrent` | 2 workers, 1 device, 1 request, clock to 2 | 58,003 | holds |
| `support_lostupdate` | 2 workers, clock to 1 | - | violated |
| `vpn_concurrent` | 2 workers, 2 tenants, 1 address, 2 keys, 2 settings, 2 stamps, all faults | 3,299,874 (up to symmetry) | holds |
| `vpn_revoked` | 2 workers, 2 addresses, no faults | - | violated |
| `vpn_rollback` | 1 worker, `wg-quick up` may fail | - | violated |
| `workspace_accounts` | 2 workers, 2 subjects, 2 accounts, 1 profile, no codes | 575,371 (up to symmetry) | holds |
| `workspace_codes` | 2 workers, 1 subject, 1 account, 1 profile, 2 codes, lifetime 1, clock to 2 | 428,341 | holds |
| `workspace_lastadmin` | 2 workers, 2 subjects, 2 accounts | - | violated |
| `server_start` | 2 scripts, 2 ports, 2 users, 2 faults for one script and 1 for two, 7 kinds of server | 310,160 | holds |
| `client_session` | 2 logins, 2 logouts, 1 file server, up to 2 changes by administrators, 8 scenarios | 273,047 | holds |
| `client_behind` | as `client_session` | - | violated |

Why the bounds suffice. All support guards concern one request and its device: a second
request shows that handlers do not confuse rows, a second worker that of stale
snapshots (a third worker adds no new kind of pair). The clock passes the one lifetime and
the tick at which `expires_at = now()`. The principals are an ordinary owner, a user who
is at once support and administrator, and a namesake in another tenant. For the VPN one
address is a peer that is created, revoked, enrolled anew and rotated under two handlers, two
keys are the old one and the new one of a rotation; two tenants are there for the choice of
`restore_wireguard`, two stamps for its order. That a handler of one peer brings back another
peer takes two addresses: `vpn_revoked` has them, and the theorems have any number. For the workspace two accounts are the least with which a last administrator
can be lost, and the second subject is the one a profile keeps when the other is
deleted; two codes show that handlers do not confuse codes, and the clock passes issue,
expiry and the tick between them. For the server one script alone meets two faults (a fault in what repairs the
first) and two scripts one; the scenarios are a machine without anything, one with an
old uvicorn on the port, a server of the first release, a volume moved to a machine whose `.env`
is new, a stranger on the port, and servers redeployed beside a second deploy, stop,
restart, start or configure, with the credentials of `.env` in the volume or older ones. For the client two logins are the least for a
stale call, two logouts for an overlap; the more the user does, the less administrators
do, which keeps the instance small (`MCClientSession` lists the pairs): a race of one
administrator's change with one login, a change between two logins, and two changes in one call
are all there. Addresses, keys, accounts, subjects and workers are
symmetric where a `.cfg` says SYMMETRY: only invariants and properties of single steps,
which are symmetric themselves, are checked under it.
Bounds are in the guards: `MaxTime` (clock), `MaxStamp` (network configurations), `MaxFaults`
(faults of a server start), `MaxChanges` (administrators and other devices of a session), the
finite sets of rows, scripts and clicks. When they are used up the models come to rest,
hence `CHECK_DEADLOCK FALSE`; a machine also rests when its scripts have ended, and a client
when its window is closed.

What the properties say:

- `KeepsLifecycle` (1 worker): the handlers implement `Consent!StrictSpec`.
- `KeepsLedger` (any number): they implement `Consent!LedgerSpec`. This is what survives
  the lost updates: nobody ends what was never accepted, nobody answers what was never asked.
- `ConsentIsRecorded`: an accepted or ended request has an acceptance by the device's owner
  in the audit log.
- `TenantSeparation`: request, device and audit events stay in one tenant.
- `AuditTellsState`: the last audit event about a request names its present state.
- `DeadlineCloses`: once the deadline has passed and no acceptance that beat it is about
  to commit, nothing opens the request again.
- `NewRequestsTargetRegistered` (1 worker): requests are only made for registered devices.
- `RuntimeIsDatabase`: at rest and outside doubt the interface serves exactly the
  enabled peers of the database.
- `RevocationHolds`: the key of a peer whose revocation was committed is not served at rest,
  under every fault, a failed commit included, unless the interface was brought up by
  a handler that ran beside another (`vpn_revoked` shows that race).

- `OneInstallation`: however many setups race, one account is founded, and the installation
  is marked exactly when one is.
- `AuditTellsAccount`: the last audit event about an account tells whether it exists.
- `EnabledHasTargets`: no race of deletions and profile changes leaves an enabled profile
  without targets.
- `WithdrawnStays`: a withdrawn profile never comes back, also under a change that read it
  before.
- `LoneDeletionKeepsAdmin`: a deletion on a snapshot that is still current leaves an
  active administrator.
- `ExpiryCloses`: a code that expired unused is activated only by a handler that compared
  its expiry in time.


- `HeadIsComplete`: the API never serves on a schema that lacks an object it needs.
- `SetupDecided`: while the API serves, the setup page is open exactly for an installation that
  never had an account. Cut upgrades neither offer a workspace with accounts to the first
  caller nor lock an empty one; the page stays closed after the last account has gone.
- `UninterruptedMirrorsModels`: an upgrade never cut off ends in the schema of `models.py`,
  indexes included. (A cut between a table and its index loses the index for good.)
- `NeverCreatedTwice`: no start comes to a statement that creates what is there already, which
  would make every later start fail as well.
- `RestartServes`: a web container that can reach its database for good ends up serving.
- `GrantlessIsContained`: the server without grants runs only in the hands of a script or
  after one killed there, and never beside an API at work.
- `CredentialsHold`: a deploy past its synchronisation has the credentials of `.env` in the
  volume, whatever other commands run beside it, except a second deploy.
- `DeployConverges`: a deploy that nothing disturbs ends with an API that serves with
  the credentials of `.env`, whatever the volume held.
- `DeployReaches`: such a deploy can fail only in waiting for the API; what it leaves runs with
  the credentials of `.env` and reaches the database.

- `LoggedOutMeansNoTunnel`, `CloseRemovesTunnel`: logout and close remove the tunnel, but for
  the exceptions `left` names.
- `KeyFileIsOfConnection`: the private key lies in `GOne.conf` only while its connection is being
  made.
- `DashboardHasSession`: no failed or overtaken configuration takes the session away.
- `WindowAnswers`: the login button comes back and a logout ends.
- `TunnelIsServed`: the tunnel's key is the one in the database, unless it was revoked, another
  device took over the address, or an older call of this client was carried out late.
- `DisabledServersStayHidden`: no call hands out a server disabled before the call read.
- `DevicesAreOne`: two devices of a machine stem from overlapping calls.

Five runs show where the code parts from the documents or from what it says itself:

1. `support_lostupdate`: with two decisions in flight a denied request becomes accepted.
2. `vpn_revoked`: with two handlers in flight a revoked key is served at rest.
3. `vpn_rollback`: when `wg-quick up` fails the interface stays away; nothing brings the
   previous configuration back.
4. `workspace_lastadmin`: two administrators who delete each other at once both succeed
   ("cannot delete the last administrator", `api.py` 595); the installation claim is spent by
   then, so nobody can administer the tenant.
5. `client_behind`: a window that is closed, or a user who logs out, while the tunnel is being
   installed leaves a tunnel behind (`windows/README.md` 49): the removal does not stop the
   connection, and comes before it ends (`ConnectsOnlySessions`).

### Fairness

`SupportRequests`, `VpnControl` and `Workspace` assume none: a handler may stop anywhere,
which `Abort`, `FlushFails` and `Crash` make explicit. The other two state

- `ServerStart`: `WF(Upgrade)`, since Docker starts the API again whenever it ends
  (`restart: unless-stopped`) and the upgrade itself does not wait for anybody, and
  `WF(Step(s))`: a script that was started goes on. Nobody has to start a script or to set
  anything up, and faults may, but need not, happen.
- `ClientSession`: `WF(Login)`, `WF(LogoutGoesOn(l))`, `WF(CloseGoesOn)`: a request ends by its
  answer, by the disposal of its session or after the 100 seconds of `HttpClient`,
  `wireguard.exe` ends, and the UI thread runs what is due unless it is blocked. Nobody has to
  click and no call has to be answered, so `WindowAnswers` also covers a silent server.

## Proofs

Proved for every value of the constants, from the named assumptions of the modules
(principals are well typed, `Nobody`, `NoKey` and `Nothing` are distinct from the values
they stand beside, bounds are numbers):

- `SupportRequestsProofs`: `TypeCorrect`, `ConsentAlwaysRecorded`, `TenantsStaySeparate`,
  `DeadlineIsFinal`. The inductive invariant adds to the type invariant what an open
  transaction has checked: a handler about to accept acts for the owner of the request's
  device and in the request's tenant; tenant, target and requester of a row never change
  once it exists; a decision carries the deadline of its row. The properties alone are not
  inductive, as they say nothing of the transactions that will commit next.
- `SupportRefinementProofs`: `AuditAlwaysTellsState`, `ImplementsLedger` (an open
  transaction only records a phase whose predecessor is in the log; the log only grows),
  and, as long as no two handlers are open at once, `SerialHandlersKeepLifecycle`,
  `SerialRequestsTargetRegistered` and `SerialRefusalIsFinal`: what a handler read is
  still so when it commits.
- `VpnControlProofs`: `TypeCorrect`, `RuntimeFollowsDatabase` and `RevocationStands`. The invariant says:
  handlers run only while the API serves and act on rows they may change; a handler marked
  as alone is the only one that runs, its configuration is what the database will say after
  its commit, and the file is its own from the write to the up; an interface beyond
  doubt shows the database, or the change of the one handler that has applied it and
  is about to commit. Each action then disturbs at most one of these parts.
  `RevocationStands` adds (`KeyInv`) that every row has a key, that a handler enables a revoked
  row only with a new key, so that the old one stays withheld even if the commit fails after
  the up, and that an interface whose handler failed to commit withholds the keys of the peers
  that are revoked. Without overlap nothing is `raced` (`RunsAlone`), hence `SerialRevocationHolds`.
  With one kind of fault away more holds without overlap: `SerialRuntimeIsDatabase` (no failed
  commit) and `SerialFailureKeepsService` (no failed `wg-quick up`, the fault of `vpn_rollback`).
- `WorkspaceProofs`: `TypeCorrect`, `OneFounder`, `AuditIsRight`, `ProfilesHaveTargets` and
  the action properties `Withdrawn`, `AdminRemains`, `ExpiryHolds`. The invariant adds what an
  open transaction relies on: a setup that nothing is installed and no other holds the
  claim, a fresh deletion that another administrator is left, a change of a profile that its
  row exists and its new targets are not empty, an activation that it compares the expiry of
  its row. One lemma says that every call opens such a transaction (`CallOpens`), one that a
  commit leaves the others sound (`CloseKeepsSound`). `SerialDeletionsKeepAdmin`: without
  overlapping transactions no deletion takes the last administrator, although `create_user`
  commits in between (the flag `fresh` is then lost, and `Remaining` takes its place).
- `MigrationsProofs`: `ServedSchemaIsComplete` and `SetupIsDecided`, for any list of revisions
  in which every needed object has a statement that only its own presence skips, which no
  later statement undoes, and some revision decides the setup. The invariant: objects of
  stamped revisions are there; of the present one, those of the statements passed; the row
  exists once its revision is stamped, and is closed exactly if there ever was an account; before
  the row exists, nobody has created or deleted one (`RowTells`).
  `UninterruptedUpgradesMirror`, where head is meant to be the models (`MirrorAssumption`): until a
  revision is torn, the schema is what the stamped revisions and the passed statements
  mean. `InterruptedUpgradesGoOn`, where an object that does not skip its own statement, an
  index, never comes before its table (`RepeatableAssumption`): torn or not, where the index
  is the table is, so what is still to be created is not there. TLC evaluates all four
  assumptions on the seven revisions of `Revisions` in every run of `MCServerStart`.
- `ServerStartProofs`: the lemma `StartsAreUpgrades` (every step of a server start is a step of the
  upgrade or none, by the way the modules are composed), with which the four theorems above hold of the server as well
  (`ServerServesCompleteSchema`, `ServerDecidesSetup`, `ServerMirrorsModels`, `ServerUpgradesGoOn`);
  `ServerTypeCorrect`, `RecoveryIsContained`, `SynchronisedCredentialsHold`, from an invariant
  that says which steps of a script allow a server without grants, that only a deploy comes
  to the steps that alter accounts, and that from the reset on the volume holds what the
  deploy has read, as long as no other script may alter it. `UndisturbedDeployReaches` is
  the safety half of `DeployConverges`: the invariant (`Undisturbed`) says at each step of
  such a deploy what it has achieved so far, that no stranger holds its port, that the volume has the
  user of `.env`, and that no other script is active.
- `WindowsClientProofs`: `ClientIsSound`, of a client whose server may answer anything: the
  invariant says that the button stands for the one login that may run, that the key file
  holds a key exactly while a connection is made with it, that where no removal is due any
  more a tunnel has outlived its session (`left`), and that a single logout leaves the
  session of the login after it alone.
- `ClientSessionProofs`: `SessionIsClients` and `SessionIsBootstraps` (the composition implements
  both parts), with them `SessionTypeCorrect`, `NoTunnelAfterLogout`, `KeyFileIsContained`,
  `DashboardsHaveSessions`, `SharesAreEnabled`, `DevicesStayOne`; and `TunnelsAreServed`, whose
  invariant couples the two: what is being installed, or is installed, comes from a call that
  has been answered with a profile; the login that runs and the one whose tunnel is there
  made the latest call, in that every call still to commit has seen its commit; and a
  committed call's key is the one in the row of the peer unless it is `troubled`.

The theorems named `Serial...` speak of behaviours in which at most one worker is inside a
transaction, for any number of workers. Four of them state the properties that the runs
`support_lostupdate`, `vpn_revoked`, `vpn_rollback` and `workspace_lastadmin` refute, so these
violations need an overlap, or, in `vpn_rollback`, a failed `wg-quick up`. The premise is met by
every sequence of calls that do not overlap, in particular by everything the runs with one worker reach.

Only model-checked: the liveness properties `RestartServes`, `DeployConverges`, `WindowAnswers` and
`CloseRemovesTunnel`, which rest on fairness and ENABLED and are out of TLAPS's reach. Every other
property of a passing run is stated by a theorem. `DeletionKeepsAdmin`, `RevokedNotServed`,
`RefusalIsFinal` and `FailureKeepsService` fail in general and are proved under their `Serial...`
premises.

## Not modelled

- `schemas.py`: stateless field validation.
- X25519 and scrypt (`wireguard.py` 1-46, `passwords.py`): arithmetic on 255-bit numbers
  and library calls; keys are model values.
- The web console, the installer and the packaging: no state of their own that decides
  anything the models are about. Of the deployment workflow only the remote commands of the
  deploy job are modelled.
- The downgrades of the revisions: nothing in the program calls them.
- API tokens: issued and revoked, but no handler authenticates with one.

## Plan

What is left, in this order:

1. A module that composes accounts with VPN peers: what is left served for an account that
   was deleted or suspended (`docs/PROJECT_DIRECTION.md` 58).
2. `VpnControl`: the iptables rules of `PostUp` and `PostDown`, and what remains of them after the
   network's address has changed.
3. `Addresses`: `address_belongs` and `normalize_allowed_ips` on small address spaces
   against a reference.
4. A run for a restart that leaves a changed `.env` unapplied (`configure_server.py` 87).
