----------------------------- MODULE Migrations -----------------------------
(***************************************************************************)
(* The start of the API (main.py 36-45): upgrade_database, then            *)
(* restore_wireguard, then traffic.  MariaDB commits every DDL statement   *)
(* at once, so a start that is cut off leaves what its statements did, and *)
(* the next start begins after the last revision that was stamped.  Rows   *)
(* are written in a transaction that commits with the stamp.               *)
(*                                                                         *)
(* Left out: the contents of the tables but for one fact, whether there is *)
(* any account, and the table alembic_version, which is `version` here.    *)
(***************************************************************************)
EXTENDS Naturals, Sequences

CONSTANTS
  Upgrades,      \* the revisions in their order
  Needed,        \* the objects no handler can do without
  Origins,       \* the schemas a database may have before its first upgrade
  Models,        \* the schema of the ORM models
  AccountTable

Statements(r) == { Upgrades[r].statements[i] : i \in DOMAIN Upgrades[r].statements }

Objects ==
  {AccountTable} \cup Needed \cup UNION Origins \cup
  UNION { { s.object : s \in Statements(r) } : r \in DOMAIN Upgrades }

ASSUME UpgradesAssumption ==
  /\ Upgrades \in
       Seq([statements : Seq([do : {"create", "drop"}, object : Objects, unless : SUBSET Objects]),
            decides : BOOLEAN])
  /\ \E r \in DOMAIN Upgrades : Upgrades[r].decides

\* The statement that only the presence of its own object skips.
Own(object) == [do |-> "create", object |-> object, unless |-> {object}]

\* Every needed object has such a statement, and none drops it.
ASSUME NeededAssumption ==
  \A object \in Needed :
    /\ \E r \in DOMAIN Upgrades : Own(object) \in Statements(r)
    /\ \A r \in DOMAIN Upgrades : \A s \in Statements(r) : s.do = "drop" => s.object # object

\* The objects that the statements of the given kind are about, up to revision v.
Touched(kind, v) == { s.object : s \in { t \in UNION { Statements(r) : r \in 1 .. v } : t.do = kind } }

\* What a database of that origin is meant to have at revision v.
Meant(origin, v) == (origin \cup Touched("create", v)) \ Touched("drop", v)

\* Head is meant to be the models.  What is dropped is not created again, and what skips a
\* statement is meant to be there only together with the statement's object.
ASSUME MirrorAssumption ==
  \A origin \in Origins :
    /\ Meant(origin, Len(Upgrades)) = Models
    /\ \A r \in DOMAIN Upgrades : \A s \in Statements(r) : s.do = "create" =>
         /\ s.object \notin Touched("drop", r)
         /\ s.unless \cap Meant(origin, r - 1) # {} => s.object \in Meant(origin, r - 1)

\* Wherever `object` comes from, `table` is there already.
Follows(object, table) ==
  /\ \A origin \in Origins : object \in origin => table \in origin
  /\ \A r \in DOMAIN Upgrades : \A i \in DOMAIN Upgrades[r].statements :
       LET s == Upgrades[r].statements[i] IN
       s.do = "create" /\ s.object = object =>
         \E j \in 1 .. i - 1 : Upgrades[r].statements[j] = Own(table)

\* No revision creates an object twice.  An object that does not skip its own statement, an
\* index, has a needed one that does, its table, and never precedes it.
ASSUME RepeatableAssumption ==
  \A r \in DOMAIN Upgrades : \A i \in DOMAIN Upgrades[r].statements :
    LET s == Upgrades[r].statements[i] IN
    s.do = "create" =>
      /\ \A j \in DOMAIN Upgrades[r].statements :
           Upgrades[r].statements[j].do = "create" /\ Upgrades[r].statements[j].object = s.object
             => j = i
      /\ s.object \notin s.unless => \E table \in s.unless \cap Needed : Follows(s.object, table)

VARIABLES
  schema,    \* the objects the database has
  version,   \* the number of revisions stamped
  setup,     \* row 1 of installation_state: "absent", "open" or "closed" (initialized)
  accounts,  \* whether workspace_users has a row
  founded,   \* history: it has had one, so that somebody may hold a token
  api,       \* what the API process is doing
  at,        \* the statement of revision version + 1 that comes next; 0 before the inspection
  seen,      \* what that inspection found
  torn       \* history: a revision was cut off after some of its statements

database == <<schema, version, setup, accounts, founded>>
progress == <<at, seen, torn>>
migration == <<schema, version, setup, accounts, founded, api, at, seen, torn>>

UpgradeTypeOK ==
  /\ schema \subseteq Objects
  /\ version \in 0 .. Len(Upgrades)
  /\ setup \in {"absent", "open", "closed"}
  /\ accounts \in BOOLEAN /\ founded \in BOOLEAN
  /\ api \in {"off", "upgrading", "restoring", "serving"}
  /\ at \in Nat
  /\ at > 0 =>
       api = "upgrading" /\ version < Len(Upgrades)
       /\ at <= Len(Upgrades[version + 1].statements) + 1
  /\ seen \subseteq Objects
  /\ torn \in BOOLEAN

UpgradeInit ==
  /\ schema \in Origins
  /\ version = 0 /\ setup = "absent"
  /\ accounts \in BOOLEAN /\ (accounts => AccountTable \in schema)
  /\ founded = accounts
  /\ api = "off" /\ at = 0 /\ seen = {} /\ torn = FALSE

----------------------------------------------------------------------------

Begin ==
  /\ api = "off" /\ api' = "upgrading"
  /\ UNCHANGED <<database, progress>>

\* Mutation: a database that is not empty is taken for one of an older release.
SkippedAdopted(s, found) == IF s.do = "drop" THEN s.object \notin found ELSE found # {}

\* Mutation: nothing is created conditionally.
SkippedNever(s, found) == s.do = "drop" /\ s.object \notin found

\* Mutation: the guard of what is to be removed is the wrong way round.
SkippedKept(s, found) == IF s.do = "drop" THEN s.object \in found ELSE found \cap s.unless # {}

\* What a revision does not do when its inspection has found `found`.
Skipped(s, found) == IF s.do = "drop" THEN s.object \notin found ELSE found \cap s.unless # {}

\* The revision goes on at statement `i`: those it skips before it take no time.
Reaches(i, from, found) ==
  LET statements == Upgrades[version + 1].statements IN
  /\ i \in from .. Len(statements) + 1
  /\ \A j \in from .. i - 1 : Skipped(statements[j], found)
  /\ i \in DOMAIN statements => ~ Skipped(statements[i], found)

Inspect ==
  /\ api = "upgrading" /\ at = 0 /\ version < Len(Upgrades)
  /\ seen' = schema
  /\ \E i \in 1 .. Len(Upgrades[version + 1].statements) + 1 :
       Reaches(i, 1, schema) /\ at' = i
  /\ UNCHANGED <<database, api, torn>>

Done(s) == IF s.do = "drop" THEN schema \ {s.object} ELSE schema \cup {s.object}

\* One statement.  To create what is there already is an error that ends the process, now
\* and at every later start: no step.
Execute ==
  LET statements == Upgrades[version + 1].statements IN
  /\ api = "upgrading" /\ version < Len(Upgrades) /\ at \in DOMAIN statements
  /\ statements[at].do = "create" => statements[at].object \notin schema
  /\ schema' = Done(statements[at])
  /\ \E i \in at + 1 .. Len(statements) + 1 : Reaches(i, at + 1, seen) /\ at' = i
  /\ UNCHANGED <<version, setup, accounts, founded, api, seen, torn>>

\* Mutation: the accounts of older releases are overlooked.
DecidedBlind ==
  IF Upgrades[version + 1].decides /\ setup = "absent" THEN "open" ELSE setup

\* The row of installation_state, for a database that has none.
Decided ==
  IF ~ Upgrades[version + 1].decides \/ setup # "absent" THEN setup
  ELSE IF accounts THEN "closed" ELSE "open"

\* The end of a revision: its row and its stamp commit together.
Stamp ==
  /\ api = "upgrading" /\ version < Len(Upgrades)
  /\ at = Len(Upgrades[version + 1].statements) + 1
  /\ version' = version + 1
  /\ setup' = Decided
  /\ at' = 0 /\ seen' = {}
  /\ UNCHANGED <<schema, accounts, founded, api, torn>>

Finish ==
  /\ api = "upgrading" /\ version = Len(Upgrades)
  /\ api' = "restoring"
  /\ UNCHANGED <<database, progress>>

RestoreWireguard ==
  /\ api = "restoring" /\ api' = "serving"
  /\ UNCHANGED <<database, progress>>

\* The process ends wherever it is: it is stopped or replaced, it loses the database, or
\* restore_wireguard raises.
Cut ==
  /\ api # "off" /\ api' = "off"
  /\ at' = 0 /\ seen' = {}
  /\ torn' = (torn \/ (at > 0 /\ schema # seen))
  /\ UNCHANGED database

FirstAdministrator ==
  /\ api = "serving" /\ setup = "open"
  /\ setup' = "closed" /\ accounts' = TRUE /\ founded' = TRUE
  /\ UNCHANGED <<schema, version, api, progress>>

\* Only a token leads here, and only accounts are given tokens.
CreateUser ==
  /\ api = "serving" /\ founded
  /\ accounts' = TRUE
  /\ UNCHANGED <<schema, version, setup, founded, api, progress>>

\* The last account goes: administrators who delete each other (Workspace), or one whose role
\* was taken first.  The claim of the setup page stays.  (Deletions that leave an account
\* change nothing that is modelled here.)
DeleteUser ==
  /\ api = "serving" /\ accounts
  /\ accounts' = FALSE
  /\ UNCHANGED <<schema, version, setup, founded, api, progress>>

Work == Inspect \/ Execute \/ Stamp \/ Finish \/ RestoreWireguard

Administer == FirstAdministrator \/ CreateUser \/ DeleteUser

UpgradeNext == Begin \/ Work \/ Cut \/ Administer

UpgradeSpec == UpgradeInit /\ [][UpgradeNext]_migration

----------------------------------------------------------------------------
(* Properties.                                                             *)

\* The API never takes traffic on a schema that lacks a table or a column it uses, however
\* often earlier upgrades were cut off between two statements (main.py 41-43).
HeadIsComplete == api = "serving" => version = Len(Upgrades) /\ Needed \subseteq schema

\* While the API takes traffic the setup page is open exactly for an installation that has
\* never had an account, and closed for every other: no upgrade, cut off or not, offers a
\* workspace with accounts to the first caller or locks one that never had any, and neither
\* a restart nor the deletion of the last account opens it again (0005 24-32, api.py 99-114,
\* 578-608).
SetupDecided ==
  api = "serving" =>
    /\ setup = IF founded THEN "closed" ELSE "open"
    /\ setup = "open" => ~ accounts

\* No start comes to a statement that creates what is there already, wherever the starts
\* before it were cut off: none makes every later one fail (the guards of 0001-0007).
NeverCreatedTwice ==
  api = "upgrading" /\ version < Len(Upgrades) =>
    LET statements == Upgrades[version + 1].statements IN
    at \in DOMAIN statements /\ statements[at].do = "create" =>
      statements[at].object \notin schema

\* Every upgrade that was never cut off ends in the schema of models.py, indexes included,
\* from an empty database and from one an older release made (0001 76, test_migrations.py).
UninterruptedMirrorsModels == api = "serving" /\ ~ torn => schema = Models
=============================================================================
