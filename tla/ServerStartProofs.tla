------------------------- MODULE ServerStartProofs --------------------------
(***************************************************************************)
(* Proofs about ServerStart, for every set of scripts, settings and        *)
(* scenarios: it implements Migrations, so that the theorems about the     *)
(* upgrade hold of a server whatever its scripts do, and it contains the   *)
(* recovery server.                                                        *)
(***************************************************************************)
EXTENDS ServerStart, MigrationsProofs

----------------------------------------------------------------------------
(* Every step of a server is a step of the upgrade or leaves it alone.     *)

LEMMA EndsIsUpgrade == Ends => [UpgradeNext]_migration
BY DEF Ends, UpgradeNext

LEMMA ScriptStepIsUpgrade ==
  ASSUME NEW s \in Scripts, Step(s) PROVE [UpgradeNext]_migration
<1> USE EndsIsUpgrade
<1>1. CASE EnsureEnvironment(s)
  BY <1>1 DEF EnsureEnvironment
<1>2. CASE ReplaceEnvironment(s)
  BY <1>2 DEF ReplaceEnvironment
<1>3. CASE ReadSettings(s)
  BY <1>3 DEF ReadSettings
<1>4. CASE WriteSetting(s)
  BY <1>4 DEF WriteSetting
<1>5. CASE UpDatabase(s)
  <2>1. CASE Complete(env)
    BY <1>5, <2>1 DEF UpDatabase
  <2>2. CASE ~ Complete(env)
    BY <1>5, <2>2 DEF UpDatabase
  <2> QED
    BY <2>1, <2>2
<1>6. CASE ReadCredentials(s)
  BY <1>6 DEF ReadCredentials
<1>7. CASE Authenticate(s)
  BY <1>7 DEF Authenticate
<1>8. CASE StopServices(s)
  BY <1>8 DEF StopServices
<1>9. CASE RunRecovery(s)
  BY <1>9 DEF RunRecovery
<1>10. CASE ResetCredentials(s)
  BY <1>10 DEF ResetCredentials
<1>11. CASE RemoveRecovery(s)
  BY <1>11 DEF RemoveRecovery
<1>12. CASE EnsureHostPort(s)
  BY <1>12 DEF EnsureHostPort
<1>13. CASE UpServices(s)
  BY <1>13 DEF UpServices
<1>14. CASE RestartServices(s)
  BY <1>14 DEF RestartServices
<1>15. CASE DownServices(s)
  BY <1>15 DEF DownServices
<1>16. CASE WaitUntilReady(s)
  BY <1>16 DEF WaitUntilReady
<1> QED
  BY <1>1, <1>2, <1>3, <1>4, <1>5, <1>6, <1>7, <1>8, <1>9, <1>10, <1>11, <1>12, <1>13,
     <1>14, <1>15, <1>16 DEF Step

LEMMA StepIsUpgrade == [Next]_vars => [UpgradeNext]_migration
<1> SUFFICES ASSUME [Next]_vars PROVE [UpgradeNext]_migration
  OBVIOUS
<1>1. ASSUME NEW s \in Scripts, Start(s) PROVE [UpgradeNext]_migration
  BY <1>1 DEF Start
<1>2. ASSUME NEW s \in Scripts, Fail(s) PROVE [UpgradeNext]_migration
  BY <1>2 DEF Fail
<1>3. ASSUME NEW s \in Scripts, Kill(s) PROVE [UpgradeNext]_migration
  BY <1>3 DEF Kill
<1>4. CASE Upgrade
  BY <1>4 DEF Upgrade, BeginUpgrade, WorkUpgrade, UpgradeNext
<1>5. CASE ManageAccounts
  BY <1>5 DEF ManageAccounts, UpgradeNext
<1>6. CASE Crash
  BY <1>6 DEF Crash, UpgradeNext
<1>7. CASE UNCHANGED vars
  BY <1>7 DEF vars, migration
<1> QED
  BY <1>1, <1>2, <1>3, <1>4, <1>5, <1>6, <1>7, ScriptStepIsUpgrade DEF Next

\* A server start is an upgrade of Migrations: whatever the scripts do to the containers, the
\* API sees it as starts that are cut off.  What holds of upgrades holds of servers.
LEMMA StartsAreUpgrades == Spec => UpgradeSpec
<1>1. Init => UpgradeInit
  BY DEF Init
<1> QED
  BY <1>1, StepIsUpgrade, PTL DEF Spec, UpgradeSpec

\* The schema is complete whenever a server takes traffic.
THEOREM ServerServesCompleteSchema == Spec => []HeadIsComplete
BY StartsAreUpgrades, ServedSchemaIsComplete, PTL

\* A server that takes traffic offers its setup page exactly if it has never had an account:
\* no upgrade, restart or deletion of accounts changes that.
THEOREM ServerDecidesSetup == Spec => []SetupDecided
BY StartsAreUpgrades, SetupIsDecided, PTL

\* A server whose upgrades were not cut off half done has the schema of the models.
THEOREM ServerMirrorsModels == Spec => []UninterruptedMirrorsModels
BY StartsAreUpgrades, UninterruptedUpgradesMirror, PTL

\* No start of a server fails for what a start that was cut off has left behind, whichever
\* script, crash or fault cut it off.
THEOREM ServerUpgradesGoOn == Spec => []NeverCreatedTwice
BY StartsAreUpgrades, InterruptedUpgradesGoOn, PTL

----------------------------------------------------------------------------
(* Types of the server.                                                    *)

LEMMA Going ==
  ASSUME script \in [Scripts -> Programs], NEW s \in Scripts, NEW step \in Steps, Go(s, step)
  PROVE  /\ script' \in [Scripts -> Programs]
         /\ script'[s] = [script[s] EXCEPT !.step = step]
         /\ \A t \in Scripts \ {s} : script'[t] = script[t]
<1>1. script[s] \in Programs
  OBVIOUS
<1>2. [script[s] EXCEPT !.step = step] \in Programs
  BY <1>1 DEF Programs
<1>3. script' = [script EXCEPT ![s] = [script[s] EXCEPT !.step = step]]
  BY DEF Go
<1> QED
  BY <1>2, <1>3

LEMMA Becoming ==
  ASSUME script \in [Scripts -> Programs], NEW s \in Scripts, NEW program \in Programs,
         script' = [script EXCEPT ![s] = program]
  PROVE  /\ script' \in [Scripts -> Programs] /\ script'[s] = program
         /\ \A t \in Scripts \ {s} : script'[t] = script[t]
OBVIOUS

LEMMA Completing ==
  ASSUME NEW s \in Scripts, NEW command \in Commands, script[s].command = command,
         NEW e \in Environments
  PROVE  Completed(s, e) \in Environments
<1>1. <<s, command>> \in Secrets
  BY DEF Secrets
<1> QED
  BY <1>1 DEF Completed, Environments

LEMMA CredentialsType ==
  ASSUME NEW e \in Environments, Complete(e) PROVE CredentialsOf(e) \in Credentials
BY DEF Environments, Complete, CredentialsOf, Credentials

LEMMA UnsetIsNone ==
  Unset \notin Credentials /\ \A e \in Environments : CredentialsOf(e) # Unset
<1>1. ASSUME NEW e \in Environments
      PROVE  CredentialsOf(e) \in
               [root : Secrets \cup {Unset}, password : Secrets \cup {Unset}, user : Users]
  BY DEF Environments, CredentialsOf
<1>2. Credentials \subseteq
        [root : Secrets \cup {Unset}, password : Secrets \cup {Unset}, user : Users]
  BY DEF Credentials
<1> QED
  BY <1>1, <1>2, UnsetAssumption

LEMMA NextCommand == ASSUME NEW command PROVE AfterEnsure(command) \in Steps \ {"write"}
BY DEF AfterEnsure, Steps

----------------------------------------------------------------------------
(* The inductive invariant of the scripts.                                 *)

ServerType ==
  /\ env \in Environments /\ volume \in Credentials \cup {Unset}
  /\ mariadb \in {"absent", "stopped", "up"} /\ recovery \in BOOLEAN
  /\ web \in [state : {"absent", "stopped", "running"}, env : Environments]
  /\ holder \in [Ports -> {"nobody", "legacy", "stranger"}]
  /\ script \in [Scripts -> Programs]
  /\ faults \in 0 .. MaxFaults

Resetting == {"authenticate", "stop", "recover", "reset", "remove", "again"}

\* What a deploy in the synchronisation relies on, and what it has achieved once the reset
\* has succeeded: the volume holds what it read, as long as no other script can alter it.
ProgramSound(s) ==
  /\ script[s].step \in Resetting \cup {"sync"} => volume # Unset
  /\ script[s].step \in Resetting => Complete(script[s].env)
  /\ script[s].step \in Resetting \cup {"sync", "database", "give up"} =>
       script[s].command = "deploy" /\ script[s].applied = Unset
  /\ script[s].applied # Unset => volume # Unset /\ script[s].command = "start"
  /\ script[s].step \in {"remove", "again"} /\ (\A t \in Scripts \ {s} : ~ Alters(t)) =>
       volume = CredentialsOf(script[s].env)
  /\ script[s].applied # Unset /\ (\A t \in Scripts \ {s} : ~ Alters(t)) =>
       volume = script[s].applied

Sound == ServerType /\ (\A s \in Scripts : ProgramSound(s)) /\ GrantlessIsContained

\* What a step of one script means to the others.
Acted(s) ==
  /\ script' \in [Scripts -> Programs]
  /\ \A t \in Scripts \ {s} : script'[t] = script[t]
  /\ volume # Unset => volume' # Unset
  /\ volume' = volume \/ volume = Unset \/ Alters(s)
  /\ Alters(s) => Alters(s)'

LEMMA OthersStaySound ==
  ASSUME Sound, NEW s \in Scripts, Acted(s), NEW t \in Scripts \ {s} PROVE ProgramSound(t)'
<1>1. script'[t] = script[t] /\ ProgramSound(t)
  BY DEF Acted, Sound
<1>2. ASSUME \A u \in Scripts \ {t} : ~ Alters(u)'
      PROVE  /\ \A u \in Scripts \ {t} : ~ Alters(u)
             /\ volume' = volume \/ volume = Unset
  <2>1. ~ Alters(s)
    BY <1>2 DEF Acted
  <2>2. ASSUME NEW u \in Scripts \ {t, s} PROVE ~ Alters(u)
    BY <1>2 DEF Acted, Alters
  <2> QED
    BY <2>1, <2>2 DEF Acted
<1>3. volume # Unset => volume' # Unset
  BY DEF Acted
<1> QED
  BY <1>1, <1>2, <1>3 DEF ProgramSound, Resetting

LEMMA AllStaySound ==
  ASSUME Sound, NEW s \in Scripts, Acted(s), ProgramSound(s)'
  PROVE  \A t \in Scripts : ProgramSound(t)'
BY OthersStaySound

\* A step of a script that neither begins nor ends a recovery keeps it contained.
LEMMA StaysContained ==
  ASSUME Sound, NEW s \in Scripts, Acted(s),
         recovery' => recovery,
         recovery /\ script[s].step \in {"reset", "remove", "give up"} =>
           script'[s].step \in {"reset", "remove", "give up", "killed"} \/ ~ recovery',
         script[s].step # "killed",
         recovery' \/ mariadb' # "up" => api' = "off"
  PROVE  GrantlessIsContained'
<1> SUFFICES ASSUME recovery'
             PROVE  \E t \in Scripts : script'[t].step \in {"reset", "remove", "give up", "killed"}
  BY DEF GrantlessIsContained
<1>1. PICK t \in Scripts : script[t].step \in {"reset", "remove", "give up", "killed"}
  BY DEF Sound, GrantlessIsContained
<1>2. CASE t = s
  BY <1>1, <1>2
<1>3. CASE t # s
  BY <1>1, <1>3 DEF Acted
<1> QED
  BY <1>2, <1>3

\* A step that goes from one step of the program to another and leaves the volume alone.
LEMMA PlainStep ==
  ASSUME Sound, NEW s \in Scripts, NEW program \in Programs,
         script' = [script EXCEPT ![s] = program], volume' = volume,
         program.command = script[s].command, program.applied = script[s].applied,
         Alters(s) =>
           program.applied # Unset \/ program.step \notin {"idle", "ensure", "replace", "database"},
         program.step \in Resetting =>
           script[s].step \in Resetting /\ program.env = script[s].env,
         program.step # "sync",
         program.step = "database" => script[s].command = "deploy",
         program.step = "give up" => script[s].step \in Resetting,
         program.step \in {"remove", "again"} => script[s].step \in {"remove", "again"}
  PROVE  Acted(s) /\ ProgramSound(s)' /\ script'[s] = program
<1>0. script \in [Scripts -> Programs]
  BY DEF Sound, ServerType
<1>1. /\ script' \in [Scripts -> Programs] /\ script'[s] = program
      /\ \A t \in Scripts \ {s} : script'[t] = script[t]
  BY <1>0, Becoming
<1>2. Alters(s) => Alters(s)'
  BY <1>1 DEF Alters
<1>3. Acted(s)
  BY <1>1, <1>2 DEF Acted
<1>4. ASSUME \A t \in Scripts \ {s} : ~ Alters(t)' PROVE \A t \in Scripts \ {s} : ~ Alters(t)
  BY <1>1, <1>4 DEF Alters
<1>5. ProgramSound(s)
  BY DEF Sound
<1>6. ProgramSound(s)'
  BY <1>1, <1>4, <1>5 DEF ProgramSound, Resetting
<1> QED
  BY <1>1, <1>3, <1>6

----------------------------------------------------------------------------
(* One lemma per step of a script.                                         *)

Kept(s) == Acted(s) /\ ProgramSound(s)' /\ ServerType' /\ GrantlessIsContained'

LEMMA EndsOff == Ends => api' = "off"
BY DEF Ends, Cut, migration

LEMMA KeepsEnsure == ASSUME Sound, NEW s \in Scripts, EnsureEnvironment(s) PROVE Kept(s)
<1> DEFINE program == [script[s] EXCEPT
      !.env = Completed(s, env),
      !.step = IF Complete(env) THEN AfterEnsure(script[s].command) ELSE "replace"]
<1>1. script[s] \in Programs /\ env \in Environments /\ script[s].step = "ensure"
  BY DEF Sound, ServerType, EnsureEnvironment, At
<1>2. Completed(s, env) \in Environments
  BY <1>1, Completing DEF Programs
<1>3. program \in Programs
  BY <1>1, <1>2, NextCommand DEF Programs, Steps
<1>4. script' = [script EXCEPT ![s] = program] /\ volume' = volume
  BY DEF EnsureEnvironment, server
<1>5. /\ program.command = script[s].command /\ program.applied = script[s].applied
      /\ program.step \in {"replace", "database", "port", "down", "restart"}
      /\ program.step = "database" => script[s].command = "deploy"
  BY <1>1 DEF AfterEnsure, Programs
<1>6. Alters(s) => program.applied # Unset
  BY <1>1, <1>5 DEF Alters
<1> HIDE DEF program
<1>7. Acted(s) /\ ProgramSound(s)' /\ script'[s] = program
  BY <1>1, <1>3, <1>4, <1>5, <1>6, PlainStep DEF Resetting
<1>8. ServerType'
  BY <1>7 DEF EnsureEnvironment, Sound, ServerType, server, Acted
<1>9. GrantlessIsContained'
  BY <1>1, <1>7, StaysContained DEF EnsureEnvironment, server, migration, Sound, GrantlessIsContained
<1> QED
  BY <1>7, <1>8, <1>9 DEF Kept

LEMMA KeepsReplace == ASSUME Sound, NEW s \in Scripts, ReplaceEnvironment(s) PROVE Kept(s)
<1> DEFINE program == [script[s] EXCEPT !.step = AfterEnsure(script[s].command)]
<1>1. script[s] \in Programs /\ script[s].step = "replace"
  BY DEF Sound, ServerType, ReplaceEnvironment, At
<1>2. program \in Programs
  BY <1>1, NextCommand DEF Programs, Steps
<1>3. script' = [script EXCEPT ![s] = program] /\ volume' = volume
  BY DEF ReplaceEnvironment, Go
<1>4. /\ program.command = script[s].command /\ program.applied = script[s].applied
      /\ program.step \in {"database", "port", "down", "restart"}
      /\ program.step = "database" => script[s].command = "deploy"
  BY <1>1 DEF AfterEnsure, Programs
<1>5. Alters(s) => program.applied # Unset \/ program.step # "database"
  BY <1>1, <1>4 DEF Alters
<1> HIDE DEF program
<1>6. Acted(s) /\ ProgramSound(s)' /\ script'[s] = program
  BY <1>1, <1>2, <1>3, <1>4, <1>5, PlainStep DEF Resetting
<1>7. ServerType'
  BY <1>1, <1>6 DEF ReplaceEnvironment, Sound, ServerType, Acted, Programs
<1>8. GrantlessIsContained'
  BY <1>1, <1>6, StaysContained DEF ReplaceEnvironment, migration, Sound, GrantlessIsContained
<1> QED
  BY <1>6, <1>7, <1>8 DEF Kept

LEMMA KeepsReadSettings == ASSUME Sound, NEW s \in Scripts, ReadSettings(s) PROVE Kept(s)
<1>1. script[s] \in Programs /\ env \in Environments /\ script[s].step = "ensure"
  BY DEF Sound, ServerType, ReadSettings, At
<1>2. PICK e \in {[env EXCEPT !.port = p] : p \in Ports} \cup {[env EXCEPT !.user = u] : u \in Users} :
        script' = [script EXCEPT ![s].env = e, ![s].step = "write"]
  BY DEF ReadSettings
<1> DEFINE program == [script[s] EXCEPT !.env = e, !.step = "write"]
<1>3. e \in Environments
  BY <1>1 DEF Environments
<1>4. program \in Programs
  BY <1>1, <1>3 DEF Programs, Steps
<1>5. script' = [script EXCEPT ![s] = program] /\ volume' = volume
  BY <1>2 DEF ReadSettings, server
<1>6. /\ program.command = script[s].command /\ program.applied = script[s].applied
      /\ program.step = "write"
  BY <1>1 DEF Programs
<1>7. Alters(s) => program.applied # Unset
  BY <1>1, <1>6 DEF Alters, ReadSettings
<1> HIDE DEF program
<1>8. Acted(s) /\ ProgramSound(s)' /\ script'[s] = program
  BY <1>1, <1>4, <1>5, <1>6, <1>7, PlainStep DEF Resetting
<1>9. ServerType'
  BY <1>8 DEF ReadSettings, Sound, ServerType, server, Acted
<1>10. GrantlessIsContained'
  BY <1>1, <1>8, StaysContained DEF ReadSettings, server, migration, Sound, GrantlessIsContained
<1> QED
  BY <1>8, <1>9, <1>10 DEF Kept

\* A step of a script to `step`, which is none of the synchronisation, that keeps the volume.
LEMMA LeavingStep ==
  ASSUME Sound, NEW s \in Scripts, NEW step \in {"done", "failed", "wait", "recover", "give up", "again"},
         Go(s, step), volume' = volume, Active(s),
         script[s].step \notin {"ensure", "replace", "database"},
         step = "recover" => script[s].step = "stop",
         step = "again" => script[s].step = "remove",
         step = "give up" => script[s].step \in Resetting
  PROVE  Acted(s) /\ ProgramSound(s)' /\ script'[s] = [script[s] EXCEPT !.step = step]
<1> DEFINE program == [script[s] EXCEPT !.step = step]
<1>1. script[s] \in Programs
  BY DEF Sound, ServerType
<1>2. program \in Programs
  BY <1>1 DEF Programs, Steps
<1>3. script' = [script EXCEPT ![s] = program]
  BY DEF Go
<1>4. /\ program.command = script[s].command /\ program.applied = script[s].applied
      /\ program.step = step /\ program.env = script[s].env
  BY <1>1 DEF Programs
<1>5. Alters(s) => program.applied # Unset \/ program.step \notin {"idle", "ensure", "replace", "database"}
  BY <1>4
<1> HIDE DEF program
<1>6. Acted(s) /\ ProgramSound(s)' /\ script'[s] = program
  BY <1>1, <1>2, <1>3, <1>4, <1>5, PlainStep DEF Resetting
<1> QED
  BY <1>6 DEF program

LEMMA KeepsWriteSetting == ASSUME Sound, NEW s \in Scripts, WriteSetting(s) PROVE Kept(s)
<1>1. script[s] \in Programs /\ script[s].step = "write"
  BY DEF Sound, ServerType, WriteSetting, At
<1>2. Acted(s) /\ ProgramSound(s)' /\ script'[s] = [script[s] EXCEPT !.step = "done"]
  BY <1>1, LeavingStep DEF WriteSetting, Active
<1>3. ServerType'
  BY <1>1, <1>2 DEF WriteSetting, Sound, ServerType, Acted, Programs
<1>4. GrantlessIsContained'
  BY <1>1, <1>2, StaysContained DEF WriteSetting, migration, Sound, GrantlessIsContained
<1> QED
  BY <1>2, <1>3, <1>4 DEF Kept

LEMMA KeepsStop == ASSUME Sound, NEW s \in Scripts, StopServices(s) PROVE Kept(s)
<1>1. script[s].step = "stop" /\ api' = "off"
  BY EndsOff DEF StopServices, At
<1>2. Acted(s) /\ ProgramSound(s)' /\ script'[s] = [script[s] EXCEPT !.step = "recover"]
  BY <1>1, LeavingStep DEF StopServices, Active
<1>3. ServerType'
  BY <1>2 DEF StopServices, Sound, ServerType, Acted
<1>4. GrantlessIsContained'
  BY <1>1, <1>2, StaysContained DEF StopServices
<1> QED
  BY <1>2, <1>3, <1>4 DEF Kept

LEMMA KeepsRun == ASSUME Sound, NEW s \in Scripts, RunRecovery(s) PROVE Kept(s)
<1>1. /\ script[s] \in Programs /\ script[s].step = "recover" /\ recovery \in BOOLEAN
      /\ recovery \/ mariadb # "up" => api = "off"
  BY DEF Sound, ServerType, RunRecovery, At, GrantlessIsContained
<1>2. PICK step \in {"give up", "reset"} : Go(s, step)
  BY DEF RunRecovery
<1> DEFINE program == [script[s] EXCEPT !.step = step]
<1>3. /\ program \in Programs /\ script' = [script EXCEPT ![s] = program]
      /\ program.command = script[s].command /\ program.applied = script[s].applied
      /\ program.step = step /\ program.env = script[s].env
  BY <1>1, <1>2 DEF Programs, Steps, Go
<1>4. volume' = volume
  BY DEF RunRecovery
<1> HIDE DEF program
<1>5. Acted(s) /\ ProgramSound(s)' /\ script'[s] = program
  BY <1>1, <1>3, <1>4, PlainStep DEF Resetting
<1>6. ServerType'
  BY <1>5 DEF RunRecovery, Sound, ServerType, Acted
<1>7. GrantlessIsContained'
  BY <1>1, <1>3, <1>5 DEF RunRecovery, GrantlessIsContained, migration
<1> QED
  BY <1>5, <1>6, <1>7 DEF Kept

LEMMA KeepsRemove == ASSUME Sound, NEW s \in Scripts, RemoveRecovery(s) PROVE Kept(s)
<1>1. script[s].step \in {"remove", "give up"}
  BY DEF RemoveRecovery, At
<1>2. PICK step \in {"again", "failed"} :
        Go(s, step) /\ (step = "again" => script[s].step = "remove")
  BY DEF RemoveRecovery, At
<1>3. Acted(s) /\ ProgramSound(s)' /\ script'[s] = [script[s] EXCEPT !.step = step]
  BY <1>1, <1>2, LeavingStep DEF RemoveRecovery, Active
<1>4. ServerType'
  BY <1>3 DEF RemoveRecovery, Sound, ServerType, Acted
<1>5. GrantlessIsContained'
  BY <1>1, <1>3, StaysContained DEF RemoveRecovery, migration, Sound, GrantlessIsContained
<1> QED
  BY <1>3, <1>4, <1>5 DEF Kept

LEMMA KeepsDown == ASSUME Sound, NEW s \in Scripts, DownServices(s) PROVE Kept(s)
<1>1. script[s].step = "down" /\ api' = "off"
  BY EndsOff DEF DownServices, At
<1>2. Acted(s) /\ ProgramSound(s)' /\ script'[s] = [script[s] EXCEPT !.step = "done"]
  BY <1>1, LeavingStep DEF DownServices, Active
<1>3. ServerType'
  BY <1>2 DEF DownServices, Sound, ServerType, Acted
<1>4. GrantlessIsContained'
  BY <1>1, <1>2, StaysContained DEF DownServices
<1> QED
  BY <1>2, <1>3, <1>4 DEF Kept

LEMMA KeepsWait == ASSUME Sound, NEW s \in Scripts, WaitUntilReady(s) PROVE Kept(s)
<1>1. script[s].step = "wait"
  BY DEF WaitUntilReady, At
<1>2. PICK step \in {"done", "failed"} : Go(s, step)
  BY DEF WaitUntilReady
<1>3. Acted(s) /\ ProgramSound(s)' /\ script'[s] = [script[s] EXCEPT !.step = step]
  BY <1>1, <1>2, LeavingStep DEF WaitUntilReady, Active, server
<1>4. ServerType'
  BY <1>3 DEF WaitUntilReady, Sound, ServerType, Acted, server
<1>5. GrantlessIsContained'
  BY <1>1, <1>3, StaysContained DEF WaitUntilReady, server, migration, Sound, GrantlessIsContained
<1> QED
  BY <1>3, <1>4, <1>5 DEF Kept

\* A step that goes to another program and may change the volume.
LEMMA ActedStep ==
  ASSUME Sound, NEW s \in Scripts, NEW program \in Programs,
         script' = [script EXCEPT ![s] = program],
         volume # Unset => volume' # Unset,
         volume' = volume \/ volume = Unset \/ Alters(s),
         Alters(s) =>
           \/ program.applied # Unset
           \/ /\ program.command = "deploy"
              /\ program.step \notin {"idle", "ensure", "replace", "database"}
  PROVE  /\ Acted(s) /\ script'[s] = program
         /\ (\A t \in Scripts \ {s} : ~ Alters(t)') => (\A t \in Scripts \ {s} : ~ Alters(t))
<1>1. /\ script' \in [Scripts -> Programs] /\ script'[s] = program
      /\ \A t \in Scripts \ {s} : script'[t] = script[t]
  BY Becoming DEF Sound, ServerType
<1>2. Alters(s) => Alters(s)'
  BY <1>1 DEF Alters
<1> QED
  BY <1>1, <1>2 DEF Acted, Alters

LEMMA KeepsReadCredentials == ASSUME Sound, NEW s \in Scripts, ReadCredentials(s) PROVE Kept(s)
<1> DEFINE program ==
      [script[s] EXCEPT !.env = env, !.step = IF Complete(env) THEN "authenticate" ELSE "failed"]
<1>1. script[s] \in Programs /\ env \in Environments /\ script[s].step = "sync" /\ ProgramSound(s)
  BY DEF Sound, ServerType, ReadCredentials, At
<1>2. program \in Programs /\ script' = [script EXCEPT ![s] = program] /\ volume' = volume
  BY <1>1 DEF Programs, Steps, ReadCredentials, server
<1>3. /\ program.command = script[s].command /\ program.applied = script[s].applied
      /\ program.env = env
      /\ program.step = IF Complete(env) THEN "authenticate" ELSE "failed"
  BY <1>1 DEF Programs
<1> HIDE DEF program
<1>4. script[s].command = "deploy" /\ script[s].applied = Unset /\ volume # Unset
  BY <1>1 DEF ProgramSound
<1>5. Acted(s) /\ script'[s] = program
  BY <1>1, <1>2, <1>3, <1>4, ActedStep
<1>6. ProgramSound(s)'
  BY <1>2, <1>3, <1>4, <1>5 DEF ProgramSound, Resetting
<1>7. ServerType'
  BY <1>5 DEF ReadCredentials, Sound, ServerType, server, Acted
<1>8. GrantlessIsContained'
  BY <1>1, <1>5, StaysContained DEF ReadCredentials, server, migration, Sound, GrantlessIsContained
<1> QED
  BY <1>5, <1>6, <1>7, <1>8 DEF Kept

LEMMA SynchronisedProgram ==
  ASSUME Sound, NEW s \in Scripts, Complete(script[s].env)
  PROVE  /\ Synchronised(s) \in Programs
         /\ Synchronised(s).applied = CredentialsOf(script[s].env)
         /\ CredentialsOf(script[s].env) \in Credentials
         /\ Synchronised(s).applied # Unset
         /\ Synchronised(s).command = "start" /\ Synchronised(s).step = "ensure"
<1>1. script[s] \in Programs
  BY DEF Sound, ServerType
<1>2. CredentialsOf(script[s].env) \in Credentials
  BY <1>1, CredentialsType DEF Programs
<1>3. CredentialsOf(script[s].env) # Unset
  BY <1>2, UnsetIsNone
<1> DEFINE c == CredentialsOf(script[s].env)
<1> HIDE DEF c
<1>4. Synchronised(s) = [script[s] EXCEPT !.command = "start", !.step = "ensure", !.applied = c]
  BY DEF Synchronised, c
<1>5. c \in Credentials /\ c # Unset
  BY <1>2, <1>3 DEF c
<1>6. /\ Synchronised(s) \in Programs /\ Synchronised(s).applied = c
      /\ Synchronised(s).command = "start" /\ Synchronised(s).step = "ensure"
  BY <1>1, <1>4, <1>5 DEF Programs, Steps, Commands
<1> QED
  BY <1>5, <1>6 DEF c

LEMMA AlteredType ==
  ASSUME Sound, NEW s \in Scripts, Complete(script[s].env), volume # Unset
  PROVE  /\ Altered(script[s].env) \in Credentials
         /\ Altered(script[s].env) # Unset
         /\ script[s].env.user = volume.user =>
              Altered(script[s].env) = CredentialsOf(script[s].env)
<1>1. script[s].env \in Environments /\ volume \in Credentials
  BY DEF Sound, ServerType, Programs
<1>2. Altered(script[s].env) \in Credentials
  BY <1>1 DEF Altered, Credentials, Environments, Complete
<1>3. script[s].env.user = volume.user => Altered(script[s].env) = CredentialsOf(script[s].env)
  BY DEF Altered, CredentialsOf
<1> QED
  BY <1>2, <1>3, UnsetIsNone

LEMMA KeepsAuthenticate == ASSUME Sound, NEW s \in Scripts, Authenticate(s) PROVE Kept(s)
<1> DEFINE e == script[s].env
           admitted == Available /\ volume # Unset /\ volume.root = e.root
           granted == admitted /\ e.user = volume.user
           program == IF granted THEN Synchronised(s) ELSE [script[s] EXCEPT !.step = "stop"]
<1>1. script[s] \in Programs /\ script[s].step = "authenticate" /\ ProgramSound(s)
  BY DEF Sound, ServerType, Authenticate, At
<1>2. /\ script[s].command = "deploy" /\ script[s].applied = Unset
      /\ volume # Unset /\ Complete(e)
  BY <1>1 DEF ProgramSound, Resetting
<1>3. /\ Altered(e) \in Credentials /\ Altered(e) # Unset
      /\ e.user = volume.user => Altered(e) = CredentialsOf(e)
  BY <1>2, AlteredType
<1>4. script' = [script EXCEPT ![s] = program] /\ volume' = IF admitted THEN Altered(e) ELSE volume
  BY DEF Authenticate, Go
<1>5. /\ program \in Programs
      /\ granted => program.applied = CredentialsOf(e) /\ program.applied # Unset
                    /\ program.command = "start" /\ program.step = "ensure"
      /\ ~ granted => program.applied = Unset /\ program.command = "deploy"
                      /\ program.step = "stop" /\ program.env = e
  BY <1>1, <1>2, SynchronisedProgram DEF Programs, Steps
<1>6. granted => volume' = CredentialsOf(e)
  BY <1>3, <1>4
<1>7. volume' \in Credentials \cup {Unset} /\ volume' # Unset
  BY <1>2, <1>3, <1>4 DEF Sound, ServerType
<1>8. Alters(s)
  BY <1>1, <1>2 DEF Alters
<1> HIDE DEF program, granted, admitted
<1>9. Acted(s) /\ script'[s] = program
  BY <1>2, <1>4, <1>5, <1>7, <1>8, ActedStep
<1>10. ProgramSound(s)'
  BY <1>2, <1>5, <1>6, <1>7, <1>9 DEF ProgramSound, Resetting
<1>11. ServerType'
  BY <1>7, <1>9 DEF Authenticate, Sound, ServerType, Acted
<1>12. GrantlessIsContained'
  BY <1>1, <1>9, StaysContained DEF Authenticate, migration, Sound, GrantlessIsContained
<1> QED
  BY <1>9, <1>10, <1>11, <1>12 DEF Kept

LEMMA KeepsReset == ASSUME Sound, NEW s \in Scripts, ResetCredentials(s) PROVE Kept(s)
<1> DEFINE e == script[s].env
           granted == recovery /\ e.user = volume.user
           program == [script[s] EXCEPT !.step = IF granted THEN "remove" ELSE "give up"]
<1>1. script[s] \in Programs /\ script[s].step = "reset" /\ ProgramSound(s)
  BY DEF Sound, ServerType, ResetCredentials, At
<1>2. /\ script[s].command = "deploy" /\ script[s].applied = Unset
      /\ volume # Unset /\ Complete(e)
  BY <1>1 DEF ProgramSound, Resetting
<1>3. /\ Altered(e) \in Credentials /\ Altered(e) # Unset
      /\ e.user = volume.user => Altered(e) = CredentialsOf(e)
  BY <1>2, AlteredType
<1>4. script' = [script EXCEPT ![s] = program] /\ volume' = IF recovery THEN Altered(e) ELSE volume
  BY DEF ResetCredentials, Go
<1>5. /\ program \in Programs
      /\ program.applied = Unset /\ program.command = "deploy" /\ program.env = e
      /\ program.step = IF granted THEN "remove" ELSE "give up"
  BY <1>1, <1>2 DEF Programs, Steps
<1>6. granted => volume' = CredentialsOf(e)
  BY <1>3, <1>4
<1>7. volume' \in Credentials \cup {Unset} /\ volume' # Unset
  BY <1>2, <1>3, <1>4 DEF Sound, ServerType
<1>8. Alters(s)
  BY <1>1, <1>2 DEF Alters
<1> HIDE DEF program, granted
<1>9. Acted(s) /\ script'[s] = program
  BY <1>2, <1>4, <1>5, <1>7, <1>8, ActedStep
<1>10. ProgramSound(s)'
  BY <1>2, <1>5, <1>6, <1>7, <1>9 DEF ProgramSound, Resetting
<1>11. ServerType'
  BY <1>7, <1>9 DEF ResetCredentials, Sound, ServerType, Acted
<1>12. GrantlessIsContained'
  BY <1>1, <1>5, <1>9, StaysContained DEF ResetCredentials, migration, Sound, GrantlessIsContained
<1> QED
  BY <1>9, <1>10, <1>11, <1>12 DEF Kept

LEMMA InitialisedType ==
  ASSUME Sound, Complete(env)
  PROVE  Initialised \in Credentials /\ Initialised # Unset
BY CredentialsType, UnsetIsNone DEF Sound, ServerType, Initialised

LEMMA KeepsUpDatabase == ASSUME Sound, NEW s \in Scripts, UpDatabase(s) PROVE Kept(s)
<1> DEFINE program ==
      IF ~ Complete(env) \/ recovery THEN [script[s] EXCEPT !.step = "failed"]
      ELSE IF script[s].step = "again" THEN Synchronised(s) ELSE [script[s] EXCEPT !.step = "sync"]
<1>1. /\ script[s] \in Programs /\ script[s].step \in {"database", "again"} /\ ProgramSound(s)
      /\ env \in Environments
  BY DEF Sound, ServerType, UpDatabase, At
<1>2. /\ script[s].command = "deploy" /\ script[s].applied = Unset
      /\ script[s].step = "again" => volume # Unset /\ Complete(script[s].env)
  BY <1>1 DEF ProgramSound, Resetting
<1>3. /\ script' = [script EXCEPT ![s] = program]
      /\ volume' = IF Complete(env) THEN Initialised ELSE volume
      /\ mariadb' = (IF Complete(env) THEN "up" ELSE mariadb)
      /\ recovery' = recovery
  BY DEF UpDatabase, At
<1>4. /\ volume' \in Credentials \cup {Unset}
      /\ volume # Unset => volume' = volume
      /\ Complete(env) => volume' # Unset
  BY <1>3, InitialisedType DEF Sound, ServerType, Initialised
<1>5. ASSUME ~ Complete(env) \/ recovery
      PROVE  Acted(s) /\ ProgramSound(s)'
  <2>1. /\ program \in Programs /\ program.step = "failed" /\ program.applied = Unset
        /\ program.command = "deploy"
    BY <1>1, <1>2, <1>5 DEF Programs, Steps
  <2> HIDE DEF program
  <2>2. Acted(s) /\ script'[s] = program
    BY <1>3, <1>4, <2>1, ActedStep
  <2>3. ProgramSound(s)'
    BY <2>1, <2>2 DEF ProgramSound, Resetting
  <2> QED
    BY <2>2, <2>3
<1>6. ASSUME Complete(env) /\ ~ recovery /\ script[s].step = "database"
      PROVE  Acted(s) /\ ProgramSound(s)'
  <2>1. /\ program \in Programs /\ program.step = "sync" /\ program.applied = Unset
        /\ program.command = "deploy"
    BY <1>1, <1>2, <1>6 DEF Programs, Steps
  <2> HIDE DEF program
  <2>2. Acted(s) /\ script'[s] = program
    BY <1>3, <1>4, <2>1, ActedStep
  <2>3. ProgramSound(s)'
    BY <1>4, <1>6, <2>1, <2>2 DEF ProgramSound, Resetting
  <2> QED
    BY <2>2, <2>3
<1>7. ASSUME Complete(env) /\ ~ recovery /\ script[s].step = "again"
      PROVE  Acted(s) /\ ProgramSound(s)'
  <2>1. /\ program \in Programs /\ program.step = "ensure" /\ program.applied # Unset
        /\ program.command = "start" /\ program.applied = CredentialsOf(script[s].env)
    BY <1>2, <1>7, SynchronisedProgram
  <2> HIDE DEF program
  <2>2. /\ Acted(s) /\ script'[s] = program
        /\ (\A t \in Scripts \ {s} : ~ Alters(t)') => (\A t \in Scripts \ {s} : ~ Alters(t))
    BY <1>3, <1>4, <2>1, ActedStep
  <2>3. (\A t \in Scripts \ {s} : ~ Alters(t)') => volume' = program.applied
    BY <1>1, <1>2, <1>4, <1>7, <2>1, <2>2 DEF ProgramSound
  <2>4. ProgramSound(s)'
    BY <1>2, <1>4, <1>7, <2>1, <2>2, <2>3 DEF ProgramSound, Resetting
  <2> QED
    BY <2>2, <2>4
<1>8. Acted(s) /\ ProgramSound(s)'
  BY <1>1, <1>5, <1>6, <1>7
<1>9. ServerType'
  BY <1>3, <1>4, <1>8 DEF UpDatabase, Sound, ServerType, Acted
<1>10. recovery' \/ mariadb' # "up" => api' = "off"
  <2>1. recovery \/ mariadb # "up" => api = "off"
    BY DEF Sound, GrantlessIsContained
  <2>2. CASE Complete(env)
    BY <1>3, <2>1, <2>2, EndsOff DEF UpDatabase, migration
  <2>3. CASE ~ Complete(env)
    BY <1>3, <2>1, <2>3 DEF UpDatabase, migration
  <2> QED
    BY <2>2, <2>3
<1>11. GrantlessIsContained'
  BY <1>1, <1>3, <1>8, <1>10, StaysContained
<1> QED
  BY <1>8, <1>9, <1>11 DEF Kept

LEMMA KeepsUpServices == ASSUME Sound, NEW s \in Scripts, UpServices(s) PROVE Kept(s)
<1>1. /\ script[s] \in Programs /\ script[s].step = "up" /\ ProgramSound(s)
      /\ env \in Environments /\ web \in [state : {"absent", "stopped", "running"}, env : Environments]
  BY DEF Sound, ServerType, UpServices, At
<1>2. PICK step \in {"wait", "failed"} : Go(s, step)
  BY DEF UpServices
<1> DEFINE program == [script[s] EXCEPT !.step = step]
<1>3. /\ program \in Programs /\ script' = [script EXCEPT ![s] = program]
      /\ program.step = step /\ program.command = script[s].command
      /\ program.applied = script[s].applied
  BY <1>1, <1>2 DEF Programs, Steps, Go
<1>4. /\ volume' = IF Complete(env) THEN Initialised ELSE volume
      /\ mariadb' = (IF Complete(env) THEN "up" ELSE mariadb)
      /\ recovery' = recovery
  BY DEF UpServices
<1>5. /\ volume' \in Credentials \cup {Unset}
      /\ volume # Unset => volume' = volume
  BY <1>4, InitialisedType DEF Sound, ServerType, Initialised
<1> HIDE DEF program
<1>6. /\ Acted(s) /\ script'[s] = program
      /\ (\A t \in Scripts \ {s} : ~ Alters(t)') => (\A t \in Scripts \ {s} : ~ Alters(t))
  <2>1. Alters(s) => program.applied # Unset \/ program.command = "deploy"
    BY <1>3 DEF Alters
  <2> QED
    BY <1>3, <1>5, <2>1, ActedStep
<1>7. ProgramSound(s)'
  BY <1>1, <1>3, <1>5, <1>6 DEF ProgramSound, Resetting
<1>8. web' \in [state : {"absent", "stopped", "running"}, env : Environments]
  BY <1>1 DEF UpServices
<1>9. ServerType'
  BY <1>4, <1>5, <1>6, <1>8 DEF UpServices, Sound, ServerType, Acted
<1>10. recovery' \/ mariadb' # "up" => api' = "off"
  <2>1. recovery \/ mariadb # "up" => api = "off"
    BY DEF Sound, GrantlessIsContained
  <2>2. CASE Complete(env) /\ ~ recovery
    BY <1>4, <2>2
  <2>3. CASE ~ Complete(env) \/ recovery
    BY <1>4, <2>1, <2>3 DEF UpServices, migration
  <2> QED
    BY <2>2, <2>3
<1>11. GrantlessIsContained'
  BY <1>1, <1>4, <1>6, <1>10, StaysContained
<1> QED
  BY <1>6, <1>7, <1>9, <1>11 DEF Kept

\* EnsureHostPort and RestartServices: the script takes the port it has read.
LEMMA PortStep ==
  ASSUME Sound, NEW s \in Scripts, NEW step \in {"failed", "up", "wait"},
         script[s].step \in {"port", "restart"},
         script' = [script EXCEPT ![s].env.port = env.port, ![s].step = step],
         volume' = volume
  PROVE  Acted(s) /\ ProgramSound(s)'
<1> DEFINE program == [script[s] EXCEPT !.env.port = env.port, !.step = step]
<1>1. script[s] \in Programs /\ env \in Environments
  BY DEF Sound, ServerType
<1>2. program \in Programs
  BY <1>1 DEF Programs, Steps, Environments
<1>3. script' = [script EXCEPT ![s] = program]
  OBVIOUS
<1>4. /\ program.command = script[s].command /\ program.applied = script[s].applied
      /\ program.step = step
  BY <1>1 DEF Programs
<1> HIDE DEF program
<1> QED
  BY <1>2, <1>3, <1>4, PlainStep DEF Resetting

LEMMA KeepsPort == ASSUME Sound, NEW s \in Scripts, EnsureHostPort(s) PROVE Kept(s)
<1>1. /\ script[s].step = "port" /\ env.port \in Ports
      /\ web \in [state : {"absent", "stopped", "running"}, env : Environments]
      /\ holder \in [Ports -> {"nobody", "legacy", "stranger"}]
  BY DEF Sound, ServerType, EnsureHostPort, At, Environments
<1>2. PICK step \in {"failed", "up"} :
        script' = [script EXCEPT ![s].env.port = env.port, ![s].step = step]
  BY DEF EnsureHostPort
<1>3. Acted(s) /\ ProgramSound(s)'
  BY <1>1, <1>2, PortStep DEF EnsureHostPort
<1>4. web' \in [state : {"absent", "stopped", "running"}, env : Environments]
  BY <1>1 DEF EnsureHostPort
<1>5. holder' \in [Ports -> {"nobody", "legacy", "stranger"}]
  BY <1>1 DEF EnsureHostPort
<1>6. ServerType'
  BY <1>3, <1>4, <1>5 DEF EnsureHostPort, Sound, ServerType, Acted
<1>7. api' = api \/ api' = "off"
  BY EndsOff DEF EnsureHostPort, migration
<1>8. GrantlessIsContained'
  BY <1>1, <1>3, <1>7, StaysContained DEF EnsureHostPort, Sound, GrantlessIsContained
<1> QED
  BY <1>3, <1>6, <1>8 DEF Kept

LEMMA KeepsRestart == ASSUME Sound, NEW s \in Scripts, RestartServices(s) PROVE Kept(s)
<1>1. /\ script[s].step = "restart" /\ api' = "off"
      /\ web \in [state : {"absent", "stopped", "running"}, env : Environments]
  BY EndsOff DEF Sound, ServerType, RestartServices, At
<1>2. script' = [script EXCEPT ![s].env.port = env.port, ![s].step = "wait"]
  BY DEF RestartServices
<1>3. Acted(s) /\ ProgramSound(s)'
  BY <1>1, <1>2, PortStep DEF RestartServices
<1>4. web' \in [state : {"absent", "stopped", "running"}, env : Environments]
  BY <1>1 DEF RestartServices
<1>5. ServerType'
  BY <1>3, <1>4 DEF RestartServices, Sound, ServerType, Acted
<1>6. GrantlessIsContained'
  BY <1>1, <1>3, StaysContained DEF RestartServices
<1> QED
  BY <1>3, <1>5, <1>6 DEF Kept

LEMMA KeptIsSound == ASSUME Sound, NEW s \in Scripts, Kept(s) PROVE Sound'
BY AllStaySound DEF Kept, Sound

----------------------------------------------------------------------------
(* The other steps.                                                        *)

LEMMA StartKeepsSound == ASSUME Sound, NEW s \in Scripts, Start(s) PROVE Sound'
<1>1. script \in [Scripts -> Programs] /\ script[s].step = "idle"
  BY DEF Sound, ServerType, Start, At
<1>2. [script[s] EXCEPT !.step = "ensure", !.alone = Deployable(s)] \in Programs
  BY <1>1 DEF Programs, Steps, Deployable
<1>3. \A t \in Scripts : [script[t] EXCEPT !.alone = FALSE] \in Programs
  BY <1>1 DEF Programs
<1>4. script' \in [Scripts -> Programs]
  BY <1>2, <1>3 DEF Start
<1>5. \A t \in Scripts :
        /\ script'[t].command = script[t].command /\ script'[t].applied = script[t].applied
        /\ script'[t].env = script[t].env
        /\ script'[t].step = IF t = s THEN "ensure" ELSE script[t].step
  BY <1>1 DEF Start, Programs
<1>6. \A t \in Scripts : Alters(t) => Alters(t)'
  BY <1>1, <1>5 DEF Alters
<1>7. UNCHANGED <<server, faults, migration>>
  BY DEF Start
<1>8. ServerType'
  BY <1>4, <1>7 DEF Sound, ServerType, server
<1>9. ASSUME NEW t \in Scripts PROVE ProgramSound(t)'
  BY <1>1, <1>5, <1>6, <1>7 DEF ProgramSound, Resetting, Sound, server
<1>10. GrantlessIsContained'
  BY <1>1, <1>5, <1>7 DEF GrantlessIsContained, Sound, server, migration
<1> QED
  BY <1>8, <1>9, <1>10 DEF Sound

LEMMA Counting ==
  ASSUME NEW bound \in Nat, NEW count \in 0 .. bound, count < bound PROVE count + 1 \in 0 .. bound
OBVIOUS

LEMMA DisturbedIsSound ==
  ASSUME Sound, NEW steps, Disturbed(steps), UNCHANGED server, api' = api \/ api' = "off",
         \A s \in Scripts : s \in DOMAIN steps =>
           /\ steps[s] \in {"stop", "give up", "failed", "killed"} /\ Active(s)
           /\ steps[s] = "stop" => script[s].step = "authenticate"
           /\ steps[s] = "give up" => script[s].step \in {"recover", "reset"}
           /\ script[s].step \in {"reset", "remove", "give up"} => steps[s] \in {"give up", "killed"}
  PROVE  Sound'
<1>1. script \in [Scripts -> Programs] /\ faults \in 0 .. MaxFaults /\ MaxFaults \in Nat
  BY ScenariosAssumption DEF Sound, ServerType
<1> DEFINE step(s) == IF s \in DOMAIN steps THEN steps[s] ELSE script[s].step
<1>2. \A s \in Scripts : step(s) \in Steps
  BY <1>1 DEF Steps, Programs
<1>3. script' = [s \in Scripts |-> [script[s] EXCEPT !.alone = FALSE, !.step = step(s)]]
  BY DEF Disturbed
<1> HIDE DEF step
<1>4. \A s \in Scripts : [script[s] EXCEPT !.alone = FALSE, !.step = step(s)] \in Programs
  BY <1>1, <1>2 DEF Programs
<1>5. script' \in [Scripts -> Programs]
  BY <1>3, <1>4
<1>6. \A s \in Scripts :
        /\ script'[s].command = script[s].command /\ script'[s].applied = script[s].applied
        /\ script'[s].env = script[s].env /\ script'[s].step = step(s)
  BY <1>1, <1>3 DEF Programs
<1>7. \A s \in Scripts : Alters(s) => Alters(s)'
  BY <1>6 DEF Alters, step
<1>8. faults' \in 0 .. MaxFaults
  <2>1. faults < MaxFaults /\ faults' = faults + 1
    BY DEF Disturbed
  <2> QED
    BY <1>1, <2>1, Counting
<1>9. ServerType'
  BY <1>5, <1>8 DEF Sound, ServerType, server
<1>10. ASSUME NEW s \in Scripts PROVE ProgramSound(s)'
  BY <1>6, <1>7 DEF ProgramSound, Resetting, Sound, server, step
<1>11. GrantlessIsContained'
  <2>1. recovery' \/ mariadb' # "up" => api' = "off"
    BY DEF Sound, GrantlessIsContained, server
  <2> SUFFICES ASSUME recovery'
               PROVE  \E s \in Scripts : script'[s].step \in {"reset", "remove", "give up", "killed"}
    BY <2>1 DEF GrantlessIsContained
  <2>2. PICK s \in Scripts : script[s].step \in {"reset", "remove", "give up", "killed"}
    BY DEF Sound, GrantlessIsContained, server
  <2>3. step(s) \in {"reset", "remove", "give up", "killed"}
    BY <2>2 DEF step, Active
  <2> QED
    BY <1>6, <2>3
<1> QED
  BY <1>9, <1>10, <1>11 DEF Sound

LEMMA FailKeepsSound == ASSUME Sound, NEW s \in Scripts, Fail(s) PROVE Sound'
<1> DEFINE steps == [t \in {s} |->
      CASE script[s].step = "authenticate" -> "stop"
        [] script[s].step \in {"recover", "reset"} -> "give up"
        [] OTHER -> "failed"]
<1>1. Disturbed(steps) /\ UNCHANGED server /\ api' = api
      /\ Active(s) /\ script[s].step \notin {"remove", "give up"}
  BY DEF Fail, migration
<1>2. DOMAIN steps = {s} /\ steps[s] \in {"stop", "give up", "failed"}
      /\ (steps[s] = "stop" => script[s].step = "authenticate")
      /\ (steps[s] = "give up" <=> script[s].step \in {"recover", "reset"})
  OBVIOUS
<1> HIDE DEF steps
<1> QED
  BY <1>1, <1>2, DisturbedIsSound

LEMMA KillKeepsSound == ASSUME Sound, NEW s \in Scripts, Kill(s) PROVE Sound'
<1> DEFINE steps == [t \in {s} |-> "killed"]
<1>1. Disturbed(steps) /\ UNCHANGED server /\ api' = api /\ Active(s)
  BY DEF Kill, migration, Active
<1>2. DOMAIN steps = {s} /\ steps[s] = "killed"
  OBVIOUS
<1> HIDE DEF steps
<1> QED
  BY <1>1, <1>2, DisturbedIsSound

LEMMA CrashKeepsSound == Sound /\ Crash => Sound'
<1> SUFFICES ASSUME Sound, Crash PROVE Sound'
  OBVIOUS
<1> DEFINE steps == << >>
<1>1. Disturbed(steps) /\ UNCHANGED server /\ api' = "off"
  BY DEF Crash, Cut
<1>2. DOMAIN steps = {}
  OBVIOUS
<1> HIDE DEF steps
<1> QED
  BY <1>1, <1>2, DisturbedIsSound

LEMMA UpgradeKeepsSound == Sound /\ (Upgrade \/ ManageAccounts) => Sound'
<1> SUFFICES ASSUME Sound, Upgrade \/ ManageAccounts PROVE Sound'
  OBVIOUS
<1>1. mariadb = "up" /\ ~ recovery /\ UNCHANGED <<server, script, faults>>
  BY DEF Upgrade, BeginUpgrade, WorkUpgrade, ManageAccounts, Available, Reachable
<1>2. ServerType'
  BY <1>1 DEF Sound, ServerType, server
<1>3. ASSUME NEW s \in Scripts PROVE ProgramSound(s)'
  BY <1>1 DEF Sound, ProgramSound, server, Alters
<1> QED
  BY <1>1, <1>2, <1>3 DEF Sound, GrantlessIsContained, server

LEMMA StutterKeepsSound == Sound /\ UNCHANGED vars => Sound'
<1> SUFFICES ASSUME Sound, UNCHANGED vars PROVE Sound'
  OBVIOUS
<1>1. ServerType'
  BY DEF Sound, ServerType, vars
<1>2. ASSUME NEW s \in Scripts PROVE ProgramSound(s)'
  BY DEF Sound, ProgramSound, vars, Alters
<1> QED
  BY <1>1, <1>2 DEF Sound, GrantlessIsContained, vars, migration

LEMMA InitIsSound == Init => Sound
<1> SUFFICES ASSUME Init PROVE Sound
  OBVIOUS
<1>1. PICK begin \in Scenarios :
        /\ env = begin.env /\ volume = begin.volume /\ recovery = begin.recovery
        /\ mariadb = begin.mariadb /\ holder = begin.holder
        /\ web = begin.web
        /\ \E commands \in begin.commands :
             script = [s \in Scripts |->
                        [step |-> IF s \in DOMAIN commands THEN "idle" ELSE "done",
                         command |-> IF s \in DOMAIN commands THEN commands[s] ELSE "start",
                         env |-> begin.env, applied |-> Unset, alone |-> FALSE]]
        /\ faults = MaxFaults - begin.faults
  BY DEF Init
<1>2. PICK commands \in begin.commands :
        script = [s \in Scripts |->
                   [step |-> IF s \in DOMAIN commands THEN "idle" ELSE "done",
                    command |-> IF s \in DOMAIN commands THEN commands[s] ELSE "start",
                    env |-> begin.env, applied |-> Unset, alone |-> FALSE]]
  BY <1>1
<1>3. /\ MaxFaults \in Nat /\ begin.env \in Environments
      /\ begin.volume \in Credentials \cup {Unset}
      /\ begin.mariadb \in {"absent", "stopped", "up"} /\ begin.recovery = FALSE
      /\ begin.web \in [state : {"absent", "stopped", "running"}, env : Environments]
      /\ begin.holder \in [Ports -> {"nobody", "legacy", "stranger"}]
      /\ \A s \in DOMAIN commands : commands[s] \in Commands
      /\ begin.faults \in 0 .. MaxFaults
  BY ScenariosAssumption
<1>4. ASSUME NEW s \in Scripts
      PROVE  [step |-> IF s \in DOMAIN commands THEN "idle" ELSE "done",
              command |-> IF s \in DOMAIN commands THEN commands[s] ELSE "start",
              env |-> begin.env, applied |-> Unset, alone |-> FALSE] \in Programs
  BY <1>3 DEF Programs, Steps, Commands
<1>5. script \in [Scripts -> Programs]
  BY <1>2, <1>4
<1>6. ServerType
  <2>1. faults \in 0 .. MaxFaults
    BY <1>1, <1>3
  <2> QED
    BY <1>1, <1>3, <1>5, <2>1 DEF ServerType
<1>7. ASSUME NEW s \in Scripts PROVE script[s].step \in {"idle", "done"} /\ script[s].applied = Unset
  BY <1>2
<1>8. ASSUME NEW s \in Scripts PROVE ProgramSound(s)
  BY <1>7 DEF ProgramSound, Resetting
<1>9. GrantlessIsContained
  BY <1>1, <1>3 DEF GrantlessIsContained, Init, UpgradeInit
<1> QED
  BY <1>6, <1>8, <1>9 DEF Sound

LEMMA ScriptStepIsKept == ASSUME Sound, NEW s \in Scripts, Step(s) PROVE Kept(s)
<1>1. CASE EnsureEnvironment(s)
  BY <1>1, KeepsEnsure
<1>2. CASE ReplaceEnvironment(s)
  BY <1>2, KeepsReplace
<1>3. CASE ReadSettings(s)
  BY <1>3, KeepsReadSettings
<1>4. CASE WriteSetting(s)
  BY <1>4, KeepsWriteSetting
<1>5. CASE UpDatabase(s)
  BY <1>5, KeepsUpDatabase
<1>6. CASE ReadCredentials(s)
  BY <1>6, KeepsReadCredentials
<1>7. CASE Authenticate(s)
  BY <1>7, KeepsAuthenticate
<1>8. CASE StopServices(s)
  BY <1>8, KeepsStop
<1>9. CASE RunRecovery(s)
  BY <1>9, KeepsRun
<1>10. CASE ResetCredentials(s)
  BY <1>10, KeepsReset
<1>11. CASE RemoveRecovery(s)
  BY <1>11, KeepsRemove
<1>12. CASE EnsureHostPort(s)
  BY <1>12, KeepsPort
<1>13. CASE UpServices(s)
  BY <1>13, KeepsUpServices
<1>14. CASE RestartServices(s)
  BY <1>14, KeepsRestart
<1>15. CASE DownServices(s)
  BY <1>15, KeepsDown
<1>16. CASE WaitUntilReady(s)
  BY <1>16, KeepsWait
<1> QED
  BY <1>1, <1>2, <1>3, <1>4, <1>5, <1>6, <1>7, <1>8, <1>9, <1>10, <1>11, <1>12, <1>13,
     <1>14, <1>15, <1>16 DEF Step

LEMMA ScriptStepKeepsSound == ASSUME Sound, NEW s \in Scripts, Step(s) PROVE Sound'
BY ScriptStepIsKept, KeptIsSound

LEMMA StepKeepsSound == Sound /\ [Next]_vars => Sound'
<1> SUFFICES ASSUME Sound, [Next]_vars PROVE Sound'
  OBVIOUS
<1>1. CASE Next
  BY <1>1, StartKeepsSound, ScriptStepKeepsSound, FailKeepsSound, KillKeepsSound,
     UpgradeKeepsSound, CrashKeepsSound DEF Next
<1>2. CASE UNCHANGED vars
  BY <1>2, StutterKeepsSound
<1> QED
  BY <1>1, <1>2

\* Every script is at a step its command has, with the settings and credentials that step
\* relies on, and the recovery server runs only under the script that started it.
THEOREM ServerIsSound == Spec => []Sound
BY InitIsSound, StepKeepsSound, PTL DEF Spec

\* The values of every variable of a server stay in their types.
THEOREM ServerTypeCorrect == Spec => []TypeOK
<1>1. Spec => []UpgradeTypeOK
  BY StartsAreUpgrades, UpgradeTypeCorrect, PTL
<1>2. Sound /\ UpgradeTypeOK => TypeOK
  BY DEF Sound, ServerType, TypeOK
<1> QED
  BY <1>1, <1>2, ServerIsSound, PTL

\* Whatever scripts meet and whichever die, MariaDB without grant tables runs only inside a
\* recovery or after one that was killed, and never below an API at work.
THEOREM RecoveryIsContained == Spec => []GrantlessIsContained
<1>1. Sound => GrantlessIsContained
  BY DEF Sound
<1> QED
  BY <1>1, ServerIsSound, PTL

\* A deploy past the synchronisation has the credentials of .env in the volume, unless a
\* second one may have altered them.
THEOREM SynchronisedCredentialsHold == Spec => []CredentialsHold
<1>1. Sound => CredentialsHold
  <2> SUFFICES ASSUME Sound, NEW s \in Scripts, script[s].applied = CredentialsOf(env),
                      \A t \in Scripts \ {s} : ~ Alters(t)
               PROVE  volume = CredentialsOf(env)
    BY DEF CredentialsHold
  <2>1. CASE script[s].applied # Unset
    BY <2>1 DEF Sound, ProgramSound
  <2>2. CredentialsOf(env) # Unset
    BY UnsetIsNone DEF Sound, ServerType
  <2> QED
    BY <2>1, <2>2
<1> QED
  BY <1>1, ServerIsSound, PTL

----------------------------------------------------------------------------
(* A deploy that nothing disturbs.                                         *)

\* Where such a deploy is, and what it has achieved by then.
Stage(s) ==
  LET p == script[s] IN
  \/ p.command = "deploy" /\ p.step = "ensure"
  \/ /\ p.command = "deploy" /\ p.step = "replace" /\ Complete(p.env)
     /\ p.env.user = env.user /\ p.env.port = env.port
  \/ p.command = "deploy" /\ p.step = "database" /\ Complete(env)
  \/ p.step = "sync" /\ Complete(env) /\ volume # Unset
  \/ /\ p.step \in {"authenticate", "stop", "recover", "reset"}
     /\ p.env = env /\ Complete(env) /\ volume # Unset
     /\ p.step = "recover" => mariadb # "up"
  \/ /\ p.step \in {"remove", "again"}
     /\ p.env = env /\ Complete(env) /\ volume = CredentialsOf(env)
  \/ /\ p.command = "start" /\ p.step \in {"ensure", "port", "up"}
     /\ Complete(env) /\ volume = CredentialsOf(env)
     /\ p.step = "up" => holder[env.port] = "nobody"
  \/ p.step \in {"wait", "done", "failed"} /\ Reachable /\ web.env = env

\* Its way is clear.
Clear(s) ==
  /\ holder[env.port] # "stranger"
  /\ volume # Unset => volume.user = env.user
  /\ recovery <=> script[s].step \in {"reset", "remove"}
  /\ Stage(s)

Undisturbed(s) == script[s].alone => Clear(s) /\ \A t \in Scripts \ {s} : ~ Active(t)

LEMMA Typed ==
  ASSUME Sound, NEW s \in Scripts
  PROVE  /\ script \in [Scripts -> Programs] /\ script[s] \in Programs
         /\ env \in Environments /\ script[s].env \in Environments
BY DEF Sound, ServerType, Programs

\* What Go changes, and what it leaves alone.
LEMMA Gone ==
  ASSUME Sound, NEW s \in Scripts, NEW step, Go(s, step)
  PROVE  /\ script'[s].step = step /\ script'[s].env = script[s].env
         /\ script'[s].command = script[s].command
<1>1. script'[s] = [script[s] EXCEPT !.step = step]
  BY Typed DEF Go
<1> QED
  BY <1>1, Typed DEF Programs

LEMMA ClearEnsure ==
  ASSUME Sound, NEW s \in Scripts, Clear(s), EnsureEnvironment(s) PROVE Clear(s)'
<1>1. script[s].step = "ensure" /\ script[s].command \in {"deploy", "start"}
  BY DEF EnsureEnvironment, At, Clear, Stage
<1>2. script'[s] = [script[s] EXCEPT
        !.env = Completed(s, env),
        !.step = IF Complete(env) THEN AfterEnsure(script[s].command) ELSE "replace"]
  BY Typed DEF EnsureEnvironment
<1>3. /\ script'[s].command = script[s].command /\ script'[s].env = Completed(s, env)
      /\ script'[s].step = IF Complete(env) THEN AfterEnsure(script[s].command) ELSE "replace"
  BY <1>2, Typed DEF Programs
<1>4. UNCHANGED server
  BY DEF EnsureEnvironment
<1>5. CASE script[s].command = "start"
  BY <1>1, <1>3, <1>4, <1>5 DEF Clear, Stage, AfterEnsure, server
<1>6. CASE script[s].command = "deploy" /\ Complete(env)
  BY <1>1, <1>3, <1>4, <1>6 DEF Clear, Stage, AfterEnsure, server
<1>7. CASE script[s].command = "deploy" /\ ~ Complete(env)
  <2>1. <<s, "deploy">> # Unset
    BY UnsetAssumption DEF Secrets, Commands
  <2>2. /\ Complete(Completed(s, env))
        /\ Completed(s, env).user = env.user /\ Completed(s, env).port = env.port
    BY <1>7, <2>1, Typed DEF Complete, Completed, Environments
  <2> QED
    BY <1>1, <1>3, <1>4, <1>7, <2>2 DEF Clear, Stage, server
<1> QED
  BY <1>1, <1>5, <1>6, <1>7

LEMMA ClearReplace ==
  ASSUME Sound, NEW s \in Scripts, Clear(s), ReplaceEnvironment(s) PROVE Clear(s)'
<1>1. /\ script[s].step = "replace" /\ script[s].command = "deploy" /\ Complete(script[s].env)
      /\ script[s].env.user = env.user /\ script[s].env.port = env.port
  BY DEF ReplaceEnvironment, At, Clear, Stage
<1>2. /\ env' = script[s].env /\ UNCHANGED <<volume, mariadb, recovery, web, holder>>
      /\ script'[s].step = "database" /\ script'[s].command = "deploy"
  BY <1>1, Gone DEF ReplaceEnvironment, AfterEnsure
<1> QED
  BY <1>1, <1>2 DEF Clear, Stage, Complete

\* The synchronisation hands over to manage_server.py start.
LEMMA HandsOver ==
  ASSUME Sound, NEW s \in Scripts, script' = [script EXCEPT ![s] = Synchronised(s)]
  PROVE  script'[s].step = "ensure" /\ script'[s].command = "start"
<1>1. script'[s] = Synchronised(s)
  BY Typed
<1> QED
  BY <1>1, Typed DEF Synchronised, Programs

LEMMA ClearUpDatabase ==
  ASSUME Sound, NEW s \in Scripts, Clear(s), UpDatabase(s) PROVE Clear(s)'
<1>1. Complete(env) /\ ~ recovery /\ script[s].step \in {"database", "again"}
  BY DEF UpDatabase, At, Clear, Stage
<1>2. volume' = Initialised /\ UNCHANGED <<env, recovery, web, holder>>
  BY <1>1 DEF UpDatabase
<1>3. volume' # Unset /\ volume'.user = env.user /\ (volume # Unset => volume' = volume)
  BY <1>2, Typed, UnsetIsNone DEF Initialised, Clear, CredentialsOf
<1>4. CASE At(s, "again")
  <2>1. script'[s].step = "ensure" /\ script'[s].command = "start"
    BY <1>1, <1>4, HandsOver DEF UpDatabase
  <2>2. volume = CredentialsOf(env)
    BY <1>4 DEF At, Clear, Stage
  <2>3. volume' = CredentialsOf(env)
    BY <1>2, <2>2 DEF Initialised
  <2> QED
    BY <1>1, <1>2, <1>3, <2>1, <2>3 DEF Clear, Stage, Complete, CredentialsOf
<1>5. CASE ~ At(s, "again")
  <2>1. script'[s] = [script[s] EXCEPT !.step = "sync"]
    BY <1>1, <1>5, Typed DEF UpDatabase
  <2>2. script'[s].step = "sync"
    BY <2>1, Typed DEF Programs
  <2> QED
    BY <1>1, <1>2, <1>3, <2>2 DEF Clear, Stage, Complete
<1> QED
  BY <1>4, <1>5

LEMMA ClearReadCredentials ==
  ASSUME Sound, NEW s \in Scripts, Clear(s), ReadCredentials(s) PROVE Clear(s)'
<1>1. script[s].step = "sync" /\ Complete(env) /\ volume # Unset
  BY DEF ReadCredentials, At, Clear, Stage
<1>2. script'[s] = [script[s] EXCEPT !.env = env, !.step = "authenticate"] /\ UNCHANGED server
  BY <1>1, Typed DEF ReadCredentials
<1>3. script'[s].env = env /\ script'[s].step = "authenticate"
  BY <1>2, Typed DEF Programs
<1> QED
  BY <1>1, <1>2, <1>3 DEF Clear, Stage, Complete, server

LEMMA ClearAuthenticate ==
  ASSUME Sound, NEW s \in Scripts, Clear(s), Authenticate(s) PROVE Clear(s)'
<1> DEFINE admitted == Available /\ volume # Unset /\ volume.root = env.root
<1>1. /\ script[s].step = "authenticate" /\ script[s].env = env /\ Complete(env)
      /\ volume # Unset /\ volume.user = env.user /\ ~ recovery
  BY DEF Authenticate, At, Clear, Stage
<1>2. /\ UNCHANGED <<env, mariadb, recovery, web, holder>>
      /\ volume' = IF admitted THEN Altered(env) ELSE volume
      /\ IF admitted THEN script' = [script EXCEPT ![s] = Synchronised(s)] ELSE Go(s, "stop")
  BY <1>1 DEF Authenticate
<1> HIDE DEF admitted
<1>3. Altered(env) = CredentialsOf(env) /\ CredentialsOf(env).user = env.user
  BY <1>1 DEF Altered, CredentialsOf
<1>4. CASE admitted
  BY <1>1, <1>2, <1>3, <1>4, HandsOver DEF Clear, Stage, Complete, CredentialsOf
<1>5. CASE ~ admitted
  BY <1>1, <1>2, <1>5, Gone DEF Clear, Stage, Complete
<1> QED
  BY <1>4, <1>5

LEMMA ClearStop == ASSUME Sound, NEW s \in Scripts, Clear(s), StopServices(s) PROVE Clear(s)'
<1>1. /\ script[s].step = "stop" /\ script[s].env = env /\ Complete(env) /\ volume # Unset
  BY DEF StopServices, At, Clear, Stage
<1>2. /\ UNCHANGED <<env, volume, holder>> /\ recovery' = FALSE /\ mariadb' # "up"
      /\ script'[s].step = "recover" /\ script'[s].env = script[s].env
  BY Gone DEF StopServices
<1> QED
  BY <1>1, <1>2 DEF Clear, Stage, Complete

LEMMA ClearRun == ASSUME Sound, NEW s \in Scripts, Clear(s), RunRecovery(s) PROVE Clear(s)'
<1>1. /\ script[s].step = "recover" /\ script[s].env = env /\ Complete(env) /\ volume # Unset
      /\ mariadb # "up" /\ ~ recovery
  BY DEF RunRecovery, At, Clear, Stage
<1>2. /\ UNCHANGED <<env, volume, holder>> /\ recovery' = TRUE
      /\ script'[s].step = "reset" /\ script'[s].env = script[s].env
  BY <1>1, Gone DEF RunRecovery
<1> QED
  BY <1>1, <1>2 DEF Clear, Stage, Complete

LEMMA ClearReset == ASSUME Sound, NEW s \in Scripts, Clear(s), ResetCredentials(s) PROVE Clear(s)'
<1>1. /\ script[s].step = "reset" /\ script[s].env = env /\ Complete(env) /\ volume # Unset
      /\ volume.user = env.user /\ recovery
  BY DEF ResetCredentials, At, Clear, Stage
<1>2. /\ UNCHANGED <<env, recovery, holder>> /\ volume' = Altered(env)
      /\ script'[s].step = "remove" /\ script'[s].env = script[s].env
  BY <1>1, Gone DEF ResetCredentials
<1>3. Altered(env) = CredentialsOf(env) /\ CredentialsOf(env).user = env.user
  BY <1>1 DEF Altered, CredentialsOf
<1> QED
  BY <1>1, <1>2, <1>3 DEF Clear, Stage, Complete, CredentialsOf

LEMMA ClearRemove == ASSUME Sound, NEW s \in Scripts, Clear(s), RemoveRecovery(s) PROVE Clear(s)'
<1>1. /\ script[s].step = "remove" /\ script[s].env = env /\ Complete(env)
      /\ volume = CredentialsOf(env)
  BY DEF RemoveRecovery, At, Clear, Stage
<1>2. /\ UNCHANGED <<env, volume, holder>> /\ recovery' = FALSE
      /\ script'[s].step = "again" /\ script'[s].env = script[s].env
  BY <1>1, Gone DEF RemoveRecovery, At
<1> QED
  BY <1>1, <1>2 DEF Clear, Stage, Complete, CredentialsOf

LEMMA ClearPort == ASSUME Sound, NEW s \in Scripts, Clear(s), EnsureHostPort(s) PROVE Clear(s)'
<1>1. /\ script[s].step = "port" /\ script[s].command = "start" /\ Complete(env)
      /\ volume = CredentialsOf(env) /\ holder[env.port] # "stranger"
  BY DEF EnsureHostPort, At, Clear, Stage
<1>2. script'[s] = [script[s] EXCEPT !.env.port = env.port, !.step = "up"]
  BY <1>1, Typed DEF EnsureHostPort
<1>3. script'[s].step = "up" /\ script'[s].command = "start"
  BY <1>1, <1>2, Typed DEF Programs
<1>4. UNCHANGED <<env, volume, recovery>> /\ holder'[env.port] = "nobody"
  <2>1. holder \in [Ports -> {"nobody", "legacy", "stranger"}] /\ env.port \in Ports
    BY Typed DEF Sound, ServerType, Environments
  <2> QED
    BY <1>1, <2>1 DEF EnsureHostPort
<1> QED
  BY <1>1, <1>3, <1>4 DEF Clear, Stage, Complete, CredentialsOf

LEMMA ClearUpServices == ASSUME Sound, NEW s \in Scripts, Clear(s), UpServices(s) PROVE Clear(s)'
<1>1. /\ script[s].step = "up" /\ Complete(env) /\ ~ recovery
      /\ volume = CredentialsOf(env) /\ holder[env.port] = "nobody"
  BY DEF UpServices, At, Clear, Stage
<1>2. /\ UNCHANGED <<env, recovery, holder>> /\ volume' = Initialised /\ mariadb' = "up"
      /\ web' = [state |-> "running", env |-> env] /\ Go(s, "wait")
  BY <1>1 DEF UpServices
<1>3. script'[s].step = "wait"
  BY <1>2, Gone
<1>4. /\ volume' = CredentialsOf(env) /\ volume'.user = env.user
      /\ volume'.password = env.password /\ volume' # Unset
  BY <1>1, <1>2, Typed, UnsetIsNone DEF Initialised, CredentialsOf
<1>5. Reachable' /\ web'.env = env'
  BY <1>1, <1>2, <1>4 DEF Reachable, Available, Admitted
<1> QED
  BY <1>1, <1>2, <1>3, <1>4, <1>5 DEF Clear, Stage

LEMMA ClearWait == ASSUME Sound, NEW s \in Scripts, Clear(s), WaitUntilReady(s) PROVE Clear(s)'
<1>1. script[s].step = "wait" /\ Reachable /\ web.env = env
  BY DEF WaitUntilReady, At, Clear, Stage
<1>2. UNCHANGED server /\ script'[s].step \in {"done", "failed"}
  BY Gone DEF WaitUntilReady
<1> QED
  BY <1>1, <1>2 DEF Clear, Stage, server, Reachable, Available, Admitted

\* A clear way leads through no other step.
LEMMA ClearStep == ASSUME Sound, NEW s \in Scripts, Clear(s), Step(s) PROVE Clear(s)'
<1>1. ~ (ReadSettings(s) \/ WriteSetting(s) \/ RestartServices(s) \/ DownServices(s))
  BY DEF ReadSettings, WriteSetting, RestartServices, DownServices, At, Clear, Stage
<1> QED
  BY <1>1, ClearEnsure, ClearReplace, ClearUpDatabase, ClearReadCredentials, ClearAuthenticate,
     ClearStop, ClearRun, ClearReset, ClearRemove, ClearPort, ClearUpServices, ClearWait DEF Step

LEMMA StepIsActive == ASSUME NEW s \in Scripts, Step(s) PROVE Active(s)
BY DEF Step, EnsureEnvironment, ReplaceEnvironment, ReadSettings, WriteSetting, UpDatabase,
       ReadCredentials, Authenticate, StopServices, RunRecovery, ResetCredentials, RemoveRecovery,
       EnsureHostPort, UpServices, RestartServices, DownServices, WaitUntilReady, At, Active

\* No step of a script makes it undisturbed.
LEMMA StepKeepsAlone ==
  ASSUME Sound, NEW s \in Scripts, Step(s) PROVE script'[s].alone = script[s].alone
<1> USE Typed
<1>1. CASE EnsureEnvironment(s)
  BY <1>1 DEF EnsureEnvironment, Programs
<1>2. CASE ReplaceEnvironment(s)
  BY <1>2 DEF ReplaceEnvironment, Go, Programs
<1>3. CASE ReadSettings(s)
  BY <1>3 DEF ReadSettings, Programs
<1>4. CASE WriteSetting(s)
  BY <1>4 DEF WriteSetting, Go, Programs
<1>5. CASE UpDatabase(s)
  BY <1>5 DEF UpDatabase, Synchronised, Programs
<1>6. CASE ReadCredentials(s)
  BY <1>6 DEF ReadCredentials, Programs
<1>7. CASE Authenticate(s)
  BY <1>7 DEF Authenticate, Synchronised, Go, Programs
<1>8. CASE StopServices(s)
  BY <1>8 DEF StopServices, Go, Programs
<1>9. CASE RunRecovery(s)
  BY <1>9 DEF RunRecovery, Go, Programs
<1>10. CASE ResetCredentials(s)
  BY <1>10 DEF ResetCredentials, Go, Programs
<1>11. CASE RemoveRecovery(s)
  BY <1>11 DEF RemoveRecovery, Go, Programs
<1>12. CASE EnsureHostPort(s)
  BY <1>12 DEF EnsureHostPort, Programs
<1>13. CASE UpServices(s)
  BY <1>13 DEF UpServices, Go, Programs
<1>14. CASE RestartServices(s)
  BY <1>14 DEF RestartServices, Programs
<1>15. CASE DownServices(s)
  BY <1>15 DEF DownServices, Go, Programs
<1>16. CASE WaitUntilReady(s)
  BY <1>16 DEF WaitUntilReady, Go, Programs
<1> QED
  BY <1>1, <1>2, <1>3, <1>4, <1>5, <1>6, <1>7, <1>8, <1>9, <1>10, <1>11, <1>12, <1>13,
     <1>14, <1>15, <1>16 DEF Step

\* A script that steps is disturbed, unless it is the one at work.
LEMMA StepKeepsUndisturbed ==
  ASSUME Sound, \A t \in Scripts : Undisturbed(t), NEW s \in Scripts, Step(s),
         NEW t \in Scripts
  PROVE  Undisturbed(t)'
<1>1. \A u \in Scripts \ {s} : script'[u] = script[u]
  BY ScriptStepIsKept DEF Kept, Acted
<1>2. CASE t = s
  <2> SUFFICES ASSUME script[s].alone PROVE Clear(s)' /\ \A u \in Scripts \ {s} : ~ Active(u)'
    BY <1>2, StepKeepsAlone DEF Undisturbed
  <2>1. Clear(s) /\ \A u \in Scripts \ {s} : ~ Active(u)
    BY DEF Undisturbed
  <2> QED
    BY <1>1, <2>1, ClearStep DEF Active
<1>3. CASE t # s
  <2>1. ~ script[t].alone
    BY <1>3, StepIsActive DEF Undisturbed
  <2> QED
    BY <1>1, <1>3, <2>1 DEF Undisturbed
<1> QED
  BY <1>2, <1>3

LEMMA StartKeepsUndisturbed ==
  ASSUME Sound, NEW s \in Scripts, Start(s), NEW t \in Scripts PROVE Undisturbed(t)'
<1>1. CASE t = s
  <2>1. script'[s] = [script[s] EXCEPT !.step = "ensure", !.alone = Deployable(s)]
    BY DEF Start
  <2>2. /\ script'[s].step = "ensure" /\ script'[s].alone = Deployable(s)
        /\ script'[s].command = script[s].command
    BY <2>1, Typed DEF Programs
  <2>3. \A u \in Scripts \ {s} : script'[u].step = script[u].step
    BY Typed DEF Start, Programs
  <2> SUFFICES ASSUME Deployable(s) PROVE Clear(s)' /\ \A u \in Scripts \ {s} : ~ Active(u)'
    BY <1>1, <2>2 DEF Undisturbed
  <2>4. UNCHANGED server
    BY DEF Start
  <2> QED
    BY <2>2, <2>3, <2>4 DEF Deployable, Clear, Stage, Active, server
<1>2. CASE t # s
  <2>1. script'[t] = [script[t] EXCEPT !.alone = FALSE]
    BY <1>2 DEF Start
  <2>2. ~ script'[t].alone
    BY <2>1, Typed DEF Programs
  <2> QED
    BY <2>2 DEF Undisturbed
<1> QED
  BY <1>1, <1>2

LEMMA DisturbedIsNotAlone ==
  ASSUME Sound, NEW steps, Disturbed(steps), NEW t \in Scripts PROVE Undisturbed(t)'
<1>1. \E step : script'[t] = [script[t] EXCEPT !.alone = FALSE, !.step = step]
  BY DEF Disturbed
<1>2. ~ script'[t].alone
  BY <1>1, Typed DEF Programs
<1> QED
  BY <1>2 DEF Undisturbed

LEMMA ServerKeepsUndisturbed ==
  ASSUME NEW t \in Scripts, Undisturbed(t), UNCHANGED <<server, script>> PROVE Undisturbed(t)'
BY DEF Undisturbed, Clear, Stage, Active, server, Reachable, Available, Admitted

LEMMA NextKeepsUndisturbed ==
  Sound /\ (\A s \in Scripts : Undisturbed(s)) /\ [Next]_vars =>
    (\A s \in Scripts : Undisturbed(s))'
<1> SUFFICES ASSUME Sound, \A s \in Scripts : Undisturbed(s), [Next]_vars, NEW t \in Scripts
             PROVE  Undisturbed(t)'
  OBVIOUS
<1>1. ASSUME NEW s \in Scripts, Start(s) PROVE Undisturbed(t)'
  BY <1>1, StartKeepsUndisturbed
<1>2. ASSUME NEW s \in Scripts, Step(s) PROVE Undisturbed(t)'
  BY <1>2, StepKeepsUndisturbed
<1>3. ASSUME NEW s \in Scripts, Fail(s) \/ Kill(s) PROVE Undisturbed(t)'
  BY <1>3, DisturbedIsNotAlone DEF Fail, Kill
<1>4. CASE Crash
  BY <1>4, DisturbedIsNotAlone DEF Crash
<1>5. CASE Upgrade \/ ManageAccounts \/ UNCHANGED vars
  <2>1. UNCHANGED <<server, script>>
    BY <1>5 DEF Upgrade, BeginUpgrade, WorkUpgrade, ManageAccounts, vars, server
  <2> QED
    BY <2>1, ServerKeepsUndisturbed
<1> QED
  BY <1>1, <1>2, <1>3, <1>4, <1>5 DEF Next

\* A deploy that nothing disturbs, from any .env, volume and containers, with a recovery or
\* without, leaves a web container that runs with the credentials of .env and reaches the
\* database: only the wait for the API can fail it.
THEOREM UndisturbedDeployReaches == Spec => []DeployReaches
<1>1. Init => \A s \in Scripts : Undisturbed(s)
  <2> SUFFICES ASSUME Init, NEW s \in Scripts PROVE ~ script[s].alone
    BY DEF Undisturbed
  <2> QED
    BY DEF Init
<1>2. (\A s \in Scripts : Undisturbed(s)) => DeployReaches
  BY DEF Undisturbed, Clear, Stage, DeployReaches
<1> QED
  BY <1>1, <1>2, ServerIsSound, NextKeepsUndisturbed, PTL DEF Spec
=============================================================================
