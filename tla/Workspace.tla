------------------------------ MODULE Workspace ------------------------------
(***************************************************************************)
(* Accounts and client deployment of a workspace: the one-time setup,      *)
(* logins, user accounts, deployment profiles and enrollment codes         *)
(* (api.py 77-158, 201-232, 338-542, 557-630 and 641-689).                 *)
(*                                                                         *)
(* As in SupportRequests a handler reads its snapshot in one step and      *)
(* commits in a later one, writing only the columns that differ from the   *)
(* snapshot (SQLAlchemy), by primary key (InnoDB, REPEATABLE READ).  The   *)
(* handlers believe their token: its account may be gone by now.           *)
(***************************************************************************)
EXTENDS Naturals, FiniteSets

CONSTANTS
  Subjects,
  Accounts,    \* primary keys of workspace_users
  Profiles,    \* primary keys of client_deployment_profiles
  Codes,       \* primary keys of client_enrollment_codes
  Workers,
  Lifetime,    \* of an enrollment code, in clock units
  MaxTime,     \* bound of the clock
  Nobody

ASSUME NobodyAssumption == Nobody \notin Subjects \cup Accounts \cup Profiles \cup Codes
ASSUME TimeAssumption == Lifetime \in Nat /\ MaxTime \in Nat

VARIABLES
  clock,
  installed,   \* installation_state.initialized
  account,     \* table workspace_users
  profile,     \* table client_deployment_profiles
  code,        \* table client_enrollment_codes
  founders,    \* accounts with an audit event installation.admin_created
  told,        \* per account, the last audit event about it
  tokens,      \* the tokens a login could have issued so far; any may still be valid
  tx           \* per worker, the transaction its handler has open

vars == <<clock, installed, account, profile, code, founders, told, tokens, tx>>

----------------------------------------------------------------------------
(* Rows.  Of the roles only tenant_admin decides here.  Left out: names,   *)
(* addresses, routes, file servers and delivery switches, passwords, and   *)
(* the counters policy_version and revision.                               *)

Tokens == [subject : Subjects, admin : BOOLEAN]

AccountRows ==
  [state : {"absent", "active", "suspended", "deleted"},
   subject : Subjects \cup {Nobody}, admin : BOOLEAN]

ProfileRows == [state : {"absent", "enabled", "disabled"}, targets : SUBSET Subjects]

CodeRows ==
  [state : {"absent", "issued", "used"}, profile : Profiles \cup {Nobody},
   subject : Subjects \cup {Nobody}, expires : Nat]

Events == {"none", "installation.admin_created", "user.created", "user.updated", "user.deleted"}

Ops == {"idle", "setup", "delete", "update", "create profile", "change profile",
        "withdraw", "issue", "bootstrap", "activate"}

\* An open transaction: the row it works on, the row values it will write, the columns
\* of it that it changes and, for delete_user, the targets that remain to the profiles it
\* takes the user out of.  fresh is a history of a delete_user: nothing was committed
\* since it has read.
Transactions ==
  [op : Ops, on : Accounts \cup Profiles \cup Codes \cup {Nobody},
   account : AccountRows, profile : ProfileRows, code : CodeRows,
   cols : SUBSET {"state", "admin", "targets"},
   kept : UNION { [touched -> SUBSET Subjects] : touched \in SUBSET Profiles },
   fresh : BOOLEAN]

NoAccount == [state |-> "absent", subject |-> Nobody, admin |-> FALSE]

NoProfile == [state |-> "absent", targets |-> {}]

NoCode == [state |-> "absent", profile |-> Nobody, subject |-> Nobody, expires |-> 0]

Idle ==
  [op |-> "idle", on |-> Nobody, account |-> NoAccount, profile |-> NoProfile,
   code |-> NoCode, cols |-> {}, kept |-> [f \in {} |-> {}], fresh |-> FALSE]

Init ==
  /\ clock = 0
  /\ installed = FALSE
  /\ account = [i \in Accounts |-> NoAccount]
  /\ profile = [f \in Profiles |-> NoProfile]
  /\ code = [c \in Codes |-> NoCode]
  /\ founders = {}
  /\ told = [i \in Accounts |-> "none"]
  /\ tokens = {}
  /\ tx = [w \in Workers |-> Idle]

----------------------------------------------------------------------------
(* Helpers.                                                                *)

Exists(i) == account[i].state \in {"active", "suspended"}

\* The active accounts with a role tenant_admin.
Admins == { i \in Accounts : account[i].state = "active" /\ account[i].admin }

\* The unique constraint on (tenant, subject).
Taken(s) == \E i \in Accounts : Exists(i) /\ account[i].subject = s

ActiveSubject(s) ==
  \E i \in Accounts : account[i].state = "active" /\ account[i].subject = s

\* create_user_session(): an active account may log in at any time between two commits,
\* and the token keeps its claims.
Login ==
  tokens' = tokens \cup
    { [subject |-> account'[i].subject, admin |-> account'[i].admin] :
        i \in { j \in Accounts : account'[j].state = "active" } }

Open(w, transaction) ==
  /\ tx[w].op = "idle"
  /\ tx' = [tx EXCEPT ![w] = transaction]

\* The handler ends with a commit: the snapshots of the others are stale now.
Close(w) ==
  tx' = [v \in Workers |-> IF v = w THEN Idle ELSE [tx[v] EXCEPT !.fresh = FALSE]]

\* A commit of a handler that reads nothing it depends on.
Overtake == tx' = [v \in Workers |-> [tx[v] EXCEPT !.fresh = FALSE]]

----------------------------------------------------------------------------
(* create_initial_administrator.  The UPDATE that claims the installation  *)
(* reads the committed row and locks it until the end of the transaction.  *)

\* Mutation: the claim is a look at the row instead of a locking UPDATE.
ClaimUnlocked(w, i, s) ==
  /\ ~ installed
  /\ account[i].state = "absent" /\ \A v \in Workers : tx[v].on # i
  /\ Open(w, [Idle EXCEPT !.op = "setup", !.on = i,
                          !.account = [state |-> "active", subject |-> s, admin |-> TRUE]])
  /\ UNCHANGED <<clock, installed, account, profile, code, founders, told, tokens>>

Claim(w, i, s) ==
  /\ ~ installed /\ \A v \in Workers : tx[v].op # "setup"
  /\ account[i].state = "absent"
  /\ Open(w, [Idle EXCEPT !.op = "setup", !.on = i,
                          !.account = [state |-> "active", subject |-> s, admin |-> TRUE]])
  /\ UNCHANGED <<clock, installed, account, profile, code, founders, told, tokens>>

WriteSetup(w) ==
  LET i == tx[w].on
      row == tx[w].account
  IN  /\ tx[w].op = "setup"
      /\ ~ Taken(row.subject)
      /\ installed' = TRUE
      /\ account' = [account EXCEPT ![i] = row]
      /\ founders' = founders \cup {i}
      /\ told' = [told EXCEPT ![i] = "installation.admin_created"]
      /\ Login
      /\ Close(w)
      /\ UNCHANGED <<clock, profile, code>>

----------------------------------------------------------------------------
(* Accounts.                                                               *)

\* create_user(): an INSERT whose only condition is the unique constraint.
CreateUser(p, i, s, admin) ==
  /\ p.admin
  /\ account[i].state = "absent" /\ \A v \in Workers : tx[v].on # i
  /\ ~ Taken(s)
  /\ account' = [account EXCEPT ![i] = [state |-> "active", subject |-> s, admin |-> admin]]
  /\ told' = [told EXCEPT ![i] = "user.created"]
  /\ Login
  /\ Overtake
  /\ UNCHANGED <<clock, installed, profile, code, founders>>

\* The enabled profiles that name the subject.
Naming(s) == { f \in Profiles : profile[f].state = "enabled" /\ s \in profile[f].targets }

\* Mutation: the user is blanked in the list instead of removed from it.
DeletionBlank(i) ==
  LET s == account[i].subject
  IN  [Idle EXCEPT !.op = "delete", !.on = i, !.fresh = TRUE,
                   !.kept = [f \in Naming(s) |-> (profile[f].targets \ {s}) \cup {Nobody}]]

\* The transaction of delete_user(): each profile that names the user loses it.
Deletion(i) ==
  LET s == account[i].subject
  IN  [Idle EXCEPT !.op = "delete", !.on = i, !.fresh = TRUE,
                   !.kept = [f \in Naming(s) |-> profile[f].targets \ {s}]]

\* Mutation: the caller, an administrator by the token, is taken for the one who remains.
ReadDeletionTrusting(w, p, i) ==
  /\ p.admin
  /\ Exists(i) /\ account[i].subject # p.subject
  /\ Open(w, Deletion(i))
  /\ UNCHANGED <<clock, installed, account, profile, code, founders, told, tokens>>

ReadDeletion(w, p, i) ==
  /\ p.admin
  /\ Exists(i) /\ account[i].subject # p.subject
  /\ account[i].admin => Admins \ {i} # {}
  /\ Open(w, Deletion(i))
  /\ UNCHANGED <<clock, installed, account, profile, code, founders, told, tokens>>

\* Mutation: a profile whose last target goes stays enabled.
WriteDeletionKeepsEnabled(w) ==
  LET i == tx[w].on
  IN  /\ tx[w].op = "delete"
      /\ account' = [account EXCEPT ![i].state = "deleted"]
      /\ told' = [told EXCEPT ![i] = "user.deleted"]
      /\ profile' = [f \in Profiles |->
           IF f \notin DOMAIN tx[w].kept THEN profile[f]
           ELSE [profile[f] EXCEPT !.targets = tx[w].kept[f]]]
      /\ Close(w)
      /\ UNCHANGED <<clock, installed, code, founders, tokens>>

\* The DELETE of a row that is gone already is only warned about.
WriteDeletion(w) ==
  LET i == tx[w].on
  IN  /\ tx[w].op = "delete"
      /\ account' = [account EXCEPT ![i].state = "deleted"]
      /\ told' = [told EXCEPT ![i] = "user.deleted"]
      /\ profile' = [f \in Profiles |->
           IF f \notin DOMAIN tx[w].kept THEN profile[f]
           ELSE [state |-> IF tx[w].kept[f] = {} THEN "disabled" ELSE profile[f].state,
                 targets |-> tx[w].kept[f]]]
      /\ Close(w)
      /\ UNCHANGED <<clock, installed, code, founders, tokens>>

\* The row under an UPDATE of the given columns.
Changed(old, cols, row) ==
  [old EXCEPT !.state = IF "state" \in cols THEN row.state ELSE @,
              !.admin = IF "admin" \in cols THEN row.admin ELSE @]

\* update_user() up to the commit; others: roles other than tenant_admin change too, so the
\* list of roles is written in any case.
ReadUpdate(w, p, i, admin, state, others) ==
  /\ p.admin
  /\ Exists(i)
  /\ Open(w, [Idle EXCEPT !.op = "update", !.on = i,
       !.account = [state |-> state, subject |-> Nobody, admin |-> admin],
       !.cols = (IF state # account[i].state THEN {"state"} ELSE {})
                  \cup (IF admin # account[i].admin \/ others THEN {"admin"} ELSE {})])
  /\ UNCHANGED <<clock, installed, account, profile, code, founders, told, tokens>>

\* Mutation: nobody looks whether the UPDATE matched a row.
WriteUpdateBlind(w) ==
  LET i == tx[w].on
  IN  /\ tx[w].op = "update"
      /\ account' = [account EXCEPT ![i] = IF Exists(i) THEN Changed(@, tx[w].cols, tx[w].account) ELSE @]
      /\ told' = [told EXCEPT ![i] = "user.updated"]
      /\ Login
      /\ Close(w)
      /\ UNCHANGED <<clock, installed, profile, code, founders>>

\* SQLAlchemy raises StaleDataError if the UPDATE matches no row (updated_at is always in
\* it), so the account still exists.
WriteUpdate(w) ==
  LET i == tx[w].on
  IN  /\ tx[w].op = "update"
      /\ Exists(i)
      /\ account' = [account EXCEPT ![i] = Changed(@, tx[w].cols, tx[w].account)]
      /\ told' = [told EXCEPT ![i] = "user.updated"]
      /\ Login
      /\ Close(w)
      /\ UNCHANGED <<clock, installed, profile, code, founders>>

----------------------------------------------------------------------------
(* Deployment profiles.                                                    *)

\* validate_deployment_profile(): the targets are active accounts, and there are some.
Assignable(targets) == targets # {} /\ \A s \in targets : ActiveSubject(s)

\* create_client_deployment(), update_ and delete_client_deployment() up to the flush.
ReadProfile(w, p, f, targets) ==
  /\ p.admin
  /\ Assignable(targets)
  /\ \/ /\ profile[f].state = "absent" /\ \A v \in Workers : tx[v].on # f
        /\ Open(w, [Idle EXCEPT !.op = "create profile", !.on = f,
                                !.profile = [state |-> "enabled", targets |-> targets]])
     \/ /\ profile[f].state = "enabled"
        /\ Open(w, [Idle EXCEPT !.op = "change profile", !.on = f,
             !.profile = [state |-> "enabled", targets |-> targets],
             !.cols = IF targets # profile[f].targets THEN {"targets"} ELSE {}])
  /\ UNCHANGED <<clock, installed, account, profile, code, founders, told, tokens>>

\* Mutation: the whole row is written back.
WriteProfileWhole(w) ==
  /\ tx[w].op \in {"create profile", "change profile"}
  /\ profile' = [profile EXCEPT ![tx[w].on] = tx[w].profile]
  /\ Close(w)
  /\ UNCHANGED <<clock, installed, account, code, founders, told, tokens>>

WriteProfile(w) ==
  LET row == tx[w].profile
  IN  /\ \/ /\ tx[w].op = "create profile"
            /\ profile' = [profile EXCEPT ![tx[w].on] = row]
         \/ /\ tx[w].op = "change profile"
            /\ profile' = [profile EXCEPT ![tx[w].on].targets =
                             IF "targets" \in tx[w].cols THEN row.targets ELSE @]
      /\ Close(w)
      /\ UNCHANGED <<clock, installed, account, code, founders, told, tokens>>

ReadWithdrawal(w, p, f) ==
  /\ p.admin
  /\ profile[f].state = "enabled"
  /\ Open(w, [Idle EXCEPT !.op = "withdraw", !.on = f])
  /\ UNCHANGED <<clock, installed, account, profile, code, founders, told, tokens>>

WriteWithdrawal(w) ==
  /\ tx[w].op = "withdraw"
  /\ profile' = [profile EXCEPT ![tx[w].on].state = "disabled"]
  /\ Close(w)
  /\ UNCHANGED <<clock, installed, account, code, founders, told, tokens>>

----------------------------------------------------------------------------
(* Enrollment codes.                                                       *)

\* download_client_deployment(): for a target of the profile, by itself or an administrator.
ReadDownload(w, p, f, s) ==
  /\ profile[f].state = "enabled" /\ s \in profile[f].targets
  /\ p.subject = s \/ p.admin
  /\ Open(w, [Idle EXCEPT !.op = "issue", !.on = f,
       !.code = [state |-> "issued", profile |-> f, subject |-> s, expires |-> clock + Lifetime]])
  /\ UNCHANGED <<clock, installed, account, profile, code, founders, told, tokens>>

WriteDownload(w, c) ==
  /\ tx[w].op = "issue"
  /\ code[c].state = "absent"
  /\ code' = [code EXCEPT ![c] = tx[w].code]
  /\ Close(w)
  /\ UNCHANGED <<clock, installed, account, profile, founders, told, tokens>>

\* bootstrap_client() with an unused code.  A code that was used before is accepted
\* without writing it, which is no step here.
ReadBootstrap(w, p, c) ==
  /\ ActiveSubject(p.subject)
  /\ code[c].state = "issued" /\ code[c].subject = p.subject
  /\ LET f == profile[code[c].profile]
     IN  f.state = "enabled" /\ p.subject \in f.targets
  /\ Open(w, [Idle EXCEPT !.op = "bootstrap", !.on = c, !.code = code[c]])
  /\ UNCHANGED <<clock, installed, account, profile, code, founders, told, tokens>>

\* Mutation: a code that expires now still counts.
CheckExpiryLate(w) ==
  /\ tx[w].op = "bootstrap"
  /\ tx[w].code.expires >= clock
  /\ tx' = [tx EXCEPT ![w].op = "activate"]
  /\ UNCHANGED <<clock, installed, account, profile, code, founders, told, tokens>>

CheckExpiry(w) ==
  /\ tx[w].op = "bootstrap"
  /\ tx[w].code.expires > clock
  /\ tx' = [tx EXCEPT ![w].op = "activate"]
  /\ UNCHANGED <<clock, installed, account, profile, code, founders, told, tokens>>

WriteActivation(w) ==
  /\ tx[w].op = "activate"
  /\ code' = [code EXCEPT ![tx[w].on].state = "used"]
  /\ Close(w)
  /\ UNCHANGED <<clock, installed, account, profile, founders, told, tokens>>

----------------------------------------------------------------------------
\* A guard fails after the snapshot, a constraint is violated, the connection is lost or
\* the process dies: the transaction is rolled back.
Abort(w) ==
  /\ tx[w].op # "idle"
  /\ tx' = [tx EXCEPT ![w] = Idle]
  /\ UNCHANGED <<clock, installed, account, profile, code, founders, told, tokens>>

Tick ==
  /\ clock < MaxTime
  /\ clock' = clock + 1
  /\ UNCHANGED <<installed, account, profile, code, founders, told, tokens, tx>>

Call(w) ==
  \/ \E i \in Accounts, s \in Subjects : Claim(w, i, s)
  \/ \E p \in tokens, i \in Accounts : ReadDeletion(w, p, i)
  \/ \E p \in tokens, i \in Accounts, state \in {"active", "suspended"} :
       \E admin, others \in BOOLEAN : ReadUpdate(w, p, i, admin, state, others)
  \/ \E p \in tokens, f \in Profiles, targets \in SUBSET Subjects : ReadProfile(w, p, f, targets)
  \/ \E p \in tokens, f \in Profiles : ReadWithdrawal(w, p, f)
  \/ \E p \in tokens, f \in Profiles, s \in Subjects : ReadDownload(w, p, f, s)
  \/ \E p \in tokens, c \in Codes : ReadBootstrap(w, p, c)

Finish(w) ==
  \/ WriteSetup(w) \/ WriteDeletion(w) \/ WriteUpdate(w) \/ WriteProfile(w)
  \/ WriteWithdrawal(w) \/ CheckExpiry(w) \/ WriteActivation(w) \/ Abort(w)
  \/ \E c \in Codes : WriteDownload(w, c)

Next ==
  \/ \E w \in Workers : Call(w) \/ Finish(w)
  \/ \E p \in tokens, i \in Accounts, s \in Subjects, admin \in BOOLEAN :
       CreateUser(p, i, s, admin)
  \/ Tick

Spec == Init /\ [][Next]_vars

----------------------------------------------------------------------------
\* Rows, tokens and open transactions keep the types of their tables and claims.
TypeOK ==
  /\ clock \in Nat
  /\ installed \in BOOLEAN
  /\ account \in [Accounts -> AccountRows]
  /\ profile \in [Profiles -> ProfileRows]
  /\ code \in [Codes -> CodeRows]
  /\ founders \subseteq Accounts
  /\ told \in [Accounts -> Events]
  /\ tokens \subseteq Tokens
  /\ tx \in [Workers -> Transactions]

\* However many browsers submit the setup form at once, one account is founded, and the
\* installation is marked exactly when it is (create_initial_administrator).
OneInstallation ==
  /\ \A i, j \in founders : i = j
  /\ installed <=> founders # {}

\* The last audit event about an account tells whether it exists, although updates and
\* deletions of it race (update_user, delete_user).
AuditTellsAccount ==
  \A i \in Accounts :
    CASE account[i].state = "absent" -> told[i] = "none"
      [] account[i].state = "deleted" -> told[i] = "user.deleted"
      [] OTHER -> told[i] \notin {"none", "user.deleted"}

\* An enabled profile has targets: no race of deletions and profile changes leaves one
\* that nobody is meant to have (delete_user, update_client_deployment).
EnabledHasTargets ==
  \A f \in Profiles : profile[f].state = "enabled" => profile[f].targets # {}

\* A withdrawn profile stays withdrawn, also under a change that read it while it was
\* enabled (delete_client_deployment, update_client_deployment, delete_user).
WithdrawnStays ==
  [][\A f \in Profiles :
       profile[f].state = "disabled" => profile'[f].state = "disabled"]_vars

\* The code has expired unused, and no handler that compared its expiry in time is about
\* to activate it.
Lapsed(c) ==
  /\ code[c].state = "issued" /\ code[c].expires <= clock
  /\ \A w \in Workers : ~ (tx[w].op = "activate" /\ tx[w].on = c)

\* A lapsed code is never activated (the comparison with now() in bootstrap_client).
ExpiryCloses == [][\A c \in Codes : Lapsed(c) => Lapsed(c)']_vars

\* The account is deleted in this step.
Deleted(i) == Exists(i) /\ account'[i].state = "deleted"

\* A deletion on a snapshot that is still current leaves an active administrator
\* (the last-administrator rule of delete_user).
LoneDeletionKeepsAdmin ==
  [][\A w \in Workers : tx[w].op = "delete" /\ tx[w].fresh /\ account[tx[w].on].admin
                          /\ Deleted(tx[w].on) => Admins' # {}]_vars

\* What the handler promises: "cannot delete the last administrator" (api.py 595).
DeletionKeepsAdmin ==
  [][\A i \in Accounts : i \in Admins /\ Deleted(i) => Admins' # {}]_vars
=============================================================================
