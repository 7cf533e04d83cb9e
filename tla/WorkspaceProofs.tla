-------------------------- MODULE WorkspaceProofs --------------------------
(***************************************************************************)
(* Proofs about Workspace, for every set of subjects, accounts, profiles,  *)
(* codes and workers.                                                      *)
(***************************************************************************)
EXTENDS Workspace, TLAPS

----------------------------------------------------------------------------
(* The inductive invariant.                                                *)

\* What an open transaction on an account may rely on.
AccountSound(t) ==
  /\ t.op \in {"setup", "delete", "update"} => t.on \in Accounts
  /\ t.op = "setup" =>
       ~ installed /\ t.account.state = "active" /\ t.account.subject \in Subjects
  /\ t.op = "update" => t.account.state \in {"active", "suspended"}
  /\ t.op = "delete" /\ t.fresh => (account[t.on].admin => Admins \ {t.on} # {})

\* What an open transaction on profiles may rely on: it writes a profile with targets,
\* and a row is either inserted by it or there already.
ProfileSound(t) ==
  /\ t.op \in {"create profile", "change profile", "withdraw"} => t.on \in Profiles
  /\ t.op \in {"create profile", "change profile"} =>
       t.profile.state = "enabled" /\ t.profile.targets # {}
  /\ t.op = "create profile" => profile[t.on].state = "absent"
  /\ t.op \in {"change profile", "withdraw"} => profile[t.on].state # "absent"
  /\ \A f \in DOMAIN t.kept : f \in Profiles /\ profile[f].state # "absent"

\* What an open transaction on a code may rely on: the expiry it compares is the row's.
CodeSound(t) ==
  t.op \in {"bootstrap", "activate"} =>
    t.on \in Codes /\ code[t.on].state # "absent" /\ code[t.on].expires = t.code.expires

TransactionsSound ==
  \A w \in Workers : AccountSound(tx[w]) /\ ProfileSound(tx[w]) /\ CodeSound(tx[w])

\* One handler at most holds the claim, and one inserts a given profile.
Exclusive ==
  \A v, w \in Workers : v # w =>
    /\ ~ (tx[v].op = "setup" /\ tx[w].op = "setup")
    /\ ~ (tx[v].op = "create profile" /\ tx[w].op = "create profile" /\ tx[v].on = tx[w].on)

\* Every account that exists names its subject.
NamedAccounts == \A i \in Accounts : Exists(i) => account[i].subject \in Subjects

IInv ==
  /\ TypeOK /\ NamedAccounts /\ TransactionsSound /\ Exclusive
  /\ OneInstallation /\ AuditTellsAccount /\ EnabledHasTargets

----------------------------------------------------------------------------
(* Opening and closing.                                                    *)

LEMMA IdleType ==
  /\ Idle \in Transactions /\ Idle.op = "idle" /\ Idle.on = Nobody /\ Idle.fresh = FALSE
  /\ DOMAIN Idle.kept = {}
<1>1. [f \in {} |-> {}] \in [{} -> SUBSET Subjects]
  OBVIOUS
<1>2. [f \in {} |-> {}] \in UNION { [touched -> SUBSET Subjects] : touched \in SUBSET Profiles }
  BY <1>1
<1>3. NoAccount \in AccountRows /\ NoProfile \in ProfileRows /\ NoCode \in CodeRows
  BY DEF NoAccount, NoProfile, NoCode, AccountRows, ProfileRows, CodeRows
<1>4. QED
  BY <1>2, <1>3 DEF Idle, Transactions, Ops

\* An idle worker relies on nothing.
LEMMA IdleSound == AccountSound(Idle) /\ ProfileSound(Idle) /\ CodeSound(Idle)
BY IdleType DEF AccountSound, ProfileSound, CodeSound

\* The initial state satisfies the invariant.
LEMMA InitIInv == Init => IInv
<1> SUFFICES ASSUME Init PROVE IInv
  OBVIOUS
<1>1. TypeOK
  BY IdleType DEF Init, TypeOK, NoAccount, NoProfile, NoCode, AccountRows, ProfileRows,
                  CodeRows, Events
<1>2. TransactionsSound
  BY IdleSound DEF Init, TransactionsSound
<1>3. Exclusive
  BY IdleType DEF Init, Exclusive
<1>4. OneInstallation /\ AuditTellsAccount /\ EnabledHasTargets /\ NamedAccounts
  BY DEF Init, OneInstallation, AuditTellsAccount, EnabledHasTargets, NamedAccounts, Exists,
         NoAccount, NoProfile
<1>5. QED
  BY <1>1, <1>2, <1>3, <1>4 DEF IInv

\* A handler that opens a transaction which relies on what it has just read keeps the
\* invariant, if no other handler claims the same.
LEMMA OpenKeepsIInv ==
  ASSUME IInv, NEW w \in Workers, NEW t \in Transactions, Open(w, t),
         UNCHANGED <<clock, installed, account, profile, code, founders, told, tokens>>,
         AccountSound(t), ProfileSound(t), CodeSound(t),
         t.op = "setup" => \A v \in Workers : tx[v].op # "setup",
         t.op = "create profile" => \A v \in Workers : tx[v].on # t.on
  PROVE  IInv'
<1>1. /\ tx' \in [Workers -> Transactions] /\ tx'[w] = t
      /\ \A v \in Workers \ {w} : tx'[v] = tx[v]
  BY DEF IInv, TypeOK, Open
<1>2. TypeOK'
  BY <1>1 DEF IInv, TypeOK
<1>3. TransactionsSound'
  <2>1. ASSUME NEW v \in Workers
        PROVE  (AccountSound(tx[v]) /\ ProfileSound(tx[v]) /\ CodeSound(tx[v]))'
    <3>1. AccountSound(tx'[v]) /\ ProfileSound(tx'[v]) /\ CodeSound(tx'[v])
      BY <1>1 DEF IInv, TransactionsSound
    <3>2. QED
      BY <3>1 DEF AccountSound, ProfileSound, CodeSound, Admins
  <2>2. QED
    BY <2>1 DEF TransactionsSound
<1>4. Exclusive'
  BY <1>1 DEF IInv, Exclusive
<1>5. (OneInstallation /\ AuditTellsAccount /\ EnabledHasTargets /\ NamedAccounts)'
  BY DEF IInv, OneInstallation, AuditTellsAccount, EnabledHasTargets, NamedAccounts, Exists
<1>6. QED
  BY <1>2, <1>3, <1>4, <1>5 DEF IInv

\* Overtaken transactions keep everything but their freshness.
LEMMA StaleFacts ==
  ASSUME NEW t \in Transactions
  PROVE  LET s == [t EXCEPT !.fresh = FALSE]
         IN  /\ s \in Transactions /\ s.fresh = FALSE
             /\ s.op = t.op /\ s.on = t.on /\ s.account = t.account /\ s.profile = t.profile
             /\ s.code = t.code /\ s.cols = t.cols /\ s.kept = t.kept
BY DEF Transactions

\* What a commit does to the open transactions.
LEMMA CloseFacts ==
  ASSUME TypeOK, NEW w \in Workers, Close(w)
  PROVE  /\ tx' \in [Workers -> Transactions] /\ tx'[w] = Idle
         /\ \A v \in Workers \ {w} :
              /\ tx'[v].fresh = FALSE
              /\ tx'[v].op = tx[v].op /\ tx'[v].on = tx[v].on /\ tx'[v].account = tx[v].account
              /\ tx'[v].profile = tx[v].profile /\ tx'[v].code = tx[v].code
              /\ tx'[v].kept = tx[v].kept
<1> DEFINE stale(v) == [tx[v] EXCEPT !.fresh = FALSE]
<1>1. tx' = [v \in Workers |-> IF v = w THEN Idle ELSE stale(v)]
  BY DEF Close
<1>2. \A v \in Workers : tx[v] \in Transactions
  BY DEF TypeOK
<1>3. \A v \in Workers :
        /\ stale(v) \in Transactions /\ stale(v).fresh = FALSE
        /\ stale(v).op = tx[v].op /\ stale(v).on = tx[v].on /\ stale(v).account = tx[v].account
        /\ stale(v).profile = tx[v].profile /\ stale(v).code = tx[v].code
        /\ stale(v).kept = tx[v].kept
  BY <1>2, StaleFacts
<1> HIDE DEF stale
<1>4. QED
  BY <1>1, <1>3, IdleType

\* After a commit the others are still sound, if the rows they rely on are: no row goes
\* back to absent, no expiry changes, and the claim is not taken from under a setup.
LEMMA CloseKeepsSound ==
  ASSUME TypeOK, TransactionsSound, Exclusive, NEW w \in Workers, Close(w),
         \A v \in Workers \ {w} : tx[v].op = "setup" => ~ installed',
         \A f \in Profiles : profile[f].state # "absent" => profile'[f].state # "absent",
         \A f \in Profiles : profile[f].state = "absent" /\ profile'[f].state # "absent" =>
           \A v \in Workers \ {w} : ~ (tx[v].op = "create profile" /\ tx[v].on = f),
         \A c \in Codes : code[c].state # "absent" =>
           code'[c].state # "absent" /\ code'[c].expires = code[c].expires
  PROVE  TransactionsSound' /\ Exclusive'
<1>1. /\ tx'[w] = Idle
      /\ \A v \in Workers \ {w} :
           /\ tx'[v].fresh = FALSE
           /\ tx'[v].op = tx[v].op /\ tx'[v].on = tx[v].on /\ tx'[v].account = tx[v].account
           /\ tx'[v].profile = tx[v].profile /\ tx'[v].code = tx[v].code
           /\ tx'[v].kept = tx[v].kept
  BY CloseFacts
<1>2. (AccountSound(Idle) /\ ProfileSound(Idle) /\ CodeSound(Idle))'
  BY IdleType DEF AccountSound, ProfileSound, CodeSound
<1>3. (AccountSound(tx[w]) /\ ProfileSound(tx[w]) /\ CodeSound(tx[w]))'
  BY <1>1, IdleType DEF AccountSound, ProfileSound, CodeSound
<1>4. ASSUME NEW v \in Workers \ {w}
      PROVE  (AccountSound(tx[v]) /\ ProfileSound(tx[v]) /\ CodeSound(tx[v]))'
  <2>1. AccountSound(tx[v]) /\ ProfileSound(tx[v]) /\ CodeSound(tx[v])
    BY DEF TransactionsSound
  <2>2. AccountSound(tx[v])'
    BY <1>1, <2>1 DEF AccountSound
  <2>3. ProfileSound(tx[v])'
    BY <1>1, <2>1 DEF ProfileSound
  <2>4. CodeSound(tx[v])'
    BY <1>1, <2>1 DEF CodeSound
  <2>5. QED
    BY <2>2, <2>3, <2>4
<1>5. TransactionsSound'
  BY <1>3, <1>4 DEF TransactionsSound
<1>6. \A v \in Workers :
        /\ tx'[v].op \in {"setup", "create profile"} => v # w
        /\ v # w => tx'[v].op = tx[v].op /\ tx'[v].on = tx[v].on
  BY <1>1, IdleType
<1>7. Exclusive'
  <2>1. ASSUME NEW u \in Workers, NEW v \in Workers, u # v
        PROVE  /\ ~ (tx'[u].op = "setup" /\ tx'[v].op = "setup")
               /\ ~ (/\ tx'[u].op = "create profile" /\ tx'[v].op = "create profile"
                     /\ tx'[u].on = tx'[v].on)
    <3>1. CASE u = w \/ v = w
      BY <1>6, <3>1
    <3>2. CASE u # w /\ v # w
      <4>1. /\ ~ (tx[u].op = "setup" /\ tx[v].op = "setup")
            /\ ~ (/\ tx[u].op = "create profile" /\ tx[v].op = "create profile"
                  /\ tx[u].on = tx[v].on)
        BY <2>1 DEF Exclusive
      <4>2. /\ tx'[u].op = tx[u].op /\ tx'[u].on = tx[u].on
            /\ tx'[v].op = tx[v].op /\ tx'[v].on = tx[v].on
        BY <1>6, <3>2
      <4>3. QED
        BY <4>1, <4>2
    <3>3. QED
      BY <3>1, <3>2
  <2>2. QED
    BY <2>1 DEF Exclusive
<1>8. QED
  BY <1>5, <1>7

----------------------------------------------------------------------------
(* The reading steps.                                                      *)

\* The handler opens t, which relies on what it has just read and has compared no expiry.
OpensSoundly(w, t) ==
  /\ Open(w, t)
  /\ AccountSound(t) /\ ProfileSound(t) /\ CodeSound(t)
  /\ t.op # "activate"
  /\ t.op = "setup" => \A v \in Workers : tx[v].op # "setup"
  /\ t.op = "create profile" => \A v \in Workers : tx[v].on # t.on

\* Every call opens a transaction that relies on what it has just read.
LEMMA CallOpens ==
  ASSUME IInv, NEW w \in Workers, Call(w)
  PROVE  \E t \in Transactions : OpensSoundly(w, t)
<1>1. TypeOK /\ EnabledHasTargets
  BY DEF IInv
<1>2. ASSUME NEW i \in Accounts, NEW s \in Subjects, Claim(w, i, s)
      PROVE  \E t \in Transactions : OpensSoundly(w, t)
  <2> DEFINE row == [state |-> "active", subject |-> s, admin |-> TRUE]
             t == [Idle EXCEPT !.op = "setup", !.on = i, !.account = row]
  <2>1. row \in AccountRows /\ row.state = "active" /\ row.subject \in Subjects
    BY DEF AccountRows
  <2> HIDE DEF row
  <2>2. /\ t \in Transactions /\ t.op = "setup" /\ t.on = i /\ t.account = row
        /\ DOMAIN t.kept = {}
    BY <2>1, IdleType DEF Transactions, Ops
  <2>3. Open(w, t)
    BY <1>2 DEF Claim, row
  <2> HIDE DEF t
  <2>4. AccountSound(t) /\ ProfileSound(t) /\ CodeSound(t)
    BY <1>2, <2>1, <2>2 DEF Claim, AccountSound, ProfileSound, CodeSound
  <2>5. QED
    BY <1>2, <2>2, <2>3, <2>4 DEF Claim, OpensSoundly
<1>3. ASSUME NEW p \in tokens, NEW i \in Accounts, ReadDeletion(w, p, i)
      PROVE  \E t \in Transactions : OpensSoundly(w, t)
  <2> DEFINE s == account[i].subject
             kept == [f \in Naming(s) |-> profile[f].targets \ {s}]
             t == Deletion(i)
  <2>1. \A f \in Naming(s) : f \in Profiles /\ profile[f].state = "enabled"
                              /\ profile[f].targets \in SUBSET Subjects
    BY <1>1 DEF TypeOK, ProfileRows, Naming
  <2>2. kept \in [Naming(s) -> SUBSET Subjects] /\ Naming(s) \in SUBSET Profiles
        /\ DOMAIN kept = Naming(s)
    BY <2>1
  <2>3. kept \in UNION { [touched -> SUBSET Subjects] : touched \in SUBSET Profiles }
    BY <2>2
  <2>4. t = [Idle EXCEPT !.op = "delete", !.on = i, !.fresh = TRUE, !.kept = kept]
    BY DEF Deletion
  <2> HIDE DEF kept
  <2>5. t \in Transactions /\ t.op = "delete" /\ t.on = i /\ t.kept = kept
    BY <2>3, <2>4, IdleType DEF Transactions, Ops
  <2>6. Open(w, t)
    BY <1>3 DEF ReadDeletion
  <2> HIDE DEF t
  <2>7. AccountSound(t)
    BY <1>3, <2>5 DEF ReadDeletion, AccountSound
  <2>8. ProfileSound(t) /\ CodeSound(t)
    BY <2>1, <2>2, <2>5 DEF ProfileSound, CodeSound
  <2>9. QED
    BY <1>3, <2>5, <2>6, <2>7, <2>8 DEF ReadDeletion, OpensSoundly
<1>4. ASSUME NEW p \in tokens, NEW i \in Accounts, NEW admin \in BOOLEAN, NEW others \in BOOLEAN,
             NEW state \in {"active", "suspended"}, ReadUpdate(w, p, i, admin, state, others)
      PROVE  \E t \in Transactions : OpensSoundly(w, t)
  <2> DEFINE row == [state |-> state, subject |-> Nobody, admin |-> admin]
             cols == (IF state # account[i].state THEN {"state"} ELSE {})
                       \cup (IF admin # account[i].admin \/ others THEN {"admin"} ELSE {})
             t == [Idle EXCEPT !.op = "update", !.on = i, !.account = row, !.cols = cols]
  <2>1. row \in AccountRows /\ row.state \in {"active", "suspended"}
    BY DEF AccountRows
  <2>2. cols \in SUBSET {"state", "admin", "targets"}
    OBVIOUS
  <2>3. Open(w, t)
    BY <1>4 DEF ReadUpdate
  <2> HIDE DEF row, cols
  <2>4. /\ t \in Transactions /\ t.op = "update" /\ t.on = i /\ t.account = row
        /\ DOMAIN t.kept = {}
    BY <2>1, <2>2, IdleType DEF Transactions, Ops
  <2> HIDE DEF t
  <2>5. AccountSound(t) /\ ProfileSound(t) /\ CodeSound(t)
    BY <2>1, <2>4 DEF AccountSound, ProfileSound, CodeSound
  <2>6. QED
    BY <1>4, <2>3, <2>4, <2>5 DEF ReadUpdate, OpensSoundly
<1>5. ASSUME NEW p \in tokens, NEW f \in Profiles, NEW targets \in SUBSET Subjects,
             ReadProfile(w, p, f, targets)
      PROVE  \E t \in Transactions : OpensSoundly(w, t)
  <2> DEFINE row == [state |-> "enabled", targets |-> targets]
             cols == IF targets # profile[f].targets THEN {"targets"} ELSE {}
             new == [Idle EXCEPT !.op = "create profile", !.on = f, !.profile = row]
             change == [Idle EXCEPT !.op = "change profile", !.on = f, !.profile = row,
                                    !.cols = cols]
  <2>1. row \in ProfileRows /\ row.state = "enabled" /\ row.targets # {}
    BY <1>5 DEF ProfileRows, ReadProfile, Assignable
  <2>2. cols \in SUBSET {"state", "admin", "targets"}
    OBVIOUS
  <2>3. \/ Open(w, new) /\ profile[f].state = "absent" /\ \A v \in Workers : tx[v].on # f
        \/ Open(w, change) /\ profile[f].state = "enabled"
    BY <1>5 DEF ReadProfile
  <2> HIDE DEF row, cols
  <2>4. /\ new \in Transactions /\ new.op = "create profile" /\ new.on = f
        /\ new.profile = row /\ DOMAIN new.kept = {}
    BY <2>1, IdleType DEF Transactions, Ops
  <2>5. /\ change \in Transactions /\ change.op = "change profile" /\ change.on = f
        /\ change.profile = row /\ DOMAIN change.kept = {}
    BY <2>1, <2>2, IdleType DEF Transactions, Ops
  <2> HIDE DEF new, change
  <2>6. CASE Open(w, new) /\ profile[f].state = "absent" /\ \A v \in Workers : tx[v].on # f
    <3>1. AccountSound(new) /\ ProfileSound(new) /\ CodeSound(new)
      BY <2>1, <2>4, <2>6 DEF AccountSound, ProfileSound, CodeSound
    <3>2. QED
      BY <1>5, <2>4, <2>6, <3>1 DEF ReadProfile, OpensSoundly
  <2>7. CASE Open(w, change) /\ profile[f].state = "enabled"
    <3>1. AccountSound(change) /\ ProfileSound(change) /\ CodeSound(change)
      BY <2>1, <2>5, <2>7 DEF AccountSound, ProfileSound, CodeSound
    <3>2. QED
      BY <1>5, <2>5, <2>7, <3>1 DEF ReadProfile, OpensSoundly
  <2>8. QED
    BY <2>3, <2>6, <2>7
<1>6. ASSUME NEW p \in tokens, NEW f \in Profiles, ReadWithdrawal(w, p, f)
      PROVE  \E t \in Transactions : OpensSoundly(w, t)
  <2> DEFINE t == [Idle EXCEPT !.op = "withdraw", !.on = f]
  <2>1. t \in Transactions /\ t.op = "withdraw" /\ t.on = f /\ DOMAIN t.kept = {}
    BY IdleType DEF Transactions, Ops
  <2>2. Open(w, t)
    BY <1>6 DEF ReadWithdrawal
  <2> HIDE DEF t
  <2>3. AccountSound(t) /\ ProfileSound(t) /\ CodeSound(t)
    BY <1>6, <2>1 DEF AccountSound, ProfileSound, CodeSound, ReadWithdrawal
  <2>4. QED
    BY <1>6, <2>1, <2>2, <2>3 DEF ReadWithdrawal, OpensSoundly
<1>7. ASSUME NEW p \in tokens, NEW f \in Profiles, NEW s \in Subjects, ReadDownload(w, p, f, s)
      PROVE  \E t \in Transactions : OpensSoundly(w, t)
  <2> DEFINE row == [state |-> "issued", profile |-> f, subject |-> s,
                     expires |-> clock + Lifetime]
             t == [Idle EXCEPT !.op = "issue", !.on = f, !.code = row]
  <2>1. row \in CodeRows
    BY <1>1, TimeAssumption DEF CodeRows, TypeOK
  <2>2. Open(w, t)
    BY <1>7 DEF ReadDownload
  <2> HIDE DEF row
  <2>3. t \in Transactions /\ t.op = "issue" /\ t.on = f /\ DOMAIN t.kept = {}
    BY <2>1, IdleType DEF Transactions, Ops
  <2> HIDE DEF t
  <2>4. AccountSound(t) /\ ProfileSound(t) /\ CodeSound(t)
    BY <2>3 DEF AccountSound, ProfileSound, CodeSound
  <2>5. QED
    BY <1>7, <2>2, <2>3, <2>4 DEF ReadDownload, OpensSoundly
<1>8. ASSUME NEW p \in tokens, NEW c \in Codes, ReadBootstrap(w, p, c)
      PROVE  \E t \in Transactions : OpensSoundly(w, t)
  <2> DEFINE row == code[c]
             t == [Idle EXCEPT !.op = "bootstrap", !.on = c, !.code = row]
  <2>1. row \in CodeRows /\ code[c] = row /\ row.state = "issued"
    BY <1>1, <1>8 DEF TypeOK, ReadBootstrap
  <2>2. Open(w, t)
    BY <1>8 DEF ReadBootstrap
  <2> HIDE DEF row
  <2>3. /\ t \in Transactions /\ t.op = "bootstrap" /\ t.on = c /\ t.code = row
        /\ DOMAIN t.kept = {}
    BY <2>1, IdleType DEF Transactions, Ops
  <2> HIDE DEF t
  <2>4. AccountSound(t) /\ ProfileSound(t) /\ CodeSound(t)
    BY <2>1, <2>3 DEF AccountSound, ProfileSound, CodeSound
  <2>5. QED
    BY <1>8, <2>2, <2>3, <2>4 DEF ReadBootstrap, OpensSoundly
<1>9. QED
  BY <1>2, <1>3, <1>4, <1>5, <1>6, <1>7, <1>8 DEF Call

\* A call changes no row.
LEMMA CallFrame ==
  ASSUME NEW w \in Workers, Call(w)
  PROVE  UNCHANGED <<clock, installed, account, profile, code, founders, told, tokens>>
BY DEF Call, Claim, ReadDeletion, ReadUpdate, ReadProfile, ReadWithdrawal, ReadDownload,
       ReadBootstrap

\* So a call keeps the invariant.
LEMMA CallKeepsIInv ==
  ASSUME IInv, NEW w \in Workers, Call(w)
  PROVE  IInv'
<1>1. PICK t \in Transactions : OpensSoundly(w, t)
  BY CallOpens
<1>2. QED
  BY <1>1, CallFrame, OpenKeepsIInv DEF OpensSoundly

----------------------------------------------------------------------------
(* The writing steps.                                                      *)

\* A login issues tokens of the claims' type.
LEMMA LoginType ==
  ASSUME TypeOK, NamedAccounts', account' \in [Accounts -> AccountRows], Login
  PROVE  tokens' \subseteq Tokens
<1>1. \A i \in Accounts : account'[i].state = "active" =>
        account'[i].subject \in Subjects /\ account'[i].admin \in BOOLEAN
  BY DEF NamedAccounts, Exists, AccountRows
<1>2. QED
  BY <1>1 DEF Login, Tokens, TypeOK

\* The claim of the installation founds its only account.
LEMMA SetupKeepsIInv ==
  ASSUME IInv, NEW w \in Workers, WriteSetup(w)
  PROVE  IInv'
<1> DEFINE i == tx[w].on
           row == tx[w].account
<1>1. /\ i \in Accounts /\ row \in AccountRows /\ row.state = "active"
      /\ row.subject \in Subjects /\ ~ installed
  BY DEF IInv, TransactionsSound, AccountSound, TypeOK, Transactions, WriteSetup
<1>2. account' = [account EXCEPT ![i] = row] /\ founders' = founders \cup {i}
      /\ told' = [told EXCEPT ![i] = "installation.admin_created"]
  BY DEF WriteSetup
<1> HIDE DEF i, row
<1>3. NamedAccounts'
  BY <1>1, <1>2 DEF IInv, TypeOK, NamedAccounts, Exists
<1>4. account' \in [Accounts -> AccountRows]
  BY <1>1, <1>2 DEF IInv, TypeOK
<1>5. tokens' \subseteq Tokens
  BY <1>3, <1>4, LoginType DEF IInv, WriteSetup
<1>6. tx' \in [Workers -> Transactions]
  BY CloseFacts DEF IInv, WriteSetup
<1>7. TypeOK'
  BY <1>1, <1>2, <1>4, <1>5, <1>6 DEF IInv, TypeOK, WriteSetup, Events
<1>8. \A v \in Workers \ {w} : tx[v].op # "setup"
  BY DEF IInv, Exclusive, WriteSetup
<1>9. TransactionsSound' /\ Exclusive'
  BY <1>8, CloseKeepsSound DEF IInv, WriteSetup
<1>10. OneInstallation'
  BY <1>1, <1>2 DEF IInv, OneInstallation, WriteSetup
<1>11. AuditTellsAccount'
  BY <1>1, <1>2 DEF IInv, AuditTellsAccount, TypeOK
<1>12. EnabledHasTargets'
  BY DEF IInv, EnabledHasTargets, WriteSetup
<1>13. QED
  BY <1>3, <1>7, <1>9, <1>10, <1>11, <1>12 DEF IInv

\* A deletion keeps targets to the enabled profiles it touches.
LEMMA DeletionKeepsIInv ==
  ASSUME IInv, NEW w \in Workers, WriteDeletion(w)
  PROVE  IInv'
<1> DEFINE i == tx[w].on
           kept == tx[w].kept
           emptied(f) == [state |-> IF kept[f] = {} THEN "disabled" ELSE profile[f].state,
                          targets |-> kept[f]]
<1>1. i \in Accounts /\ \A f \in DOMAIN kept : f \in Profiles /\ profile[f].state # "absent"
  BY DEF IInv, TransactionsSound, AccountSound, ProfileSound, WriteDeletion
<1>2. \A f \in DOMAIN kept : kept[f] \in SUBSET Subjects
  BY DEF IInv, TypeOK, Transactions
<1>3. /\ account' = [account EXCEPT ![i].state = "deleted"]
      /\ told' = [told EXCEPT ![i] = "user.deleted"]
      /\ profile' = [f \in Profiles |-> IF f \notin DOMAIN kept THEN profile[f] ELSE emptied(f)]
  BY DEF WriteDeletion
<1>4. \A f \in DOMAIN kept :
        /\ emptied(f) \in ProfileRows /\ emptied(f).state # "absent"
        /\ emptied(f).state = "enabled" => emptied(f).targets # {}
  BY <1>1, <1>2 DEF IInv, TypeOK, ProfileRows
<1> HIDE DEF i, kept, emptied
<1>5. tx' \in [Workers -> Transactions]
  BY CloseFacts DEF IInv, WriteDeletion
<1>6. account' \in [Accounts -> AccountRows]
  BY <1>1, <1>3 DEF IInv, TypeOK, AccountRows
<1>7. profile' \in [Profiles -> ProfileRows]
  BY <1>3, <1>4 DEF IInv, TypeOK
<1>8. TypeOK'
  BY <1>1, <1>3, <1>5, <1>6, <1>7 DEF IInv, TypeOK, WriteDeletion, Events
<1>9. \A f \in Profiles : profile[f].state # "absent" <=> profile'[f].state # "absent"
  BY <1>1, <1>3, <1>4
<1>10. \A v \in Workers \ {w} : tx[v].op = "setup" => ~ installed'
  BY DEF IInv, TransactionsSound, AccountSound, WriteDeletion
<1>11. TransactionsSound' /\ Exclusive'
  BY <1>9, <1>10, CloseKeepsSound DEF IInv, WriteDeletion
<1>12. OneInstallation'
  BY DEF IInv, OneInstallation, WriteDeletion
<1>13. AuditTellsAccount' /\ NamedAccounts'
  BY <1>1, <1>3 DEF IInv, AuditTellsAccount, NamedAccounts, Exists, TypeOK, AccountRows
<1>14. EnabledHasTargets'
  BY <1>3, <1>4 DEF IInv, EnabledHasTargets
<1>15. QED
  BY <1>8, <1>11, <1>12, <1>13, <1>14 DEF IInv

\* An update of an account that still exists keeps it in existence.
LEMMA UpdateKeepsIInv ==
  ASSUME IInv, NEW w \in Workers, WriteUpdate(w)
  PROVE  IInv'
<1> DEFINE i == tx[w].on
           row == Changed(account[i], tx[w].cols, tx[w].account)
<1>1. i \in Accounts /\ tx[w].account.state \in {"active", "suspended"} /\ Exists(i)
      /\ tx[w].account \in AccountRows /\ account[i] \in AccountRows
  BY DEF IInv, TransactionsSound, AccountSound, TypeOK, Transactions, WriteUpdate
<1>2. /\ row \in AccountRows /\ row.state \in {"active", "suspended"}
      /\ row.subject = account[i].subject
  BY <1>1 DEF Changed, AccountRows, Exists
<1>3. account' = [account EXCEPT ![i] = row] /\ told' = [told EXCEPT ![i] = "user.updated"]
  BY DEF WriteUpdate
<1> HIDE DEF i, row
<1>4. NamedAccounts'
  BY <1>1, <1>2, <1>3 DEF IInv, TypeOK, NamedAccounts, Exists
<1>5. account' \in [Accounts -> AccountRows]
  BY <1>1, <1>2, <1>3 DEF IInv, TypeOK
<1>6. tokens' \subseteq Tokens
  BY <1>4, <1>5, LoginType DEF IInv, WriteUpdate
<1>7. tx' \in [Workers -> Transactions]
  BY CloseFacts DEF IInv, WriteUpdate
<1>8. TypeOK'
  BY <1>1, <1>3, <1>5, <1>6, <1>7 DEF IInv, TypeOK, WriteUpdate, Events
<1>9. \A v \in Workers \ {w} : tx[v].op = "setup" => ~ installed'
  BY DEF IInv, TransactionsSound, AccountSound, WriteUpdate
<1>10. TransactionsSound' /\ Exclusive'
  BY <1>9, CloseKeepsSound DEF IInv, WriteUpdate
<1>11. AuditTellsAccount'
  BY <1>1, <1>2, <1>3 DEF IInv, AuditTellsAccount, TypeOK
<1>12. OneInstallation' /\ EnabledHasTargets'
  BY DEF IInv, OneInstallation, EnabledHasTargets, WriteUpdate
<1>13. QED
  BY <1>4, <1>8, <1>10, <1>11, <1>12 DEF IInv

\* What stays if a commit leaves the accounts alone.
LEMMA AccountsAlone ==
  ASSUME IInv, UNCHANGED <<installed, account, founders, told>>
  PROVE  OneInstallation' /\ AuditTellsAccount' /\ NamedAccounts'
BY DEF IInv, OneInstallation, AuditTellsAccount, NamedAccounts, Exists

\* The commit of a created or changed profile.
LEMMA ProfileKeepsIInv ==
  ASSUME IInv, NEW w \in Workers, WriteProfile(w)
  PROVE  IInv'
<1> DEFINE f == tx[w].on
           row == tx[w].profile
           new == [profile[f] EXCEPT !.targets = IF "targets" \in tx[w].cols THEN row.targets ELSE @]
<1>1. /\ f \in Profiles /\ row \in ProfileRows /\ profile[f] \in ProfileRows
      /\ row.state = "enabled" /\ row.targets # {}
  BY DEF IInv, TransactionsSound, ProfileSound, TypeOK, Transactions, WriteProfile
<1>2. /\ new \in ProfileRows /\ new.state = profile[f].state
      /\ new.targets \in {row.targets, profile[f].targets}
  BY <1>1 DEF ProfileRows
<1>3. \/ /\ tx[w].op = "create profile" /\ profile[f].state = "absent"
         /\ profile' = [profile EXCEPT ![f] = row]
      \/ profile' = [profile EXCEPT ![f] = new]
  BY DEF IInv, TransactionsSound, ProfileSound, WriteProfile
<1> HIDE DEF row, new
<1>4. profile' \in [Profiles -> ProfileRows]
  BY <1>1, <1>2, <1>3 DEF IInv, TypeOK
<1>5. tx' \in [Workers -> Transactions]
  BY CloseFacts DEF IInv, WriteProfile
<1>6. TypeOK'
  BY <1>4, <1>5 DEF IInv, TypeOK, WriteProfile
<1>7. \A v \in Workers \ {w} : tx[v].op = "setup" => ~ installed'
  BY DEF IInv, TransactionsSound, AccountSound, WriteProfile
<1>8. \A g \in Profiles : profile[g].state # "absent" => profile'[g].state # "absent"
  BY <1>1, <1>2, <1>3 DEF IInv, TypeOK
<1>9. ASSUME NEW g \in Profiles, profile[g].state = "absent", profile'[g].state # "absent"
      PROVE  \A v \in Workers \ {w} : ~ (tx[v].op = "create profile" /\ tx[v].on = g)
  <2>1. g = f /\ tx[w].op = "create profile"
    BY <1>1, <1>2, <1>3, <1>9 DEF IInv, TypeOK
  <2>2. QED
    BY <2>1 DEF IInv, Exclusive
<1>10. TransactionsSound' /\ Exclusive'
  BY <1>7, <1>8, <1>9, CloseKeepsSound DEF IInv, WriteProfile
<1>11. EnabledHasTargets'
  BY <1>1, <1>2, <1>3 DEF IInv, TypeOK, EnabledHasTargets
<1>12. OneInstallation' /\ AuditTellsAccount' /\ NamedAccounts'
  BY AccountsAlone DEF WriteProfile
<1>13. QED
  BY <1>6, <1>10, <1>11, <1>12 DEF IInv

\* The commit of a withdrawn profile.
LEMMA WithdrawalKeepsIInv ==
  ASSUME IInv, NEW w \in Workers, WriteWithdrawal(w)
  PROVE  IInv'
<1> DEFINE f == tx[w].on
<1>1. f \in Profiles /\ profile[f].state # "absent"
  BY DEF IInv, TransactionsSound, ProfileSound, WriteWithdrawal
<1>2. profile' = [profile EXCEPT ![f].state = "disabled"]
  BY DEF WriteWithdrawal
<1>3. profile' \in [Profiles -> ProfileRows]
  BY <1>1, <1>2 DEF IInv, TypeOK, ProfileRows
<1>4. tx' \in [Workers -> Transactions]
  BY CloseFacts DEF IInv, WriteWithdrawal
<1>5. TypeOK'
  BY <1>3, <1>4 DEF IInv, TypeOK, WriteWithdrawal
<1>6. \A g \in Profiles :
        /\ profile'[g].state \in {profile[g].state, "disabled"}
        /\ profile[g].state # "absent" <=> profile'[g].state # "absent"
        /\ profile'[g].targets = profile[g].targets
  BY <1>1, <1>2 DEF IInv, TypeOK, ProfileRows
<1>7. \A v \in Workers \ {w} : tx[v].op = "setup" => ~ installed'
  BY DEF IInv, TransactionsSound, AccountSound, WriteWithdrawal
<1>8. TransactionsSound' /\ Exclusive'
  BY <1>6, <1>7, CloseKeepsSound DEF IInv, WriteWithdrawal
<1>9. EnabledHasTargets'
  BY <1>6 DEF IInv, EnabledHasTargets
<1>10. OneInstallation' /\ AuditTellsAccount' /\ NamedAccounts'
  BY AccountsAlone DEF WriteWithdrawal
<1>11. QED
  BY <1>5, <1>8, <1>9, <1>10 DEF IInv

\* A commit that writes only code rows, of the right type, none of which disappears or
\* gets another expiry.
LEMMA CodesKeepIInv ==
  ASSUME IInv, NEW w \in Workers, Close(w),
         UNCHANGED <<clock, installed, account, profile, founders, told, tokens>>,
         code' \in [Codes -> CodeRows],
         \A c \in Codes : code[c].state # "absent" =>
           code'[c].state # "absent" /\ code'[c].expires = code[c].expires
  PROVE  IInv'
<1>1. tx' \in [Workers -> Transactions]
  BY CloseFacts DEF IInv
<1>2. TypeOK'
  BY <1>1 DEF IInv, TypeOK
<1>3. \A v \in Workers \ {w} : tx[v].op = "setup" => ~ installed'
  BY DEF IInv, TransactionsSound, AccountSound
<1>4. TransactionsSound' /\ Exclusive'
  BY <1>3, CloseKeepsSound DEF IInv
<1>5. EnabledHasTargets'
  BY DEF IInv, EnabledHasTargets
<1>6. OneInstallation' /\ AuditTellsAccount' /\ NamedAccounts'
  BY AccountsAlone
<1>7. QED
  BY <1>2, <1>4, <1>5, <1>6 DEF IInv

\* The commits of an issued and of an activated code.
LEMMA CodeStepsKeepIInv ==
  ASSUME IInv, NEW w \in Workers,
         (\E c \in Codes : WriteDownload(w, c)) \/ WriteActivation(w)
  PROVE  IInv'
<1>1. TypeOK /\ tx[w].code \in CodeRows
  BY DEF IInv, TypeOK, Transactions
<1>2. ASSUME NEW c \in Codes, WriteDownload(w, c)
      PROVE  IInv'
  <2>1. code' = [code EXCEPT ![c] = tx[w].code] /\ code[c].state = "absent"
    BY <1>2 DEF WriteDownload
  <2>2. code' \in [Codes -> CodeRows]
    BY <1>1, <2>1 DEF TypeOK
  <2>3. \A d \in Codes : code[d].state # "absent" => code'[d] = code[d]
    BY <1>1, <2>1 DEF TypeOK
  <2>4. QED
    BY <1>2, <2>2, <2>3, CodesKeepIInv DEF WriteDownload
<1>3. CASE WriteActivation(w)
  <2> DEFINE c == tx[w].on
  <2>1. c \in Codes /\ code' = [code EXCEPT ![c].state = "used"]
    BY <1>3 DEF IInv, TransactionsSound, CodeSound, WriteActivation
  <2> HIDE DEF c
  <2>2. code' \in [Codes -> CodeRows]
    BY <1>1, <2>1 DEF TypeOK, CodeRows
  <2>3. \A d \in Codes : code[d].state # "absent" =>
          code'[d].state # "absent" /\ code'[d].expires = code[d].expires
    BY <1>1, <2>1 DEF TypeOK, CodeRows
  <2>4. QED
    BY <1>3, <2>2, <2>3, CodesKeepIInv DEF WriteActivation
<1>4. QED
  BY <1>2, <1>3

\* A step of one worker that changes no row: the transaction it leaves is sound.
LEMMA LocalKeepsIInv ==
  ASSUME IInv, NEW w \in Workers, NEW t \in Transactions, tx' = [tx EXCEPT ![w] = t],
         UNCHANGED <<clock, installed, account, profile, code, founders, told, tokens>>,
         AccountSound(t), ProfileSound(t), CodeSound(t), t.op \notin {"setup", "create profile"}
  PROVE  IInv'
<1>1. /\ tx' \in [Workers -> Transactions] /\ tx'[w] = t
      /\ \A v \in Workers \ {w} : tx'[v] = tx[v]
  BY DEF IInv, TypeOK
<1>2. TypeOK'
  BY <1>1 DEF IInv, TypeOK
<1>3. ASSUME NEW v \in Workers
      PROVE  (AccountSound(tx[v]) /\ ProfileSound(tx[v]) /\ CodeSound(tx[v]))'
  <2>1. AccountSound(tx'[v]) /\ ProfileSound(tx'[v]) /\ CodeSound(tx'[v])
    BY <1>1 DEF IInv, TransactionsSound
  <2>2. QED
    BY <2>1 DEF AccountSound, ProfileSound, CodeSound, Admins
<1>4. TransactionsSound'
  BY <1>3 DEF TransactionsSound
<1>5. Exclusive'
  BY <1>1 DEF IInv, Exclusive
<1>6. EnabledHasTargets'
  BY DEF IInv, EnabledHasTargets
<1>7. OneInstallation' /\ AuditTellsAccount' /\ NamedAccounts'
  BY AccountsAlone
<1>8. QED
  BY <1>2, <1>4, <1>5, <1>6, <1>7 DEF IInv

\* The comparison of an expiry, and a rollback.
LEMMA LocalStepsKeepIInv ==
  ASSUME IInv, NEW w \in Workers, CheckExpiry(w) \/ Abort(w)
  PROVE  IInv'
<1>1. CASE CheckExpiry(w)
  <2> DEFINE t == [tx[w] EXCEPT !.op = "activate"]
  <2>1. /\ t \in Transactions /\ t.op = "activate" /\ t.on = tx[w].on
        /\ t.code = tx[w].code /\ t.kept = tx[w].kept
    BY DEF IInv, TypeOK, Transactions, Ops
  <2>2. tx' = [tx EXCEPT ![w] = t]
    BY <1>1 DEF CheckExpiry, IInv, TypeOK
  <2> HIDE DEF t
  <2>3. AccountSound(t) /\ ProfileSound(t) /\ CodeSound(t)
    BY <1>1, <2>1 DEF CheckExpiry, IInv, TransactionsSound, AccountSound, ProfileSound, CodeSound
  <2>4. QED
    BY <1>1, <2>1, <2>2, <2>3, LocalKeepsIInv DEF CheckExpiry
<1>2. CASE Abort(w)
  BY <1>2, IdleType, IdleSound, LocalKeepsIInv DEF Abort
<1>3. QED
  BY <1>1, <1>2

\* A new account takes a free row and a free subject.
LEMMA CreateKeepsIInv ==
  ASSUME IInv, NEW p \in tokens, NEW i \in Accounts, NEW s \in Subjects, NEW admin \in BOOLEAN,
         CreateUser(p, i, s, admin)
  PROVE  IInv'
<1> DEFINE row == [state |-> "active", subject |-> s, admin |-> admin]
           stale(v) == [tx[v] EXCEPT !.fresh = FALSE]
<1>1. /\ account' = [account EXCEPT ![i] = row] /\ told' = [told EXCEPT ![i] = "user.created"]
      /\ tx' = [v \in Workers |-> stale(v)]
  BY DEF CreateUser, Overtake
<1>2. row \in AccountRows /\ row.state = "active" /\ row.subject = s
  BY DEF AccountRows
<1>3. \A v \in Workers :
        /\ stale(v) \in Transactions /\ stale(v).fresh = FALSE
        /\ stale(v).op = tx[v].op /\ stale(v).on = tx[v].on /\ stale(v).account = tx[v].account
        /\ stale(v).profile = tx[v].profile /\ stale(v).code = tx[v].code
        /\ stale(v).kept = tx[v].kept
  BY StaleFacts DEF IInv, TypeOK
<1> HIDE DEF row, stale
<1>4. NamedAccounts'
  BY <1>1, <1>2 DEF IInv, TypeOK, NamedAccounts, Exists
<1>5. account' \in [Accounts -> AccountRows]
  BY <1>1, <1>2 DEF IInv, TypeOK
<1>6. tokens' \subseteq Tokens
  BY <1>4, <1>5, LoginType DEF IInv, CreateUser
<1>7. TypeOK'
  BY <1>1, <1>3, <1>5, <1>6 DEF IInv, TypeOK, CreateUser, Events
<1>8. ASSUME NEW v \in Workers
      PROVE  (AccountSound(tx[v]) /\ ProfileSound(tx[v]) /\ CodeSound(tx[v]))'
  <2>1. AccountSound(tx[v]) /\ ProfileSound(tx[v]) /\ CodeSound(tx[v])
    BY DEF IInv, TransactionsSound
  <2>2. /\ tx'[v].fresh = FALSE
        /\ tx'[v].op = tx[v].op /\ tx'[v].on = tx[v].on /\ tx'[v].account = tx[v].account
        /\ tx'[v].profile = tx[v].profile /\ tx'[v].code = tx[v].code
        /\ tx'[v].kept = tx[v].kept
    BY <1>1, <1>3
  <2>3. AccountSound(tx[v])'
    BY <2>1, <2>2 DEF AccountSound, CreateUser
  <2>4. ProfileSound(tx[v])'
    BY <2>1, <2>2 DEF ProfileSound, CreateUser
  <2>5. CodeSound(tx[v])'
    BY <2>1, <2>2 DEF CodeSound, CreateUser
  <2>6. QED
    BY <2>3, <2>4, <2>5
<1>9. TransactionsSound'
  BY <1>8 DEF TransactionsSound
<1>10. Exclusive'
  <2>1. \A v \in Workers : tx'[v].op = tx[v].op /\ tx'[v].on = tx[v].on
    BY <1>1, <1>3
  <2>2. ASSUME NEW u \in Workers, NEW v \in Workers, u # v
        PROVE  /\ ~ (tx'[u].op = "setup" /\ tx'[v].op = "setup")
               /\ ~ (/\ tx'[u].op = "create profile" /\ tx'[v].op = "create profile"
                     /\ tx'[u].on = tx'[v].on)
    BY <2>1, <2>2 DEF IInv, Exclusive
  <2>3. QED
    BY <2>2 DEF Exclusive
<1>11. AuditTellsAccount'
  BY <1>1, <1>2 DEF IInv, AuditTellsAccount, TypeOK
<1>12. OneInstallation' /\ EnabledHasTargets'
  BY DEF IInv, OneInstallation, EnabledHasTargets, CreateUser
<1>13. QED
  BY <1>4, <1>7, <1>9, <1>10, <1>11, <1>12 DEF IInv

----------------------------------------------------------------------------
(* The invariant and what follows from it.                                 *)

\* Every step, stuttering included, keeps the invariant.
LEMMA StepKeepsIInv == IInv /\ [Next]_vars => IInv'
<1> SUFFICES ASSUME IInv, [Next]_vars PROVE IInv'
  OBVIOUS
<1>1. ASSUME NEW w \in Workers, Call(w)
      PROVE  IInv'
  BY <1>1, CallKeepsIInv
<1>2. ASSUME NEW w \in Workers, Finish(w)
      PROVE  IInv'
  BY <1>2, SetupKeepsIInv, DeletionKeepsIInv, UpdateKeepsIInv, ProfileKeepsIInv,
     WithdrawalKeepsIInv, CodeStepsKeepIInv, LocalStepsKeepIInv DEF Finish
<1>3. ASSUME NEW p \in tokens, NEW i \in Accounts, NEW s \in Subjects, NEW admin \in BOOLEAN,
             CreateUser(p, i, s, admin)
      PROVE  IInv'
  BY <1>3, CreateKeepsIInv
<1>4. ASSUME clock' \in Nat,
             UNCHANGED <<installed, account, profile, code, founders, told, tokens, tx>>
      PROVE  IInv'
  <2>1. TypeOK'
    BY <1>4 DEF IInv, TypeOK
  <2>2. TransactionsSound' /\ Exclusive'
    BY <1>4 DEF IInv, TransactionsSound, AccountSound, ProfileSound, CodeSound, Admins, Exclusive
  <2>3. EnabledHasTargets'
    BY <1>4 DEF IInv, EnabledHasTargets
  <2>4. OneInstallation' /\ AuditTellsAccount' /\ NamedAccounts'
    BY <1>4, AccountsAlone
  <2>5. QED
    BY <2>1, <2>2, <2>3, <2>4 DEF IInv
<1>5. CASE Tick
  BY <1>4, <1>5 DEF Tick, IInv, TypeOK
<1>6. CASE UNCHANGED vars
  BY <1>4, <1>6 DEF vars, IInv, TypeOK
<1>7. QED
  BY <1>1, <1>2, <1>3, <1>5, <1>6 DEF Next

\* The invariant holds in every reachable state.
THEOREM Invariant == Spec => []IInv
BY InitIInv, StepKeepsIInv, PTL DEF Spec

\* Rows, tokens and open transactions keep their types.
THEOREM TypeCorrect == Spec => []TypeOK
<1>1. IInv => TypeOK
  BY DEF IInv
<1>2. QED
  BY <1>1, Invariant, PTL

\* However many setups race, one account is founded (create_initial_administrator).
THEOREM OneFounder == Spec => []OneInstallation
<1>1. IInv => OneInstallation
  BY DEF IInv
<1>2. QED
  BY <1>1, Invariant, PTL

\* The audit trail and the table agree on which accounts exist (update_user, delete_user).
THEOREM AuditIsRight == Spec => []AuditTellsAccount
<1>1. IInv => AuditTellsAccount
  BY DEF IInv
<1>2. QED
  BY <1>1, Invariant, PTL

\* No race of deletions and profile changes leaves an enabled profile without targets.
THEOREM ProfilesHaveTargets == Spec => []EnabledHasTargets
<1>1. IInv => EnabledHasTargets
  BY DEF IInv
<1>2. QED
  BY <1>1, Invariant, PTL

----------------------------------------------------------------------------
(* What a step may never do.                                               *)

\* Only the writes of profiles change profiles.
LEMMA ProfileFrame ==
  ASSUME [Next]_vars
  PROVE  \/ \E w \in Workers : WriteProfile(w) \/ WriteWithdrawal(w) \/ WriteDeletion(w)
         \/ UNCHANGED profile
<1>1. ASSUME NEW w \in Workers, Call(w)
      PROVE  UNCHANGED profile
  BY <1>1, CallFrame
<1>2. ASSUME NEW w \in Workers, Finish(w)
      PROVE  WriteProfile(w) \/ WriteWithdrawal(w) \/ WriteDeletion(w) \/ UNCHANGED profile
  BY <1>2 DEF Finish, WriteSetup, WriteUpdate, WriteDownload, CheckExpiry, WriteActivation, Abort
<1>3. ASSUME NEW p \in tokens, NEW i \in Accounts, NEW s \in Subjects, NEW admin \in BOOLEAN,
             CreateUser(p, i, s, admin)
      PROVE  UNCHANGED profile
  BY <1>3 DEF CreateUser
<1>4. Tick \/ UNCHANGED vars => UNCHANGED profile
  BY DEF Tick, vars
<1>5. QED
  BY <1>1, <1>2, <1>3, <1>4 DEF Next

\* A profile that was withdrawn is never enabled again (delete_client_deployment).
THEOREM Withdrawn == Spec => WithdrawnStays
<1>1. ASSUME IInv, [Next]_vars, NEW f \in Profiles, profile[f].state = "disabled"
      PROVE  profile'[f].state = "disabled"
  <2>1. TypeOK /\ TransactionsSound
    BY <1>1 DEF IInv
  <2>2. ASSUME NEW w \in Workers, WriteProfile(w)
        PROVE  profile'[f].state = "disabled"
    <3> DEFINE new == IF "targets" \in tx[w].cols THEN tx[w].profile.targets
                      ELSE profile[tx[w].on].targets
    <3>1. CASE tx[w].op = "create profile"
      <4>1. tx[w].on # f
        BY <1>1, <2>1, <3>1 DEF TransactionsSound, ProfileSound
      <4>2. profile' = [profile EXCEPT ![tx[w].on] = tx[w].profile]
        BY <2>2, <3>1 DEF WriteProfile
      <4>3. QED
        BY <1>1, <2>1, <4>1, <4>2 DEF TypeOK
    <3>2. CASE tx[w].op = "change profile"
      <4>1. profile' = [profile EXCEPT ![tx[w].on].targets = new]
        BY <2>2, <3>2 DEF WriteProfile
      <4> HIDE DEF new
      <4>2. QED
        BY <1>1, <2>1, <4>1 DEF TypeOK, ProfileRows
    <3>3. QED
      BY <2>2, <3>1, <3>2 DEF WriteProfile
  <2>3. ASSUME NEW w \in Workers, WriteWithdrawal(w)
        PROVE  profile'[f].state = "disabled"
    BY <1>1, <2>1, <2>3 DEF WriteWithdrawal, TypeOK, ProfileRows
  <2>4. ASSUME NEW w \in Workers, WriteDeletion(w)
        PROVE  profile'[f].state = "disabled"
    BY <1>1, <2>4 DEF WriteDeletion
  <2>5. QED
    BY <1>1, <2>2, <2>3, <2>4, ProfileFrame
<1>2. IInv /\ [Next]_vars =>
        [\A f \in Profiles : profile[f].state = "disabled" => profile'[f].state = "disabled"]_vars
  BY <1>1
<1>3. QED
  BY <1>2, Invariant, PTL DEF Spec, WithdrawnStays

\* Only the deletion of an account makes it deleted.
LEMMA DeletedFrame ==
  ASSUME IInv, [Next]_vars, NEW i \in Accounts, Deleted(i)
  PROVE  \E w \in Workers : WriteDeletion(w) /\ tx[w].on = i
<1>1. TypeOK /\ TransactionsSound /\ account' # account
  BY DEF IInv, Deleted, Exists
<1>2. ASSUME NEW w \in Workers, Call(w)
      PROVE  FALSE
  BY <1>1, <1>2, CallFrame
<1>3. ASSUME NEW w \in Workers, WriteSetup(w)
      PROVE  FALSE
  <2>1. account' = [account EXCEPT ![tx[w].on] = tx[w].account] /\ tx[w].account.state = "active"
    BY <1>1, <1>3 DEF WriteSetup, TransactionsSound, AccountSound
  <2>2. QED
    BY <1>1, <2>1 DEF Deleted, Exists, TypeOK
<1>4. ASSUME NEW w \in Workers, WriteUpdate(w)
      PROVE  FALSE
  <2> DEFINE row == Changed(account[tx[w].on], tx[w].cols, tx[w].account)
  <2>1. account' = [account EXCEPT ![tx[w].on] = row]
    BY <1>4 DEF WriteUpdate
  <2>2. row.state \in {"active", "suspended"}
    BY <1>1, <1>4 DEF WriteUpdate, TransactionsSound, AccountSound, TypeOK, AccountRows, Exists,
                      Changed
  <2> HIDE DEF row
  <2>3. QED
    BY <1>1, <2>1, <2>2 DEF Deleted, Exists, TypeOK
<1>5. ASSUME NEW w \in Workers, WriteDeletion(w)
      PROVE  tx[w].on = i
  BY <1>1, <1>5 DEF WriteDeletion, Deleted, Exists, TypeOK
<1>6. ASSUME NEW w \in Workers, Finish(w)
      PROVE  WriteDeletion(w)
  BY <1>1, <1>3, <1>4, <1>6 DEF Finish, WriteProfile, WriteWithdrawal, WriteDownload, CheckExpiry,
                                WriteActivation, Abort
<1>7. ASSUME NEW p \in tokens, NEW j \in Accounts, NEW s \in Subjects, NEW admin \in BOOLEAN,
             CreateUser(p, j, s, admin)
      PROVE  FALSE
  <2> DEFINE row == [state |-> "active", subject |-> s, admin |-> admin]
  <2>1. account' = [account EXCEPT ![j] = row] /\ row.state = "active"
    BY <1>7 DEF CreateUser
  <2> HIDE DEF row
  <2>2. QED
    BY <1>1, <2>1 DEF Deleted, Exists, TypeOK
<1>8. ~ Tick /\ ~ UNCHANGED vars
  BY <1>1 DEF Tick, vars
<1>9. QED
  BY <1>2, <1>5, <1>6, <1>7, <1>8 DEF Next

\* A deletion that saw the current rows leaves an administrator (delete_user): the rule
\* fails only for deletions that race.
THEOREM AdminRemains == Spec => LoneDeletionKeepsAdmin
<1>1. ASSUME IInv, [Next]_vars, NEW w \in Workers, tx[w].op = "delete", tx[w].fresh,
             account[tx[w].on].admin, Deleted(tx[w].on)
      PROVE  Admins' # {}
  <2>1. tx[w].on \in Accounts
    BY <1>1 DEF IInv, TransactionsSound, AccountSound
  <2>2. PICK v \in Workers : WriteDeletion(v) /\ tx[v].on = tx[w].on
    BY <1>1, <2>1, DeletedFrame
  <2>3. account' = [account EXCEPT ![tx[w].on].state = "deleted"]
    BY <2>2 DEF WriteDeletion
  <2>4. PICK j \in Admins : j # tx[w].on
    BY <1>1 DEF IInv, TransactionsSound, AccountSound
  <2>5. j \in Accounts /\ account'[j] = account[j]
    BY <1>1, <2>3, <2>4 DEF IInv, TypeOK, Admins
  <2>6. j \in Admins'
    BY <2>4, <2>5 DEF Admins
  <2>7. QED
    BY <2>6
<1>2. IInv /\ [Next]_vars =>
        [\A w \in Workers : tx[w].op = "delete" /\ tx[w].fresh /\ account[tx[w].on].admin
                               /\ Deleted(tx[w].on) => Admins' # {}]_vars
  BY <1>1
<1>3. QED
  BY <1>2, Invariant, PTL DEF Spec, LoneDeletionKeepsAdmin

----------------------------------------------------------------------------
(* Deletions that do not race.                                             *)

\* At most one transaction is open.  Users may still be created while it is.
Serial ==
  \A v, w \in Workers : tx[v].op # "idle" /\ tx[w].op # "idle" => v = w

\* What delete_user has read of the administrators still holds at its commit.
Remaining ==
  \A w \in Workers : tx[w].op = "delete" /\ account[tx[w].on].admin => Admins \ {tx[w].on} # {}

LEMMA DeletionsOpenFresh ==
  ASSUME TypeOK, NEW w \in Workers, Call(w), tx'[w].op = "delete"
  PROVE  tx'[w].fresh
<1> USE DEF TypeOK, Open, Idle
<1>1. ASSUME NEW p \in tokens, NEW i \in Accounts, ReadDeletion(w, p, i) PROVE tx'[w].fresh
  BY <1>1 DEF ReadDeletion, Deletion
<1>2. ASSUME NEW i \in Accounts, NEW s \in Subjects, Claim(w, i, s) PROVE FALSE
  BY <1>2 DEF Claim
<1>3. ASSUME NEW p \in tokens, NEW i \in Accounts, NEW state \in {"active", "suspended"},
             NEW admin \in BOOLEAN, NEW others \in BOOLEAN,
             ReadUpdate(w, p, i, admin, state, others)
      PROVE  FALSE
  BY <1>3 DEF ReadUpdate
<1>4. ASSUME NEW p \in tokens, NEW f \in Profiles, NEW targets \in SUBSET Subjects,
             ReadProfile(w, p, f, targets)
      PROVE  FALSE
  <2> DEFINE row == [state |-> "enabled", targets |-> targets]
             cols == IF targets # profile[f].targets THEN {"targets"} ELSE {}
             created == [Idle EXCEPT !.op = "create profile", !.on = f, !.profile = row]
             changed == [Idle EXCEPT !.op = "change profile", !.on = f, !.profile = row, !.cols = cols]
  <2>1. Open(w, created) \/ Open(w, changed)
    BY <1>4 DEF ReadProfile
  <2> HIDE DEF row, cols
  <2>2. created.op = "create profile" /\ changed.op = "change profile"
    OBVIOUS
  <2> HIDE DEF created, changed
  <2>3. QED
    BY <2>1, <2>2
<1>5. ASSUME NEW p \in tokens, NEW f \in Profiles, ReadWithdrawal(w, p, f) PROVE FALSE
  BY <1>5 DEF ReadWithdrawal
<1>6. ASSUME NEW p \in tokens, NEW f \in Profiles, NEW s \in Subjects, ReadDownload(w, p, f, s)
      PROVE  FALSE
  BY <1>6 DEF ReadDownload
<1>7. ASSUME NEW p \in tokens, NEW c \in Codes, ReadBootstrap(w, p, c) PROVE FALSE
  BY <1>7 DEF ReadBootstrap
<1>8. QED
  BY <1>1, <1>2, <1>3, <1>4, <1>5, <1>6, <1>7 DEF Call

\* A user created while a deletion is open takes no administrator away.
LEMMA CreateKeepsRemaining ==
  ASSUME IInv, Remaining, NEW p \in tokens, NEW i \in Accounts, NEW s \in Subjects,
         NEW admin \in BOOLEAN, CreateUser(p, i, s, admin)
  PROVE  Remaining'
<1> DEFINE row == [state |-> "active", subject |-> s, admin |-> admin]
<1>1. /\ account' = [account EXCEPT ![i] = row] /\ account[i].state = "absent"
      /\ \A v \in Workers : tx[v].on # i
      /\ tx' = [v \in Workers |-> [tx[v] EXCEPT !.fresh = FALSE]]
  BY DEF CreateUser, Overtake
<1> HIDE DEF row
<1>2. \A v \in Workers : tx[v] \in Transactions
  BY DEF IInv, TypeOK
<1>3. \A v \in Workers : tx'[v].op = tx[v].op /\ tx'[v].on = tx[v].on
  BY <1>1, <1>2, StaleFacts
<1>4. account \in [Accounts -> AccountRows]
  BY DEF IInv, TypeOK
<1>5. \A j \in Accounts \ {i} : account'[j] = account[j]
  BY <1>1, <1>4
<1>6. Admins \subseteq Admins'
  BY <1>1, <1>5 DEF Admins
<1> SUFFICES ASSUME NEW w \in Workers, tx[w].op = "delete", account'[tx[w].on].admin
             PROVE  Admins' \ {tx[w].on} # {}
  BY <1>3 DEF Remaining
<1>7. tx[w].on \in Accounts \ {i}
  BY <1>1 DEF IInv, TransactionsSound, AccountSound
<1>8. Admins \ {tx[w].on} # {}
  BY <1>5, <1>7 DEF Remaining
<1>9. QED
  BY <1>6, <1>8

LEMMA StepKeepsRemaining == IInv /\ IInv' /\ Serial /\ Remaining /\ [Next]_vars => Remaining'
<1> SUFFICES ASSUME IInv, IInv', Serial, Remaining, [Next]_vars PROVE Remaining'
  OBVIOUS
<1>1. TypeOK
  BY DEF IInv
<1>2. ASSUME NEW v \in Workers, Call(v) PROVE Remaining'
  <2>1. account' = account
    BY <1>2, CallFrame
  <2>2. PICK t \in Transactions : tx' = [tx EXCEPT ![v] = t]
    BY <1>2, CallOpens DEF OpensSoundly, Open
  <2>3. tx'[v].op = "delete" /\ account'[tx'[v].on].admin => Admins' \ {tx'[v].on} # {}
    BY <1>1, <1>2, DeletionsOpenFresh DEF IInv, TransactionsSound, AccountSound
  <2>4. \A w \in Workers \ {v} : tx'[w] = tx[w]
    BY <1>1, <2>2 DEF TypeOK
  <2>5. Admins' = Admins
    BY <2>1 DEF Admins
  <2>6. QED
    BY <2>1, <2>3, <2>4, <2>5 DEF Remaining
<1>3. ASSUME NEW v \in Workers, Finish(v) PROVE Remaining'
  <2>1. tx[v].op # "idle"
    BY <1>3 DEF Finish, WriteSetup, WriteDeletion, WriteUpdate, WriteProfile, WriteWithdrawal,
                CheckExpiry, WriteActivation, Abort, WriteDownload
  <2>2. \A w \in Workers \ {v} : tx[w].op = "idle"
    BY <2>1 DEF Serial
  <2>3. CASE Close(v)
    BY <1>1, <2>2, <2>3, CloseFacts, IdleType DEF Remaining
  <2>4. CASE CheckExpiry(v) \/ Abort(v)
    <3>1. tx'[v].op \in {"activate", "idle"} /\ \A w \in Workers \ {v} : tx'[w] = tx[w]
      BY <1>1, <2>4, IdleType DEF CheckExpiry, Abort, TypeOK, Transactions
    <3>2. QED
      BY <2>2, <3>1 DEF Remaining
  <2>5. QED
    BY <1>3, <2>3, <2>4 DEF Finish, WriteSetup, WriteDeletion, WriteUpdate, WriteProfile,
                            WriteWithdrawal, WriteActivation, WriteDownload
<1>4. ASSUME NEW p \in tokens, NEW i \in Accounts, NEW s \in Subjects, NEW admin \in BOOLEAN,
             CreateUser(p, i, s, admin)
      PROVE  Remaining'
  BY <1>4, CreateKeepsRemaining
<1>5. CASE Tick \/ UNCHANGED vars
  BY <1>5 DEF Tick, vars, Remaining, Admins
<1>6. QED
  BY <1>2, <1>3, <1>4, <1>5 DEF Next

\* As long as no two transactions are open at once, the last administrator is never deleted,
\* even while users are created: only deletions and updates that race break what delete_user
\* promises (api.py 595).
THEOREM SerialDeletionsKeepAdmin == Spec /\ []Serial => DeletionKeepsAdmin
<1>1. Init => Remaining
  BY IdleType DEF Init, Remaining
<1>2. ASSUME IInv, Remaining, [Next]_vars, NEW i \in Accounts, i \in Admins, Deleted(i)
      PROVE  Admins' # {}
  <2>1. PICK w \in Workers : WriteDeletion(w) /\ tx[w].on = i
    BY <1>2, DeletedFrame
  <2>2. PICK j \in Admins : j # i
    BY <1>2, <2>1 DEF WriteDeletion, Remaining, Admins
  <2>3. account' = [account EXCEPT ![i].state = "deleted"]
    BY <2>1 DEF WriteDeletion
  <2>4. account'[j] = account[j] /\ j \in Accounts
    BY <1>2, <2>2, <2>3 DEF IInv, TypeOK, Admins
  <2>5. j \in Admins'
    BY <2>2, <2>4 DEF Admins
  <2>6. QED
    BY <2>5
<1>3. IInv /\ Remaining /\ [Next]_vars =>
        [\A i \in Accounts : i \in Admins /\ Deleted(i) => Admins' # {}]_vars
  BY <1>2
<1>4. QED
  BY <1>1, <1>3, Invariant, StepKeepsRemaining, PTL DEF Spec, DeletionKeepsAdmin

----------------------------------------------------------------------------
(* Codes.                                                                  *)

\* Opening and closing a transaction lets no handler past the comparison of an expiry.
LEMMA NoActivation ==
  ASSUME TypeOK, NEW c \in Codes, Lapsed(c), clock' >= clock, code'[c] = code[c], clock' \in Nat,
         \A w \in Workers : tx'[w].op = "activate" => tx[w].op = "activate" /\ tx'[w].on = tx[w].on
  PROVE  Lapsed(c)'
<1>1. code[c].expires \in Nat /\ clock \in Nat
  BY DEF TypeOK, CodeRows
<1>2. code'[c].state = "issued" /\ code'[c].expires <= clock'
  BY <1>1 DEF Lapsed
<1>3. \A w \in Workers : ~ (tx'[w].op = "activate" /\ tx'[w].on = c)
  BY DEF Lapsed
<1>4. QED
  BY <1>2, <1>3 DEF Lapsed

\* An expired code is never activated by a handler that has not compared its expiry in
\* time (bootstrap_client).
THEOREM ExpiryHolds == Spec => ExpiryCloses
<1>1. ASSUME IInv, [Next]_vars, NEW c \in Codes, Lapsed(c)
      PROVE  Lapsed(c)'
  <2>1. TypeOK /\ TransactionsSound /\ clock \in Nat /\ clock' >= clock
    <3>1. clock \in Nat
      BY <1>1 DEF IInv, TypeOK
    <3>2. ASSUME NEW w \in Workers, Call(w) PROVE clock' = clock
      BY <3>2, CallFrame
    <3>3. ASSUME NEW w \in Workers, Finish(w) PROVE clock' = clock
      BY <3>3 DEF Finish, WriteSetup, WriteUpdate, WriteDeletion, WriteProfile, WriteWithdrawal,
                  WriteDownload, CheckExpiry, WriteActivation, Abort
    <3>4. clock' = clock \/ clock' = clock + 1
      BY <1>1, <3>2, <3>3 DEF Next, CreateUser, Tick, vars
    <3>5. QED
      BY <1>1, <3>1, <3>4 DEF IInv
  <2>2. clock' \in Nat
    BY <1>1, StepKeepsIInv DEF IInv, TypeOK
  <2>3. ASSUME NEW w \in Workers, Call(w)
        PROVE  Lapsed(c)'
    <3>1. PICK t \in Transactions : OpensSoundly(w, t)
      BY <1>1, <2>3, CallOpens
    <3>2. code' = code
      BY <2>3, CallFrame
    <3>3. \A v \in Workers : tx'[v].op = "activate" => tx'[v] = tx[v]
      BY <2>1, <3>1 DEF OpensSoundly, Open, TypeOK
    <3>4. QED
      BY <1>1, <2>1, <2>2, <3>2, <3>3, NoActivation
  <2>4. ASSUME NEW w \in Workers, Close(w), code'[c] = code[c]
        PROVE  Lapsed(c)'
    <3>1. \A v \in Workers :
            tx'[v].op = "activate" => tx[v].op = "activate" /\ tx'[v].on = tx[v].on
      BY <2>1, <2>4, CloseFacts, IdleType
    <3>2. QED
      BY <1>1, <2>1, <2>2, <2>4, <3>1, NoActivation
  <2>5. ASSUME NEW w \in Workers, WriteActivation(w)
        PROVE  Close(w) /\ code'[c] = code[c]
    <3>1. tx[w].on # c
      BY <1>1, <2>5 DEF WriteActivation, Lapsed
    <3>2. QED
      BY <2>1, <2>5, <3>1 DEF WriteActivation, TypeOK
  <2>6. ASSUME NEW w \in Workers, NEW d \in Codes, WriteDownload(w, d)
        PROVE  Close(w) /\ code'[c] = code[c]
    <3>1. d # c
      BY <1>1, <2>6 DEF WriteDownload, Lapsed
    <3>2. QED
      BY <2>1, <2>6, <3>1 DEF WriteDownload, TypeOK
  <2>7. ASSUME NEW w \in Workers, CheckExpiry(w)
        PROVE  Lapsed(c)'
    <3>1. tx[w].on # c
      <4>1. tx[w].op = "bootstrap" /\ tx[w].code.expires > clock /\ tx[w].code.expires \in Nat
        BY <2>1, <2>7 DEF CheckExpiry, TypeOK, Transactions, CodeRows
      <4>2. tx[w].on = c => tx[w].code.expires = code[c].expires
        BY <2>1, <4>1 DEF TransactionsSound, CodeSound
      <4>3. QED
        BY <1>1, <2>1, <4>1, <4>2 DEF Lapsed
    <3>2. /\ tx'[w].on = tx[w].on /\ \A v \in Workers \ {w} : tx'[v] = tx[v]
          /\ code' = code /\ clock' = clock
      BY <2>1, <2>7 DEF CheckExpiry, TypeOK, Transactions
    <3>3. QED
      BY <1>1, <3>1, <3>2 DEF Lapsed
  <2>8. ASSUME NEW w \in Workers, Abort(w)
        PROVE  Lapsed(c)'
    <3>1. /\ tx'[w].op # "activate" /\ \A v \in Workers \ {w} : tx'[v] = tx[v]
          /\ code' = code
      BY <2>1, <2>8, IdleType DEF Abort, TypeOK
    <3>2. QED
      BY <1>1, <2>1, <2>2, <3>1, NoActivation
  <2>9. ASSUME NEW w \in Workers, Finish(w)
        PROVE  Lapsed(c)'
    BY <2>4, <2>5, <2>6, <2>7, <2>8, <2>9
       DEF Finish, WriteSetup, WriteDeletion, WriteUpdate, WriteProfile, WriteWithdrawal
  <2>10. ASSUME NEW p \in tokens, NEW i \in Accounts, NEW s \in Subjects,
                NEW admin \in BOOLEAN, CreateUser(p, i, s, admin)
         PROVE  Lapsed(c)'
    <3>1. tx' = [v \in Workers |-> [tx[v] EXCEPT !.fresh = FALSE]] /\ code' = code
      BY <2>10 DEF CreateUser, Overtake
    <3>2. \A v \in Workers : tx'[v].op = tx[v].op /\ tx'[v].on = tx[v].on
      BY <2>1, <3>1, StaleFacts DEF TypeOK
    <3>3. QED
      BY <1>1, <2>1, <2>2, <3>1, <3>2, NoActivation
  <2>11. CASE Tick \/ UNCHANGED vars
    BY <1>1, <2>1, <2>2, <2>11, NoActivation DEF Tick, vars
  <2>12. QED
    BY <1>1, <2>3, <2>9, <2>10, <2>11 DEF Next
<1>2. IInv /\ [Next]_vars => [\A c \in Codes : Lapsed(c) => Lapsed(c)']_vars
  BY <1>1
<1>3. QED
  BY <1>2, Invariant, PTL DEF Spec, ExpiryCloses
=============================================================================
