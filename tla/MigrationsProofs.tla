-------------------------- MODULE MigrationsProofs --------------------------
(***************************************************************************)
(* Proofs about Migrations, for every sequence of revisions that meets the *)
(* assumptions of that module, every schema to begin with and any number   *)
(* of starts that are cut off.                                             *)
(***************************************************************************)
EXTENDS Migrations, TLAPS

\* What the revisions stamped and the statements passed so far leave behind, however many
\* cut-off starts lie between them.
Built ==
  \A object \in Needed :
    /\ \A r \in 1 .. version : Own(object) \in Statements(r) => object \in schema
    /\ at > 0 => \A i \in 1 .. at - 1 :
         Upgrades[version + 1].statements[i] = Own(object) => object \in schema
    /\ object \in seen => object \in schema

\* The row of installation_state is there once a revision wrote it, and it tells whether
\* there has been an account; until then accounts neither come nor go.
RowTells ==
  /\ accounts => founded
  /\ setup = "absent" => (founded <=> accounts)
  /\ setup # "absent" => (setup = "closed" <=> founded)
  /\ (\E r \in 1 .. version : Upgrades[r].decides) => setup # "absent"

\* Past the upgrade every revision is stamped.
Past == api \in {"restoring", "serving"} => version = Len(Upgrades)

IInv == UpgradeTypeOK /\ Built /\ RowTells /\ Past

LEMMA RevisionType ==
  ASSUME NEW r \in 1 .. Len(Upgrades)
  PROVE  /\ Upgrades[r] \in
              [statements : Seq([do : {"create", "drop"}, object : Objects,
                                 unless : SUBSET Objects]),
               decides : BOOLEAN]
         /\ DOMAIN Upgrades[r].statements = 1 .. Len(Upgrades[r].statements)
         /\ Len(Upgrades[r].statements) \in Nat
         /\ \A i \in 1 .. Len(Upgrades[r].statements) :
              Upgrades[r].statements[i] \in
                [do : {"create", "drop"}, object : Objects, unless : SUBSET Objects]
<1> DEFINE Kinds == [do : {"create", "drop"}, object : Objects, unless : SUBSET Objects]
<1> DEFINE Revisions == [statements : Seq(Kinds), decides : BOOLEAN]
<1>1. Upgrades \in Seq(Revisions)
  BY UpgradesAssumption DEF UpgradesAssumption
<1> HIDE DEF Revisions
<1>2. Upgrades[r] \in Revisions
  BY <1>1
<1> HIDE DEF Kinds
<1>3. Upgrades[r].statements \in Seq(Kinds)
  BY <1>2 DEF Revisions
<1>4. /\ DOMAIN Upgrades[r].statements = 1 .. Len(Upgrades[r].statements)
      /\ Len(Upgrades[r].statements) \in Nat
      /\ \A i \in 1 .. Len(Upgrades[r].statements) : Upgrades[r].statements[i] \in Kinds
  BY <1>3
<1> QED
  BY <1>2, <1>4 DEF Revisions, Kinds

LEMMA LengthType == Len(Upgrades) \in Nat /\ DOMAIN Upgrades = 1 .. Len(Upgrades)
BY UpgradesAssumption DEF UpgradesAssumption

LEMMA ReachesType ==
  ASSUME UpgradeTypeOK, version < Len(Upgrades), NEW from \in Nat \ {0}, NEW found,
         NEW i, Reaches(i, from, found)
  PROVE  /\ i \in Nat /\ i >= from /\ i <= Len(Upgrades[version + 1].statements) + 1
         /\ \A j \in from .. i - 1 : Skipped(Upgrades[version + 1].statements[j], found)
<1>1. version + 1 \in 1 .. Len(Upgrades)
  BY LengthType DEF UpgradeTypeOK
<1> QED
  BY <1>1, RevisionType DEF Reaches

----------------------------------------------------------------------------
(* Types.                                                                  *)

\* Every start, cut off or not, keeps schema, revision and row of the kind the code reads.
LEMMA TypeInit == UpgradeInit => UpgradeTypeOK
<1>1. UNION Origins \subseteq Objects
  BY DEF Objects
<1> SUFFICES ASSUME UpgradeInit PROVE UpgradeTypeOK
  OBVIOUS
<1>2. schema \subseteq Objects
  BY <1>1 DEF UpgradeInit
<1>3. version \in 0 .. Len(Upgrades) /\ at \in Nat /\ ~ (at > 0)
  BY LengthType DEF UpgradeInit
<1> QED
  BY <1>2, <1>3 DEF UpgradeInit, UpgradeTypeOK

LEMMA TypeStep == UpgradeTypeOK /\ [UpgradeNext]_migration => UpgradeTypeOK'
<1> SUFFICES ASSUME UpgradeTypeOK, [UpgradeNext]_migration PROVE UpgradeTypeOK'
  OBVIOUS
<1> USE LengthType
<1>0. version < Len(Upgrades) => version + 1 \in 1 .. Len(Upgrades)
  BY DEF UpgradeTypeOK
<1>1. CASE Begin
  BY <1>1 DEF Begin, UpgradeTypeOK, database, progress
<1>2. CASE Inspect
  <2>1. version < Len(Upgrades) /\ at' \in Nat /\ at' <= Len(Upgrades[version + 1].statements) + 1
    BY <1>2, ReachesType DEF Inspect
  <2> QED
    BY <1>2, <2>1 DEF Inspect, UpgradeTypeOK, database
<1>3. CASE Execute
  <2>1. version < Len(Upgrades) /\ at \in 1 .. Len(Upgrades[version + 1].statements)
    BY <1>3, <1>0, RevisionType DEF Execute
  <2>2. at' \in Nat /\ at' <= Len(Upgrades[version + 1].statements) + 1
    BY <1>3, <2>1, ReachesType DEF Execute
  <2>3. Upgrades[version + 1].statements[at].object \in Objects
    BY <2>1, <1>0, RevisionType
  <2>4. schema' \subseteq Objects
    BY <1>3, <2>3 DEF Execute, Done, UpgradeTypeOK
  <2> QED
    BY <1>3, <2>1, <2>2, <2>4 DEF Execute, UpgradeTypeOK
<1>4. CASE Stamp
  BY <1>4 DEF Stamp, Decided, UpgradeTypeOK
<1>5. CASE Finish
  BY <1>5 DEF Finish, UpgradeTypeOK, database, progress
<1>6. CASE RestoreWireguard
  BY <1>6 DEF RestoreWireguard, UpgradeTypeOK, database, progress
<1>7. CASE Cut
  BY <1>7 DEF Cut, UpgradeTypeOK, database
<1>8. CASE Administer
  BY <1>8 DEF Administer, FirstAdministrator, CreateUser, DeleteUser, UpgradeTypeOK, progress
<1>9. CASE UNCHANGED migration
  BY <1>9 DEF migration, UpgradeTypeOK
<1> QED
  BY <1>1, <1>2, <1>3, <1>4, <1>5, <1>6, <1>7, <1>8, <1>9 DEF UpgradeNext, Work

----------------------------------------------------------------------------
(* The schema and the row.                                                 *)

LEMMA OwnIsCreate ==
  ASSUME NEW object
  PROVE  /\ Own(object).do = "create" /\ Own(object).object = object
         /\ \A found : Skipped(Own(object), found) => object \in found
BY DEF Own, Skipped

LEMMA NeededIsKept ==
  ASSUME NEW object \in Needed, NEW r \in 1 .. Len(Upgrades),
         NEW i \in 1 .. Len(Upgrades[r].statements), object \in schema
  PROVE  object \in Done(Upgrades[r].statements[i])
<1>1. Upgrades[r].statements[i] \in Statements(r)
  BY RevisionType DEF Statements
<1>2. Upgrades[r].statements[i].do = "drop" => Upgrades[r].statements[i].object # object
  BY <1>1, LengthType, NeededAssumption DEF NeededAssumption
<1> QED
  BY <1>2 DEF Done

LEMMA BuiltInit == UpgradeInit => Built
BY DEF UpgradeInit, Built

\* The statements the revision skips change nothing: what they would create is there.
LEMMA BuiltInspect == ASSUME IInv, Inspect PROVE Built'
<1> SUFFICES ASSUME NEW object \in Needed
             PROVE  /\ \A r \in 1 .. version : Own(object) \in Statements(r) => object \in schema
                    /\ \A i \in 1 .. at' - 1 :
                         Upgrades[version + 1].statements[i] = Own(object) => object \in schema
                    /\ object \in seen' => object \in schema
  BY DEF Inspect, Built, database
<1>1. at' \in Nat /\ \A j \in 1 .. at' - 1 : Skipped(Upgrades[version + 1].statements[j], schema)
  BY ReachesType DEF Inspect, IInv
<1> QED
  BY <1>1, OwnIsCreate DEF Inspect, IInv, Built

\* The ends of an interval, for a solver that does not unfold it.
LEMMA Beyond ==
  ASSUME NEW a \in Nat, NEW b \in Nat, NEW k \in Nat, k >= a + 1, k <= b - 1
  PROVE  k \in a + 1 .. b - 1
OBVIOUS

\* What membership of an interval gives.
LEMMA Within ==
  ASSUME NEW b \in Nat, NEW k \in 1 .. b - 1 PROVE k \in Nat /\ k >= 1 /\ k <= b - 1
OBVIOUS

LEMMA BuiltExecute == ASSUME IInv, Execute PROVE Built'
<1> SUFFICES ASSUME NEW object \in Needed
             PROVE  /\ \A r \in 1 .. version : Own(object) \in Statements(r) => object \in schema'
                    /\ \A i \in 1 .. at' - 1 :
                         Upgrades[version + 1].statements[i] = Own(object) => object \in schema'
                    /\ object \in seen => object \in schema'
  BY DEF Execute, Built
<1> DEFINE statements == Upgrades[version + 1].statements
<1>1. version < Len(Upgrades) /\ version + 1 \in 1 .. Len(Upgrades)
  BY LengthType DEF Execute, IInv, UpgradeTypeOK
<1>2. at \in 1 .. Len(statements) /\ Len(statements) \in Nat
  BY <1>1, RevisionType DEF Execute
<1>3. /\ at' \in Nat /\ at' >= at + 1
      /\ \A j \in at + 1 .. at' - 1 : Skipped(statements[j], seen)
  BY <1>1, <1>2, ReachesType DEF Execute, IInv
<1>4. schema' = Done(statements[at])
  BY DEF Execute
<1>5. object \in schema => object \in schema'
  BY <1>1, <1>2, <1>4, NeededIsKept
<1>6. statements[at] = Own(object) => object \in schema'
  BY <1>4, OwnIsCreate DEF Done
<1>7. object \in seen => object \in schema'
  BY <1>5 DEF IInv, Built
<1>8. ASSUME NEW i \in 1 .. at' - 1, statements[i] = Own(object) PROVE object \in schema'
  <2>0. at \in Nat /\ at' \in Nat /\ i \in Nat /\ i >= 1 /\ i <= at' - 1
    <3>1. at \in Nat
      BY <1>2
    <3>2. at' \in Nat
      BY <1>3
    <3>3. i \in Nat /\ i >= 1 /\ i <= at' - 1
      BY <3>2, Within
    <3> QED
      BY <3>1, <3>2, <3>3
  <2>1. CASE i <= at - 1
    <3>1. at > 0 /\ i \in 1 .. at - 1
      BY <2>0, <2>1
    <3> QED
      BY <3>1, <1>5, <1>8 DEF IInv, Built
  <2>2. CASE i = at
    BY <2>2, <1>6, <1>8
  <2>3. CASE i >= at + 1
    <3>1. i \in at + 1 .. at' - 1
      BY <2>0, <2>3, Beyond
    <3> QED
      BY <3>1, <1>3, <1>7, <1>8, OwnIsCreate
  <2>4. i <= at - 1 \/ i = at \/ i >= at + 1
    BY <2>0
  <2> QED
    BY <2>1, <2>2, <2>3, <2>4
<1> QED
  BY <1>5, <1>7, <1>8 DEF IInv, Built

LEMMA BuiltStamp == ASSUME IInv, Stamp PROVE Built'
<1> SUFFICES ASSUME NEW object \in Needed, NEW r \in 1 .. version + 1,
                    Own(object) \in Statements(r)
             PROVE  object \in schema
  BY DEF Stamp, Built
<1>1. version < Len(Upgrades) /\ version \in Nat /\ version + 1 \in 1 .. Len(Upgrades)
  BY LengthType DEF Stamp, IInv, UpgradeTypeOK
<1>2. CASE r = version + 1
  <2>1. PICK i \in 1 .. Len(Upgrades[version + 1].statements) :
          Upgrades[version + 1].statements[i] = Own(object)
    BY <1>1, <1>2, RevisionType DEF Statements
  <2>2. at > 0 /\ i \in 1 .. at - 1
    BY <1>1, RevisionType DEF Stamp
  <2> QED
    BY <2>1, <2>2 DEF IInv, Built
<1>3. CASE r \in 1 .. version
  BY <1>3 DEF IInv, Built
<1> QED
  BY <1>1, <1>2, <1>3

LEMMA RowStamp == ASSUME IInv, Stamp PROVE RowTells'
<1>1. version \in Nat /\ version' = version + 1
  BY LengthType DEF Stamp, IInv, UpgradeTypeOK
<1>2. /\ accounts' => founded'
      /\ setup' = "absent" => (founded' <=> accounts')
      /\ setup' # "absent" => (setup' = "closed" <=> founded')
  BY DEF Stamp, Decided, IInv, RowTells
<1>3. ASSUME NEW r \in 1 .. version', Upgrades[r].decides PROVE setup' # "absent"
  <2>1. CASE r \in 1 .. version
    BY <2>1, <1>3 DEF Stamp, Decided, IInv, RowTells
  <2>2. CASE r = version + 1
    BY <2>2, <1>3 DEF Stamp, Decided
  <2> QED
    BY <2>1, <2>2, <1>1
<1> QED
  BY <1>2, <1>3 DEF RowTells

\* Traffic comes after the revision that writes the row.
LEMMA ServingIsDecided == ASSUME IInv, api = "serving" PROVE setup # "absent"
<1>1. \E r \in 1 .. version : Upgrades[r].decides
  BY UpgradesAssumption, LengthType DEF UpgradesAssumption, IInv, Past
<1> QED
  BY <1>1 DEF IInv, RowTells

LEMMA Inductive == IInv /\ [UpgradeNext]_migration => IInv'
<1> SUFFICES ASSUME IInv, [UpgradeNext]_migration PROVE IInv'
  OBVIOUS
<1>0. UpgradeTypeOK'
  BY TypeStep DEF IInv
<1>1. CASE Begin
  BY <1>1, <1>0 DEF Begin, IInv, Built, RowTells, Past, database, progress
<1>2. CASE Inspect
  <2>1. RowTells' /\ Past'
    BY <1>2 DEF Inspect, IInv, RowTells, Past, database
  <2> QED
    BY <1>0, <1>2, <2>1, BuiltInspect DEF IInv
<1>3. CASE Execute
  <2>1. RowTells' /\ Past'
    BY <1>3 DEF Execute, IInv, RowTells, Past
  <2> QED
    BY <1>0, <1>3, <2>1, BuiltExecute DEF IInv
<1>4. CASE Stamp
  <2>1. Past'
    BY <1>4 DEF Stamp, IInv, Past
  <2> QED
    BY <1>0, <1>4, <2>1, BuiltStamp, RowStamp DEF IInv
<1>5. CASE Finish
  BY <1>5, <1>0 DEF Finish, IInv, Built, RowTells, Past, database, progress
<1>6. CASE RestoreWireguard
  BY <1>6, <1>0 DEF RestoreWireguard, IInv, Built, RowTells, Past, database, progress
<1>7. CASE Cut
  BY <1>7, <1>0 DEF Cut, IInv, Built, RowTells, Past, database
<1>8. CASE Administer
  <2>1. /\ schema' = schema /\ version' = version /\ api' = api /\ at' = at /\ seen' = seen
        /\ setup # "absent"
    BY <1>8, ServingIsDecided DEF Administer, FirstAdministrator, CreateUser, DeleteUser, progress
  <2>2. RowTells'
    BY <1>8, <2>1 DEF Administer, FirstAdministrator, CreateUser, DeleteUser, IInv, RowTells
  <2> QED
    BY <1>0, <2>1, <2>2 DEF IInv, Built, Past
<1>9. CASE UNCHANGED migration
  BY <1>9, <1>0 DEF migration, IInv, Built, RowTells, Past
<1> QED
  BY <1>1, <1>2, <1>3, <1>4, <1>5, <1>6, <1>7, <1>8, <1>9 DEF UpgradeNext, Work

LEMMA Invariant == UpgradeSpec => []IInv
<1>1. UpgradeInit => IInv
  <2>1. ASSUME UpgradeInit PROVE RowTells /\ Past
    BY <2>1 DEF UpgradeInit, RowTells, Past
  <2> QED
    BY <2>1, TypeInit, BuiltInit DEF IInv
<1> QED
  BY <1>1, Inductive, PTL DEF UpgradeSpec

----------------------------------------------------------------------------
(* The theorems.                                                           *)

\* Schema, revision and row stay of the kind the code reads, however often a start is cut
\* off.
THEOREM UpgradeTypeCorrect == UpgradeSpec => []UpgradeTypeOK
<1>1. IInv => UpgradeTypeOK
  BY DEF IInv
<1> QED
  BY <1>1, Invariant, PTL

\* The API never takes traffic on a schema without every object the handlers need.
THEOREM ServedSchemaIsComplete == UpgradeSpec => []HeadIsComplete
<1>1. IInv => HeadIsComplete
  <2> SUFFICES ASSUME IInv, api = "serving"
               PROVE  version = Len(Upgrades) /\ Needed \subseteq schema
    BY DEF HeadIsComplete
  <2>1. version = Len(Upgrades)
    BY DEF IInv, Past
  <2>2. ASSUME NEW object \in Needed PROVE object \in schema
    <3>1. PICK r \in 1 .. Len(Upgrades) : Own(object) \in Statements(r)
      BY NeededAssumption, LengthType DEF NeededAssumption, Own
    <3> QED
      BY <3>1, <2>1 DEF IInv, Built
  <2> QED
    BY <2>1, <2>2
<1> QED
  BY <1>1, Invariant, PTL

\* While the API takes traffic, the setup page is open exactly if there has never been an
\* account, for any revisions, interruptions, registrations and deletions.
THEOREM SetupIsDecided == UpgradeSpec => []SetupDecided
<1>1. IInv => SetupDecided
  <2> SUFFICES ASSUME IInv, api = "serving"
               PROVE  /\ setup = IF founded THEN "closed" ELSE "open"
                      /\ setup = "open" => ~ accounts
    BY DEF SetupDecided
  <2>1. setup # "absent" /\ setup \in {"absent", "open", "closed"}
    BY ServingIsDecided DEF IInv, UpgradeTypeOK
  <2> QED
    BY <2>1 DEF IInv, RowTells
<1> QED
  BY <1>1, Invariant, PTL

----------------------------------------------------------------------------
(* Starts that are not cut off, or cut off before their first statement.   *)

\* The objects of the statements of that kind before statement i of revision r.
Passed(r, kind, i) ==
  { Upgrades[r].statements[j].object : j \in { k \in 1 .. i - 1 : Upgrades[r].statements[k].do = kind } }

\* What a database has before statement i of revision r, whose inspection has found `found`.
Ahead(r, found, i) == (found \cup Passed(r, "create", i)) \ Passed(r, "drop", i)

\* Where no revision was left half done, the schema is the one meant at the present
\* statement.
Mirrors ==
  ~ torn => \E origin \in Origins :
    /\ at = 0 => schema = Meant(origin, version)
    /\ at > 0 => /\ seen = Meant(origin, version)
                 /\ schema = Ahead(version + 1, Meant(origin, version), at)

LEMMA PassedMember ==
  ASSUME NEW r, NEW kind, NEW i, NEW x
  PROVE  x \in Passed(r, kind, i) <=>
           \E j \in 1 .. i - 1 : /\ Upgrades[r].statements[j].do = kind
                                 /\ Upgrades[r].statements[j].object = x
BY DEF Passed

LEMMA TouchedMember ==
  ASSUME NEW kind, NEW v, NEW x
  PROVE  x \in Touched(kind, v) <=>
           \E r \in 1 .. v : \E s \in Statements(r) : s.do = kind /\ s.object = x
BY DEF Touched

\* What a revision passes is among what the revisions up to it touch.
LEMMA PassedIsTouched ==
  ASSUME NEW r \in 1 .. Len(Upgrades), NEW kind, NEW i \in Nat,
         i <= Len(Upgrades[r].statements) + 1
  PROVE  Passed(r, kind, i) \subseteq Touched(kind, r)
<1> SUFFICES ASSUME NEW j \in 1 .. i - 1, Upgrades[r].statements[j].do = kind
             PROVE  Upgrades[r].statements[j].object \in Touched(kind, r)
  BY DEF Passed
<1>1. j \in DOMAIN Upgrades[r].statements
  BY RevisionType
<1>2. r \in 1 .. r /\ Upgrades[r].statements[j] \in Statements(r)
  BY <1>1, LengthType DEF Statements
<1> QED
  BY <1>2, TouchedMember

\* What a revision creates, no revision up to it has dropped.
LEMMA CreatedIsNotDropped ==
  ASSUME NEW origin \in Origins, NEW r \in 1 .. Len(Upgrades), NEW i \in Nat,
         i <= Len(Upgrades[r].statements) + 1, NEW x \in Passed(r, "create", i)
  PROVE  x \notin Touched("drop", r)
<1>1. PICK j \in 1 .. i - 1 : /\ Upgrades[r].statements[j].do = "create"
                              /\ Upgrades[r].statements[j].object = x
  BY PassedMember
<1>2. j \in DOMAIN Upgrades[r].statements
  BY RevisionType
<1>3. Upgrades[r].statements[j] \in Statements(r) /\ r \in DOMAIN Upgrades
  BY <1>2, LengthType DEF Statements
<1> QED
  BY <1>1, <1>3, MirrorAssumption DEF MirrorAssumption

\* The statements before i are those before an earlier one and those in between.
LEMMA Between ==
  ASSUME NEW from \in Nat \ {0}, NEW i \in Nat, i >= from, NEW j \in 1 .. i - 1
  PROVE  j \in 1 .. from - 1 \/ j \in from .. i - 1
OBVIOUS

LEMMA Passing ==
  ASSUME NEW i \in Nat \ {0}, NEW k \in Nat, k >= i + 1
  PROVE  k >= i /\ i \in 1 .. k - 1
OBVIOUS

LEMMA Earlier ==
  ASSUME NEW from \in Nat \ {0}, NEW i \in Nat, i >= from, NEW j \in 1 .. from - 1
  PROVE  j \in 1 .. i - 1
OBVIOUS

\* A skipped statement changes nothing: the inspection found what it would create, and did
\* not find what it would drop.
LEMMA SkippedChangeNothing ==
  ASSUME NEW origin \in Origins, NEW r \in 1 .. Len(Upgrades),
         NEW from \in Nat \ {0}, NEW i \in Nat, i >= from,
         i <= Len(Upgrades[r].statements) + 1,
         \A j \in from .. i - 1 : Skipped(Upgrades[r].statements[j], Meant(origin, r - 1))
  PROVE  Ahead(r, Meant(origin, r - 1), i) = Ahead(r, Meant(origin, r - 1), from)
<1> DEFINE F == Meant(origin, r - 1)
<1> HIDE DEF F
<1>1. ASSUME NEW x \in Passed(r, "create", i) PROVE x \in F \cup Passed(r, "create", from)
  <2>1. PICK j \in 1 .. i - 1 : /\ Upgrades[r].statements[j].do = "create"
                                /\ Upgrades[r].statements[j].object = x
    BY PassedMember
  <2>2. CASE j \in 1 .. from - 1
    BY <2>1, <2>2, PassedMember
  <2>3. CASE j \in from .. i - 1
    <3>1. Upgrades[r].statements[j].unless \cap Meant(origin, r - 1) # {}
      BY <2>1, <2>3 DEF Skipped
    <3>2. j \in DOMAIN Upgrades[r].statements
      BY RevisionType
    <3>3. Upgrades[r].statements[j] \in Statements(r) /\ r \in DOMAIN Upgrades
      BY <3>2, LengthType DEF Statements
    <3> QED
      BY <2>1, <3>1, <3>3, MirrorAssumption DEF MirrorAssumption, F
  <2> QED
    BY <2>2, <2>3, Between
<1>2. ASSUME NEW kind, NEW x \in Passed(r, kind, from) PROVE x \in Passed(r, kind, i)
  <2>1. PICK j \in 1 .. from - 1 : /\ Upgrades[r].statements[j].do = kind
                                   /\ Upgrades[r].statements[j].object = x
    BY PassedMember
  <2>2. j \in 1 .. i - 1
    BY Earlier
  <2> QED
    BY <2>1, <2>2, PassedMember
<1>3. ASSUME NEW x \in Passed(r, "drop", i), x \in F \cup Passed(r, "create", from)
      PROVE  x \in Passed(r, "drop", from)
  <2>1. PICK j \in 1 .. i - 1 : /\ Upgrades[r].statements[j].do = "drop"
                                /\ Upgrades[r].statements[j].object = x
    BY PassedMember
  <2>2. CASE j \in 1 .. from - 1
    BY <2>1, <2>2, PassedMember
  <2>3. CASE j \in from .. i - 1
    <3>1. x \notin F
      BY <2>1, <2>3 DEF Skipped, F
    <3>2. x \in Passed(r, "create", i)
      BY <1>2, <1>3, <3>1
    <3>3. x \in Touched("drop", r)
      BY PassedIsTouched
    <3> QED
      BY <3>2, <3>3, CreatedIsNotDropped
  <2> QED
    BY <2>2, <2>3, Between
<1> QED
  BY <1>1, <1>2, <1>3 DEF Ahead, F

\* A statement that is executed takes the schema one statement ahead.
LEMMA DoneIsAhead ==
  ASSUME NEW origin \in Origins, NEW r \in 1 .. Len(Upgrades),
         NEW i \in 1 .. Len(Upgrades[r].statements),
         schema = Ahead(r, Meant(origin, r - 1), i)
  PROVE  Done(Upgrades[r].statements[i]) = Ahead(r, Meant(origin, r - 1), i + 1)
<1> DEFINE s == Upgrades[r].statements[i]
<1>1. i \in Nat \ {0} /\ i + 1 \in Nat /\ i + 1 <= Len(Upgrades[r].statements) + 1
  BY RevisionType
<1>2. ASSUME NEW j PROVE j \in 1 .. (i + 1) - 1 <=> j \in 1 .. i - 1 \/ j = i
  BY <1>1
<1>3. ASSUME NEW kind, NEW x
      PROVE  x \in Passed(r, kind, i + 1) <=>
               x \in Passed(r, kind, i) \/ (s.do = kind /\ s.object = x)
  <2> DEFINE is(j) == /\ Upgrades[r].statements[j].do = kind
                      /\ Upgrades[r].statements[j].object = x
  <2>1. x \in Passed(r, kind, i + 1) <=> \E j \in 1 .. (i + 1) - 1 : is(j)
    BY Zenon DEF Passed
  <2>2. x \in Passed(r, kind, i) <=> \E j \in 1 .. i - 1 : is(j)
    BY Zenon DEF Passed
  <2>3. is(i) <=> s.do = kind /\ s.object = x
    OBVIOUS
  <2> HIDE DEF is, s
  <2> QED
    BY <1>2, <2>1, <2>2, <2>3
<1>4. s.do \in {"create", "drop"}
  BY RevisionType
<1>5. CASE s.do = "create"
  <2>1. s.object \notin Passed(r, "drop", i + 1)
    BY <1>1, <1>3, <1>5, PassedIsTouched, CreatedIsNotDropped
  <2> QED
    BY <1>3, <1>5, <2>1 DEF Done, Ahead
<1>6. CASE s.do = "drop"
  BY <1>3, <1>6 DEF Done, Ahead
<1> QED
  BY <1>4, <1>5, <1>6

LEMMA InTwoParts ==
  ASSUME NEW found, NEW made1, NEW gone1, NEW made2, NEW gone2, NEW made, NEW gone,
         made = made1 \cup made2, gone = gone1 \cup gone2, made2 \cap gone = {}
  PROVE  (((found \cup made1) \ gone1) \cup made2) \ gone2 = (found \cup made) \ gone
OBVIOUS

\* A revision whose statements have all been passed is what it was meant to be.
LEMMA PassedIsMeant ==
  ASSUME NEW origin \in Origins, NEW r \in 1 .. Len(Upgrades)
  PROVE  Ahead(r, Meant(origin, r - 1), Len(Upgrades[r].statements) + 1) = Meant(origin, r)
<1> DEFINE n == Len(Upgrades[r].statements)
<1>1. n \in Nat /\ r \in Nat /\ r >= 1 /\ (n + 1) - 1 = n
  BY RevisionType, LengthType
<1>2. ASSUME NEW kind, NEW x
      PROVE  x \in Touched(kind, r) <=> x \in Touched(kind, r - 1) \/ x \in Passed(r, kind, n + 1)
  <2>1. ASSUME NEW q PROVE q \in 1 .. r <=> q \in 1 .. r - 1 \/ q = r
    BY <1>1
  <2>2. (\E t \in Statements(r) : t.do = kind /\ t.object = x) <=> x \in Passed(r, kind, n + 1)
    <3>1. DOMAIN Upgrades[r].statements = 1 .. n
      BY RevisionType
    <3>2. (\E t \in Statements(r) : t.do = kind /\ t.object = x) <=>
            \E j \in 1 .. n : /\ Upgrades[r].statements[j].do = kind
                              /\ Upgrades[r].statements[j].object = x
      BY <3>1 DEF Statements
    <3> QED
      BY <1>1, <3>2, PassedMember
  <2> QED
    BY <2>1, <2>2, TouchedMember
<1>3. ASSUME NEW x \in Passed(r, "create", n + 1) PROVE x \notin Touched("drop", r)
  <2>1. n + 1 \in Nat /\ n + 1 <= Len(Upgrades[r].statements) + 1
    BY <1>1
  <2> HIDE DEF n
  <2>2. QED
    BY <1>3, <2>1, CreatedIsNotDropped
<1>4. Ahead(r, Meant(origin, r - 1), n + 1) = Meant(origin, r)
  <2> HIDE DEF n
  <2> DEFINE made1 == Touched("create", r - 1)
             gone1 == Touched("drop", r - 1)
             made2 == Passed(r, "create", n + 1)
             gone2 == Passed(r, "drop", n + 1)
             made == Touched("create", r)
             gone == Touched("drop", r)
  <2>1. made = made1 \cup made2 /\ gone = gone1 \cup gone2
    BY <1>2
  <2>2. made2 \cap gone = {}
    BY <1>3
  <2>3. /\ Meant(origin, r) = (origin \cup made) \ gone
        /\ Meant(origin, r - 1) = (origin \cup made1) \ gone1
        /\ \A found : Ahead(r, found, n + 1) = (found \cup made2) \ gone2
    BY DEF Meant, Ahead
  <2> HIDE DEF made1, gone1, made2, gone2, made, gone
  <2>4. (((origin \cup made1) \ gone1) \cup made2) \ gone2 = (origin \cup made) \ gone
    BY <2>1, <2>2, InTwoParts
  <2> QED
    BY <2>3, <2>4
<1> QED
  BY <1>4

LEMMA MirrorsInspect == ASSUME IInv, Mirrors, Inspect PROVE Mirrors'
<1> SUFFICES ASSUME ~ torn
             PROVE  \E origin \in Origins :
                      /\ at' = 0 => schema' = Meant(origin, version')
                      /\ at' > 0 => /\ seen' = Meant(origin, version')
                                    /\ schema' = Ahead(version' + 1, Meant(origin, version'), at')
  BY DEF Inspect, Mirrors
<1> DEFINE r == version + 1
<1>1. /\ version \in Nat /\ r \in 1 .. Len(Upgrades) /\ r - 1 = version
      /\ seen' = schema /\ schema' = schema /\ version' = version
  BY LengthType DEF Inspect, IInv, UpgradeTypeOK, database
<1>2. PICK origin \in Origins : schema = Meant(origin, version)
  BY DEF Inspect, Mirrors
<1>3. /\ at' \in Nat /\ at' >= 1 /\ at' <= Len(Upgrades[r].statements) + 1
      /\ \A j \in 1 .. at' - 1 : Skipped(Upgrades[r].statements[j], schema)
  BY ReachesType DEF Inspect, IInv
<1>4. version' + 1 = r /\ ~ (at' = 0)
  BY <1>1, <1>3
<1> HIDE DEF r
<1>5. Ahead(r, Meant(origin, version), 1) = Meant(origin, version)
  BY PassedMember DEF Ahead
<1>6. Ahead(r, Meant(origin, version), at') = Ahead(r, Meant(origin, version), 1)
  <2>1. \A j \in 1 .. at' - 1 : Skipped(Upgrades[r].statements[j], Meant(origin, r - 1))
    BY <1>1, <1>2, <1>3
  <2>2. 1 \in Nat \ {0} /\ r \in 1 .. Len(Upgrades) /\ r - 1 = version
    BY <1>1
  <2>3. Ahead(r, Meant(origin, r - 1), at') = Ahead(r, Meant(origin, r - 1), 1)
    BY <1>3, <2>1, <2>2, SkippedChangeNothing
  <2> QED
    BY <2>2, <2>3
<1> QED
  BY <1>1, <1>2, <1>4, <1>5, <1>6

LEMMA MirrorsExecute == ASSUME IInv, Mirrors, Execute PROVE Mirrors'
<1> SUFFICES ASSUME ~ torn
             PROVE  \E origin \in Origins :
                      /\ at' = 0 => schema' = Meant(origin, version')
                      /\ at' > 0 => /\ seen' = Meant(origin, version')
                                    /\ schema' = Ahead(version' + 1, Meant(origin, version'), at')
  BY DEF Execute, Mirrors
<1> DEFINE r == version + 1
<1>1. /\ version \in Nat /\ r \in 1 .. Len(Upgrades) /\ r - 1 = version
      /\ seen' = seen /\ version' = version /\ version < Len(Upgrades)
  BY LengthType DEF Execute, IInv, UpgradeTypeOK
<1>2. at \in 1 .. Len(Upgrades[r].statements) /\ at > 0 /\ at + 1 \in Nat \ {0}
  <2>1. at \in 1 .. Len(Upgrades[r].statements) /\ Len(Upgrades[r].statements) \in Nat
    BY <1>1, RevisionType DEF Execute
  <2> QED
    BY <2>1
<1>3. PICK origin \in Origins :
        seen = Meant(origin, version) /\ schema = Ahead(r, Meant(origin, version), at)
  BY <1>2 DEF Mirrors
<1>4. /\ at' \in Nat /\ at' >= at + 1 /\ at' <= Len(Upgrades[r].statements) + 1
      /\ \A j \in at + 1 .. at' - 1 : Skipped(Upgrades[r].statements[j], seen)
  BY <1>1, <1>2, ReachesType DEF Execute, IInv
<1>5. schema' = Done(Upgrades[r].statements[at])
  BY DEF Execute
<1> HIDE DEF r
<1>6. schema' = Ahead(r, Meant(origin, version), at + 1)
  BY <1>1, <1>2, <1>3, <1>5, DoneIsAhead
<1>7. Ahead(r, Meant(origin, version), at') = Ahead(r, Meant(origin, version), at + 1)
  BY <1>1, <1>2, <1>3, <1>4, SkippedChangeNothing
<1>8. ~ (at' = 0) /\ version' + 1 = r
  BY <1>1, <1>2, <1>4 DEF r
<1> QED
  BY <1>1, <1>3, <1>6, <1>7, <1>8

LEMMA MirrorsStamp == ASSUME IInv, Mirrors, Stamp PROVE Mirrors'
<1> SUFFICES ASSUME ~ torn
             PROVE  \E origin \in Origins : schema' = Meant(origin, version')
  BY DEF Stamp, Mirrors
<1> DEFINE r == version + 1
<1>1. /\ version \in Nat /\ r \in 1 .. Len(Upgrades) /\ r - 1 = version
      /\ version' = r /\ schema' = schema
  BY LengthType DEF Stamp, IInv, UpgradeTypeOK
<1>2. at = Len(Upgrades[r].statements) + 1 /\ at > 0
  BY <1>1, RevisionType DEF Stamp
<1>3. PICK origin \in Origins : schema = Ahead(r, Meant(origin, version), at)
  BY <1>2 DEF Mirrors
<1> HIDE DEF r
<1>4. schema = Meant(origin, r)
  BY <1>1, <1>2, <1>3, PassedIsMeant
<1> QED
  BY <1>1, <1>4

\* Every step but a cut amid statements leaves the schema at what is meant.
LEMMA MirrorsInductive == IInv /\ Mirrors /\ [UpgradeNext]_migration => Mirrors'
<1> SUFFICES ASSUME IInv, Mirrors, [UpgradeNext]_migration PROVE Mirrors'
  OBVIOUS
<1>1. CASE Inspect \/ Execute \/ Stamp
  BY <1>1, MirrorsInspect, MirrorsExecute, MirrorsStamp
<1>2. CASE Begin \/ Finish \/ RestoreWireguard \/ Administer \/ UNCHANGED migration
  BY <1>2 DEF Begin, Finish, RestoreWireguard, Administer, FirstAdministrator, CreateUser,
              DeleteUser, migration, database, progress, Mirrors
<1>3. CASE Cut
  <2>1. at \in Nat /\ torn \in BOOLEAN
    BY DEF IInv, UpgradeTypeOK
  <2>2. /\ at' = 0 /\ schema' = schema /\ version' = version
        /\ torn' <=> torn \/ (at > 0 /\ schema # seen)
    BY <1>3 DEF Cut, database
  <2> QED
    BY <2>1, <2>2 DEF Mirrors
<1> QED
  BY <1>1, <1>2, <1>3 DEF UpgradeNext, Work

\* An upgrade none of whose revisions was cut off half done ends in the schema of the
\* models: for any revisions, from any origin, and with any number of starts that ended
\* before, between or after their revisions.
THEOREM UninterruptedUpgradesMirror == UpgradeSpec => []UninterruptedMirrorsModels
<1>1. UpgradeInit => Mirrors
  <2> SUFFICES ASSUME UpgradeInit PROVE schema = Meant(schema, 0) /\ schema \in Origins /\ ~ (at > 0) /\ version = 0
    BY DEF Mirrors
  <2>1. \A kind : Touched(kind, 0) = {}
    BY TouchedMember
  <2> QED
    BY <2>1 DEF UpgradeInit, Meant
<1>2. IInv /\ Mirrors => UninterruptedMirrorsModels
  <2> SUFFICES ASSUME IInv, Mirrors, api = "serving", ~ torn PROVE schema = Models
    BY DEF UninterruptedMirrorsModels
  <2>1. at = 0 /\ version = Len(Upgrades)
    BY DEF IInv, UpgradeTypeOK, Past
  <2>2. PICK origin \in Origins : schema = Meant(origin, version)
    BY <2>1 DEF Mirrors
  <2> QED
    BY <2>1, <2>2, MirrorAssumption DEF MirrorAssumption
<1> QED
  BY <1>1, <1>2, Invariant, MirrorsInductive, PTL DEF UpgradeSpec

----------------------------------------------------------------------------
(* Starts that are cut off anywhere.                                       *)

\* What follows something needed is never there without it, nor was it for the inspection.
InOrder ==
  \A object, table : table \in Needed /\ Follows(object, table) =>
    (object \in schema => table \in schema) /\ (object \in seen => table \in seen)

\* Beyond what the inspection found there is only what the revision has created since; and
\* the statement that comes next is none it has to skip.
Fresh ==
  at > 0 =>
    LET statements == Upgrades[version + 1].statements IN
    /\ \A object \in schema \ seen :
         \E j \in 1 .. at - 1 : statements[j].do = "create" /\ statements[j].object = object
    /\ at \in DOMAIN statements => ~ Skipped(statements[at], seen)

LEMMA InOrderExecute == ASSUME IInv, InOrder, Execute PROVE InOrder'
<1> SUFFICES ASSUME NEW object, NEW table \in Needed, Follows(object, table),
                    object \in schema'
             PROVE  table \in schema'
  BY DEF Execute, InOrder
<1> DEFINE r == version + 1
           s == Upgrades[r].statements[at]
<1>1. r \in 1 .. Len(Upgrades) /\ at \in 1 .. Len(Upgrades[r].statements) /\ at > 0
  <2>1. r \in 1 .. Len(Upgrades)
    BY LengthType DEF Execute, IInv, UpgradeTypeOK
  <2>2. at \in 1 .. Len(Upgrades[r].statements) /\ Len(Upgrades[r].statements) \in Nat
    BY <2>1, RevisionType DEF Execute
  <2> QED
    BY <2>1, <2>2
<1>2. schema' = Done(s)
  BY DEF Execute
<1>3. CASE object \in schema
  <2>1. table \in schema
    BY <1>3 DEF InOrder
  <2> QED
    BY <1>1, <1>2, <2>1, NeededIsKept
<1>4. CASE object \notin schema
  <2>1. s.do = "create" /\ s.object = object
    BY <1>1, <1>2, <1>4, RevisionType DEF Done
  <2>2. r \in DOMAIN Upgrades /\ at \in DOMAIN Upgrades[r].statements
    BY <1>1, RevisionType, LengthType
  <2>3. PICK j \in 1 .. at - 1 : Upgrades[r].statements[j] = Own(table)
    BY <2>1, <2>2 DEF Follows
  <2>4. table \in schema
    BY <1>1, <2>3 DEF IInv, Built
  <2> QED
    BY <1>1, <1>2, <2>4, NeededIsKept
<1> QED
  BY <1>3, <1>4

LEMMA FreshInspect == ASSUME IInv, Inspect PROVE Fresh'
<1>1. /\ version' = version /\ schema' = schema /\ seen' = schema
      /\ Reaches(at', 1, schema)
  BY DEF Inspect, database
<1> QED
  BY <1>1 DEF Fresh, Reaches

LEMMA FreshExecute == ASSUME IInv, Fresh, Execute PROVE Fresh'
<1> DEFINE r == version + 1
           statements == Upgrades[r].statements
<1>1. /\ r \in 1 .. Len(Upgrades) /\ at \in 1 .. Len(statements) /\ at > 0 /\ at \in Nat
      /\ version < Len(Upgrades) /\ at + 1 \in Nat \ {0}
  <2>1. r \in 1 .. Len(Upgrades) /\ version < Len(Upgrades)
    BY LengthType DEF Execute, IInv, UpgradeTypeOK
  <2>2. at \in 1 .. Len(statements) /\ Len(statements) \in Nat
    BY <2>1, RevisionType DEF Execute
  <2> QED
    BY <2>1, <2>2
<1>2. /\ version' = version /\ seen' = seen /\ schema' = Done(statements[at])
      /\ Reaches(at', at + 1, seen)
  BY DEF Execute
<1>3. at' \in Nat /\ at' >= at + 1
  BY <1>1, <1>2, ReachesType DEF IInv
<1>4. at' \in DOMAIN statements => ~ Skipped(statements[at'], seen)
  BY <1>2 DEF Reaches
<1>5. at \in Nat \ {0} /\ at' \in Nat /\ at' >= at /\ at \in 1 .. at' - 1
  <2>1. at \in Nat \ {0}
    BY <1>1
  <2> QED
    BY <2>1, <1>3, Passing
<1>6. ASSUME NEW object \in schema' \ seen
      PROVE  \E j \in 1 .. at' - 1 : statements[j].do = "create" /\ statements[j].object = object
  <2>1. CASE object \in schema
    <3>1. PICK j \in 1 .. at - 1 : statements[j].do = "create" /\ statements[j].object = object
      BY <1>1, <1>6, <2>1 DEF Fresh
    <3>2. j \in 1 .. at' - 1
      BY <1>5, Earlier
    <3> QED
      BY <3>1, <3>2
  <2>2. CASE object \notin schema
    <3>1. statements[at].do = "create" /\ statements[at].object = object
      BY <1>1, <1>2, <1>6, <2>2, RevisionType DEF Done
    <3>2. at \in 1 .. at' - 1
      BY <1>5
    <3> QED
      BY <3>1, <3>2
  <2> QED
    BY <2>1, <2>2
<1> QED
  BY <1>2, <1>4, <1>6 DEF Fresh

\* No start, cut off or not, leaves an index without its table.
LEMMA OrderInductive ==
  IInv /\ InOrder /\ Fresh /\ [UpgradeNext]_migration => InOrder' /\ Fresh'
<1> SUFFICES ASSUME IInv, InOrder, Fresh, [UpgradeNext]_migration PROVE InOrder' /\ Fresh'
  OBVIOUS
<1>1. CASE Inspect
  BY <1>1, FreshInspect DEF Inspect, database, InOrder
<1>2. CASE Execute
  BY <1>2, InOrderExecute, FreshExecute
<1>3. CASE Stamp \/ Cut
  <2>1. schema' = schema /\ seen' = {} /\ ~ (at' > 0)
    BY <1>3 DEF Stamp, Cut, database
  <2> QED
    BY <2>1 DEF InOrder, Fresh
<1>4. CASE Begin \/ Finish \/ RestoreWireguard \/ Administer \/ UNCHANGED migration
  BY <1>4 DEF Begin, Finish, RestoreWireguard, Administer, FirstAdministrator, CreateUser,
              DeleteUser, migration, database, progress, InOrder, Fresh
<1> QED
  BY <1>1, <1>2, <1>3, <1>4 DEF UpgradeNext, Work

\* No start ever comes to a statement that creates what is there already, wherever the starts
\* before it were cut off: an interrupted upgrade does not stand in the way of the next.
THEOREM InterruptedUpgradesGoOn == UpgradeSpec => []NeverCreatedTwice
<1>1. UpgradeInit => InOrder /\ Fresh
  BY DEF UpgradeInit, InOrder, Fresh, Follows
<1>2. IInv /\ InOrder /\ Fresh => NeverCreatedTwice
  <2> DEFINE r == version + 1
             s == Upgrades[r].statements[at]
  <2> SUFFICES ASSUME IInv, InOrder, Fresh, version < Len(Upgrades),
                      at \in DOMAIN Upgrades[r].statements, s.do = "create", s.object \in schema
               PROVE  FALSE
    BY DEF NeverCreatedTwice
  <2>1. /\ r \in 1 .. Len(Upgrades) /\ r \in DOMAIN Upgrades
        /\ at \in 1 .. Len(Upgrades[r].statements) /\ at > 0
    <3>1. r \in 1 .. Len(Upgrades) /\ r \in DOMAIN Upgrades
      BY LengthType DEF IInv, UpgradeTypeOK
    <3>2. at \in 1 .. Len(Upgrades[r].statements) /\ Len(Upgrades[r].statements) \in Nat
      BY <3>1, RevisionType
    <3> QED
      BY <3>1, <3>2
  <2>2. s.unless \cap seen = {}
    BY <2>1 DEF Fresh, Skipped
  <2>3. CASE s.object \in seen
    <3>1. s.object \notin s.unless
      BY <2>2, <2>3
    <3>2. PICK table \in s.unless \cap Needed : Follows(s.object, table)
      BY <2>1, <3>1, RepeatableAssumption DEF RepeatableAssumption
    <3>3. table \in seen
      BY <2>3, <3>2 DEF InOrder
    <3> QED
      BY <2>2, <3>2, <3>3
  <2>4. CASE s.object \notin seen
    <3>1. PICK j \in 1 .. at - 1 : /\ Upgrades[r].statements[j].do = "create"
                                   /\ Upgrades[r].statements[j].object = s.object
      BY <2>1, <2>4 DEF Fresh
    <3>2. j \in DOMAIN Upgrades[r].statements /\ j # at
      BY <2>1, RevisionType
    <3> QED
      BY <2>1, <3>1, <3>2, RepeatableAssumption DEF RepeatableAssumption
  <2> QED
    BY <2>3, <2>4
<1> QED
  BY <1>1, <1>2, Invariant, OrderInductive, PTL DEF UpgradeSpec
=============================================================================
