---------------------- MODULE SupportRefinementProofs ----------------------
(***************************************************************************)
(* SupportRequests keeps the ledger of Consent for any number of workers,  *)
(* and the strict lifecycle when handlers run one at a time.               *)
(***************************************************************************)
EXTENDS SupportRequestsProofs

----------------------------------------------------------------------------
(* What one audit event adds to the ledger.                                *)

\* Every existing request has its creation on record.
AskedRecorded ==
  \A r \in Requests : request[r].state # "none" => "pending" \in Recorded[r]

\* An event about a device changes no request's ledger.
LEMMA DeviceEventKeepsLedger ==
  ASSUME TypeOK, NEW p \in Principals, NEW a \in Actions, NEW d \in Devices, Audit(p, a, d)
  PROVE  Recorded' = Recorded
<1>1. d \in Devices \cup Requests /\ d \notin Requests
  BY NobodyAssumption
<1>2. /\ \A i \in DOMAIN audits : i \in DOMAIN audits' /\ audits'[i] = audits[i]
      /\ \A i \in DOMAIN audits' : i \in DOMAIN audits \/ i = Len(audits')
      /\ audits'[Len(audits')] =
           [tenant |-> p.tenant, actor |-> p.subject, action |-> a, target |-> d]
  BY <1>1, AuditAppends
<1>3. ASSUME NEW r \in Requests, NEW s
      PROVE  (\E i \in DOMAIN audits : audits[i].target = r /\ audits[i].action = ActionOf[s])
             <=> (\E i \in DOMAIN audits' : audits'[i].target = r /\ audits'[i].action = ActionOf[s])
  BY <1>1, <1>2
<1>4. QED
  BY <1>3 DEF Recorded

\* The event of state s about request q adds exactly s to the ledger of q.
LEMMA StateEventIsRecorded ==
  ASSUME TypeOK, NEW p \in Principals, NEW s \in States \ {"none"}, NEW q \in Requests,
         Audit(p, ActionOf[s], q)
  PROVE  Recorded' = [Recorded EXCEPT ![q] = @ \cup {s}]
<1>1. q \in Devices \cup Requests /\ ActionOf[s] \in Actions
  BY ActionOfType
<1>2. /\ \A i \in DOMAIN audits : i \in DOMAIN audits' /\ audits'[i] = audits[i]
      /\ \A i \in DOMAIN audits' : i \in DOMAIN audits \/ i = Len(audits')
      /\ audits'[Len(audits')] =
           [tenant |-> p.tenant, actor |-> p.subject, action |-> ActionOf[s], target |-> q]
      /\ audits' \in Seq(AuditRows) /\ Len(audits') = Len(audits) + 1
  BY <1>1, AuditAppends
<1>3. Len(audits') \in DOMAIN audits'
  BY <1>2 DEF TypeOK
<1>4. \A t \in States \ {"none"} : ActionOf[t] = ActionOf[s] => t = s
  BY DEF States, ActionOf
<1>5. ASSUME NEW r \in Requests, NEW t \in States \ {"none"}
      PROVE  (\E i \in DOMAIN audits' : audits'[i].target = r /\ audits'[i].action = ActionOf[t])
             <=> \/ \E i \in DOMAIN audits : audits[i].target = r /\ audits[i].action = ActionOf[t]
                 \/ r = q /\ t = s
  BY <1>2, <1>3, <1>4
<1>6. ASSUME NEW r \in Requests
      PROVE  Recorded'[r] = IF r = q THEN Recorded[r] \cup {s} ELSE Recorded[r]
  BY <1>5, <1>6 DEF Recorded
<1>7. Recorded' = [r \in Requests |-> Recorded'[r]]
      /\ Recorded = [r \in Requests |-> Recorded[r]]
  BY DEF Recorded
<1>8. QED
  BY <1>6, <1>7
----------------------------------------------------------------------------
(* The ledger holds for any number of workers.                             *)

\* The mapped phase of every request.
Phase == [r \in Requests |-> request[r].state]

\* A step either leaves phases and ledger alone, or gives one request a state, with its
\* event, that follows a state on record.
LEMMA StepMapsToLedger ==
  ASSUME IInv, AskedRecorded, [Next]_vars
  PROVE  \/ Phase' = Phase /\ Recorded' = Recorded
         \/ \E q \in Requests, s \in States \ {"none"} :
              /\ \E t \in Recorded[q] : <<t, s>> \in ConsentModel!Follows
              /\ Phase' = [Phase EXCEPT ![q] = s]
              /\ Recorded' = [Recorded EXCEPT ![q] = @ \cup {s}]
<1> DEFINE Goal ==
      \/ Phase' = Phase /\ Recorded' = Recorded
      \/ \E q \in Requests, s \in States \ {"none"} :
           /\ \E t \in Recorded[q] : <<t, s>> \in ConsentModel!Follows
           /\ Phase' = [Phase EXCEPT ![q] = s]
           /\ Recorded' = [Recorded EXCEPT ![q] = @ \cup {s}]
<1>1. TypeOK /\ TxSound
  BY DEF IInv
<1>2. ASSUME request' = request, audits' = audits
      PROVE  Goal
  BY <1>2 DEF Phase, Recorded
<1>3. ASSUME NEW p \in Principals, NEW d \in Devices, CreateDevice(p, d)
      PROVE  Goal
  <2>1. Recorded' = Recorded
    BY <1>1, <1>3, DeviceEventKeepsLedger DEF CreateDevice, Actions
  <2>2. QED
    BY <1>3, <2>1 DEF CreateDevice, Phase
<1>4. ASSUME NEW w \in Workers, WriteRevocation(w)
      PROVE  Goal
  <2>1. tx[w].by \in Principals /\ tx[w].on \in Devices
    BY <1>1, <1>4 DEF TxSound, TxOk, WriteRevocation
  <2>2. Recorded' = Recorded
    BY <1>1, <1>4, <2>1, DeviceEventKeepsLedger DEF WriteRevocation, Actions
  <2>3. QED
    BY <1>4, <2>2 DEF WriteRevocation, Phase
<1>5. ASSUME NEW w \in Workers, NEW r \in Requests, WriteRequest(w, r)
      PROVE  Goal
  <2>1. tx[w].by \in Principals /\ tx[w].state = "pending"
    BY <1>1, <1>5 DEF TxSound, TxOk, WriteRequest
  <2>2. "pending" \in States \ {"none"}
    BY DEF States
  <2>3. Recorded' = [Recorded EXCEPT ![r] = @ \cup {"pending"}]
    BY <1>1, <1>5, <2>1, <2>2, StateEventIsRecorded DEF WriteRequest
  <2>4. Phase' = [Phase EXCEPT ![r] = "pending"]
    BY <1>1, <1>5, <2>1 DEF WriteRequest, Phase, TypeOK
  <2>5. "none" \in Recorded[r] /\ <<"none", "pending">> \in ConsentModel!Follows
    BY DEF Recorded, ConsentModel!Follows
  <2>6. QED
    BY <2>2, <2>3, <2>4, <2>5
<1>6. ASSUME NEW w \in Workers, WriteDecision(w) \/ WriteEnd(w)
      PROVE  Goal
  <2> DEFINE q == tx[w].on
             s == tx[w].state
  <2>1. /\ tx[w].by \in Principals /\ q \in Requests
        /\ request[q].state # "none"
        /\ \/ s \in {"accepted", "denied", "expired"}
           \/ s = "ended" /\ ConsentOnRecord(q)
        /\ request' = [request EXCEPT ![q].state = s]
        /\ Audit(tx[w].by, ActionOf[s], q)
    BY <1>1, <1>6 DEF TxSound, TxOk, WriteDecision, WriteEnd
  <2> HIDE DEF q, s
  <2>2. s \in States \ {"none"}
    BY <2>1 DEF States
  <2>3. Recorded' = [Recorded EXCEPT ![q] = @ \cup {s}]
    BY <1>1, <2>1, <2>2, StateEventIsRecorded
  <2>4. Phase' = [Phase EXCEPT ![q] = s]
    BY <1>1, <2>1 DEF Phase, TypeOK, RequestRows
  <2>5. CASE s = "ended"
    <3>1. "accepted" \in Recorded[q]
      BY <2>1, <2>5 DEF ConsentOnRecord, Recorded, ActionOf, States
    <3>2. <<"accepted", s>> \in ConsentModel!Follows
      BY <2>5 DEF ConsentModel!Follows
    <3>3. QED
      BY <2>1, <2>2, <2>3, <2>4, <3>1, <3>2
  <2>6. CASE s \in {"accepted", "denied", "expired"}
    <3>1. "pending" \in Recorded[q] /\ <<"pending", s>> \in ConsentModel!Follows
      BY <2>1, <2>6 DEF AskedRecorded, ConsentModel!Follows
    <3>2. QED
      BY <2>1, <2>2, <2>3, <2>4, <3>1
  <2>7. QED
    BY <2>1, <2>5, <2>6
<1>7. QED
  BY <1>2, <1>3, <1>4, <1>5, <1>6
  DEF Next, Handler, vars, ReadRevocation, ReadTarget, ReadDecision, CheckDeadline, ReadEnd,
      Abort, Tick

\* Every existing request was recorded as asked for.
LEMMA AlwaysAsked == Spec => []AskedRecorded
<1>1. Init => AskedRecorded
  BY DEF Init, NoRequest, AskedRecorded
<1>2. IInv /\ AskedRecorded /\ [Next]_vars => AskedRecorded'
  <2> SUFFICES ASSUME IInv, AskedRecorded, [Next]_vars, NEW r \in Requests,
                      request'[r].state # "none"
               PROVE  "pending" \in Recorded'[r]
    BY DEF AskedRecorded
  <2>1. CASE Phase' = Phase /\ Recorded' = Recorded
    BY <2>1 DEF AskedRecorded, Phase
  <2>2. ASSUME NEW q \in Requests, NEW s \in States \ {"none"}, NEW t \in Recorded[q],
               <<t, s>> \in ConsentModel!Follows, Phase' = [Phase EXCEPT ![q] = s],
               Recorded' = [Recorded EXCEPT ![q] = @ \cup {s}]
        PROVE  "pending" \in Recorded'[r]
    <3>1. request'[r].state = IF r = q THEN s ELSE request[r].state
      BY <2>2 DEF Phase
    <3>2. Recorded'[r] = IF r = q THEN Recorded[r] \cup {s} ELSE Recorded[r]
      BY <2>2 DEF Recorded
    <3>3. CASE r = q /\ s # "pending" /\ request[r].state = "none"
      <4>1. t # "none"
        BY <2>2, <3>3 DEF ConsentModel!Follows
      <4>2. PICK i \in DOMAIN audits : audits[i].target = r
        BY <2>2, <3>3, <4>1 DEF Recorded
      <4>3. QED
        BY <3>3, <4>2 DEF IInv, LogSound
    <3>4. QED
      BY <3>1, <3>2, <3>3 DEF AskedRecorded
  <2>3. QED
    BY <2>1, <2>2, StepMapsToLedger
<1>3. QED
  BY <1>1, <1>2, Invariant, PTL DEF Spec

\* With any number of concurrent handlers, the requests and their audit events keep the
\* ledger of Consent: no state without the one it has to follow on record.
THEOREM ImplementsLedger == Spec => KeepsLedger
<1>1. Init => ConsentModel!Init
  BY DEF Init, NoRequest, Recorded, ConsentModel!Init, ConsentModel!Phases
<1>2. IInv /\ AskedRecorded /\ [Next]_vars => [ConsentModel!LedgerNext]_<<Phase, Recorded>>
  <2> SUFFICES ASSUME IInv, AskedRecorded, [Next]_vars
               PROVE  [ConsentModel!LedgerNext]_<<Phase, Recorded>>
    OBVIOUS
  <2>1. \A s \in States : s \in ConsentModel!Phases
    BY DEF States, ConsentModel!Phases
  <2>2. QED
    BY <2>1, StepMapsToLedger DEF ConsentModel!LedgerNext, ConsentModel!Record, Phase
<1>3. QED
  BY <1>1, <1>2, Invariant, AlwaysAsked, PTL
  DEF Spec, KeepsLedger, ConsentModel!LedgerSpec, Phase
----------------------------------------------------------------------------
(* The last event about a request tells its state.                         *)

\* The last event about request r is that of its present state.
LastEventTells(r) ==
  \E i \in DOMAIN audits :
    /\ audits[i].target = r /\ audits[i].action = ActionOf[request[r].state]
    /\ \A j \in i+1 .. Len(audits) : audits[j].target # r

\* An event about something else leaves the last event about r and its state in place.
LEMMA OtherEventKeepsLast ==
  ASSUME TypeOK, NEW p \in Principals, NEW a \in Actions, NEW t \in Devices \cup Requests,
         Audit(p, a, t), NEW r \in Requests, r # t, request'[r].state = request[r].state,
         LastEventTells(r)
  PROVE  LastEventTells(r)'
<1>1. /\ \A i \in DOMAIN audits : i \in DOMAIN audits' /\ audits'[i] = audits[i]
      /\ audits'[Len(audits')] =
           [tenant |-> p.tenant, actor |-> p.subject, action |-> a, target |-> t]
      /\ Len(audits') = Len(audits) + 1
  BY AuditAppends
<1>2. PICK i \in DOMAIN audits :
        /\ audits[i].target = r /\ audits[i].action = ActionOf[request[r].state]
        /\ \A j \in i+1 .. Len(audits) : audits[j].target # r
  BY DEF LastEventTells
<1>3. DOMAIN audits = 1 .. Len(audits) /\ Len(audits) \in Nat
  BY DEF TypeOK
<1>4. ASSUME NEW j \in i+1 .. Len(audits')
      PROVE  audits'[j].target # r
  <2>1. CASE j = Len(audits')
    BY <1>1, <2>1
  <2>2. CASE j # Len(audits')
    <3>1. j \in DOMAIN audits /\ j \in i+1 .. Len(audits)
      BY <1>1, <1>3, <2>2
    <3>2. QED
      BY <1>1, <1>2, <3>1
  <2>3. QED
    BY <2>1, <2>2
<1>5. QED
  BY <1>1, <1>2, <1>4 DEF LastEventTells

\* The event of the new state of q becomes the last one about q.
LEMMA OwnEventIsLast ==
  ASSUME TypeOK, NEW p \in Principals, NEW s \in States \ {"none"}, NEW q \in Requests,
         Audit(p, ActionOf[s], q), request'[q].state = s
  PROVE  LastEventTells(q)'
<1>1. /\ audits' \in Seq(AuditRows)
      /\ audits'[Len(audits')] =
           [tenant |-> p.tenant, actor |-> p.subject, action |-> ActionOf[s], target |-> q]
      /\ Len(audits') = Len(audits) + 1
  BY AuditAppends, ActionOfType
<1>2. Len(audits) \in Nat /\ DOMAIN audits' = 1 .. Len(audits')
  BY <1>1 DEF TypeOK
<1>3. Len(audits') \in DOMAIN audits' /\ Len(audits') + 1 .. Len(audits') = {}
  BY <1>1, <1>2
<1>4. QED
  BY <1>1, <1>3 DEF LastEventTells

\* A committed state and its audit event are never seen one without the other.
THEOREM AuditAlwaysTellsState == Spec => []AuditTellsState
<1>1. Init => AuditTellsState
  BY DEF Init, NoRequest, AuditTellsState
<1>2. IInv /\ AuditTellsState /\ [Next]_vars => AuditTellsState'
  <2> SUFFICES ASSUME IInv, AuditTellsState, [Next]_vars, NEW r \in Requests,
                      request'[r].state # "none"
               PROVE  LastEventTells(r)'
    BY DEF AuditTellsState, LastEventTells
  <2>1. TypeOK /\ TxSound
    BY DEF IInv
  <2>2. request[r].state # "none" => LastEventTells(r)
    BY DEF AuditTellsState, LastEventTells
  <2>3. ASSUME request' = request, audits' = audits
        PROVE  LastEventTells(r)'
    BY <2>2, <2>3 DEF LastEventTells
  <2>4. ASSUME NEW p \in Principals, NEW d \in Devices, CreateDevice(p, d)
        PROVE  LastEventTells(r)'
    <3>1. r # d /\ d \in Devices \cup Requests /\ "device.registered" \in Actions
      BY NobodyAssumption DEF Actions
    <3>2. QED
      BY <2>1, <2>2, <2>4, <3>1, OtherEventKeepsLast DEF CreateDevice
  <2>5. ASSUME NEW w \in Workers, WriteRevocation(w)
        PROVE  LastEventTells(r)'
    <3>1. tx[w].by \in Principals /\ tx[w].on \in Devices
      BY <2>1, <2>5 DEF TxSound, TxOk, WriteRevocation
    <3>2. /\ r # tx[w].on /\ tx[w].on \in Devices \cup Requests
          /\ "device.revoked" \in Actions
      BY <3>1, NobodyAssumption DEF Actions
    <3>3. QED
      BY <2>1, <2>2, <2>5, <3>1, <3>2, OtherEventKeepsLast DEF WriteRevocation
  <2>6. ASSUME NEW w \in Workers, NEW q \in Requests, WriteRequest(w, q)
        PROVE  LastEventTells(r)'
    <3>1. tx[w].by \in Principals /\ tx[w].state = "pending" /\ ActionOf["pending"] \in Actions
      BY <2>1, <2>6, ActionOfType DEF TxSound, TxOk, WriteRequest, States
    <3>2. CASE r = q
      <4>1. request'[q].state = "pending" /\ "pending" \in States \ {"none"}
        BY <2>1, <2>6, <3>1 DEF WriteRequest, TypeOK, States
      <4>2. QED
        BY <2>1, <2>6, <3>1, <3>2, <4>1, OwnEventIsLast DEF WriteRequest
    <3>3. CASE r # q
      <4>1. request'[r] = request[r] /\ q \in Devices \cup Requests
        BY <2>1, <2>6, <3>3 DEF WriteRequest, TypeOK
      <4>2. QED
        BY <2>1, <2>2, <2>6, <3>1, <3>3, <4>1, OtherEventKeepsLast DEF WriteRequest
    <3>4. QED
      BY <3>2, <3>3
  <2>7. ASSUME NEW w \in Workers, WriteDecision(w) \/ WriteEnd(w)
        PROVE  LastEventTells(r)'
    <3> DEFINE q == tx[w].on
               s == tx[w].state
    <3>1. /\ tx[w].by \in Principals /\ q \in Requests /\ q \in Devices \cup Requests
          /\ s \in {"accepted", "denied", "expired", "ended"}
          /\ request' = [request EXCEPT ![q].state = s]
          /\ Audit(tx[w].by, ActionOf[s], q)
      BY <2>1, <2>7 DEF TxSound, TxOk, WriteDecision, WriteEnd
    <3> HIDE DEF q, s
    <3>2. s \in States \ {"none"} /\ ActionOf[s] \in Actions
      BY <3>1, ActionOfType DEF States
    <3>3. CASE r = q
      <4>1. request'[q].state = s
        BY <2>1, <3>1 DEF TypeOK, RequestRows
      <4>2. QED
        BY <2>1, <3>1, <3>2, <3>3, <4>1, OwnEventIsLast
    <3>4. CASE r # q
      <4>1. request'[r] = request[r]
        BY <2>1, <3>1, <3>4 DEF TypeOK
      <4>2. QED
        BY <2>1, <2>2, <3>1, <3>2, <3>4, <4>1, OtherEventKeepsLast
    <3>5. QED
      BY <3>3, <3>4
  <2>8. QED
    BY <2>3, <2>4, <2>5, <2>6, <2>7
    DEF Next, Handler, vars, ReadRevocation, ReadTarget, ReadDecision, CheckDeadline, ReadEnd,
        Abort, Tick
<1>3. QED
  BY <1>1, <1>2, Invariant, PTL DEF Spec

----------------------------------------------------------------------------
(* Handlers that never overlap.                                            *)

\* At most one handler is between its SELECT and its commit, whichever worker it has.
Serial == \A v, w \in Workers : tx[v].op # "idle" /\ tx[w].op # "idle" => v = w

\* What a handler read is still so when it writes.
SnapshotsFresh ==
  \A w \in Workers :
    /\ tx[w].op \in {"decide", "settle"} => request[tx[w].on].state = "pending"
    /\ tx[w].op = "end" => request[tx[w].on].state = "accepted"
    /\ tx[w].op = "request" => device[tx[w].on].status = "registered"

\* Without overlap nothing changes between a handler's SELECT and its commit.
LEMMA SerialSnapshots == Spec /\ []Serial => []SnapshotsFresh
<1>1. Init => SnapshotsFresh
  BY DEF Init, Idle, SnapshotsFresh
<1>2. IInv /\ SnapshotsFresh /\ Serial /\ Serial' /\ [Next]_vars => SnapshotsFresh'
  <2> SUFFICES ASSUME IInv, SnapshotsFresh, Serial, Serial', [Next]_vars
               PROVE  SnapshotsFresh'
    OBVIOUS
  <2>1. TypeOK /\ TxSound
    BY DEF IInv
  <2>2. ASSUME NEW w \in Workers, tx[w].op # "idle", Close(w)
        PROVE  SnapshotsFresh'
    <3>1. \A v \in Workers : tx'[v].op = "idle"
      BY <2>1, <2>2 DEF Close, Idle, TypeOK, Serial
    <3>2. QED
      BY <3>1 DEF SnapshotsFresh
  <2>3. ASSUME NEW w \in Workers, NEW op, NEW p, NEW on, NEW s, NEW e,
               Open(w, op, p, on, s, e), op # "idle"
        PROVE  tx'[w].op = op /\ tx'[w].on = on /\ \A v \in Workers \ {w} : tx'[v].op = "idle"
    BY <2>1, <2>3 DEF Open, TypeOK, Serial
  <2>4. ASSUME NEW p \in Principals, NEW d \in Devices, CreateDevice(p, d)
        PROVE  SnapshotsFresh'
    BY <2>1, <2>4 DEF CreateDevice, TypeOK, SnapshotsFresh, TxSound, TxOk
  <2>5. ASSUME NEW w \in Workers, NEW p \in Principals, NEW d \in Devices,
               ReadRevocation(w, p, d)
        PROVE  SnapshotsFresh'
    BY <2>3, <2>5 DEF ReadRevocation, SnapshotsFresh
  <2>6. ASSUME NEW w \in Workers, NEW p \in Principals, NEW d \in Devices, NEW l \in Lifetimes,
               ReadTarget(w, p, d, l)
        PROVE  SnapshotsFresh'
    BY <2>3, <2>6 DEF ReadTarget, SnapshotsFresh
  <2>7. ASSUME NEW w \in Workers, NEW p \in Principals, NEW r \in Requests,
               NEW accept \in BOOLEAN, ReadDecision(w, p, r, accept)
        PROVE  SnapshotsFresh'
    BY <2>3, <2>7 DEF ReadDecision, SnapshotsFresh
  <2>8. ASSUME NEW w \in Workers, CheckDeadline(w)
        PROVE  SnapshotsFresh'
    <3>1. /\ tx'[w].op = "settle" /\ tx'[w].on = tx[w].on
          /\ \A v \in Workers \ {w} : tx'[v] = tx[v]
      BY <2>1, <2>8 DEF CheckDeadline, TypeOK, Transactions
    <3>2. QED
      BY <2>8, <3>1 DEF CheckDeadline, SnapshotsFresh
  <2>9. ASSUME NEW w \in Workers, NEW p \in Principals, NEW r \in Requests, ReadEnd(w, p, r)
        PROVE  SnapshotsFresh'
    BY <2>3, <2>9 DEF ReadEnd, SnapshotsFresh
  <2>10. CASE Tick \/ UNCHANGED vars
    BY <2>10 DEF Tick, vars, SnapshotsFresh
  <2>11. QED
    BY <2>2, <2>4, <2>5, <2>6, <2>7, <2>8, <2>9, <2>10
    DEF Next, Handler, WriteRevocation, WriteRequest, WriteDecision, WriteEnd, Abort
<1>3. QED
  BY <1>1, <1>2, Invariant, PTL DEF Spec

\* Handlers that never overlap implement the strict lifecycle: the races between handlers
\* are the only way to leave a refused, expired or ended state.
THEOREM SerialHandlersKeepLifecycle == Spec /\ []Serial => KeepsLifecycle
<1>1. Init => ConsentModel!Init
  BY DEF Init, NoRequest, Recorded, ConsentModel!Init, ConsentModel!Phases
<1>2. IInv /\ SnapshotsFresh /\ [Next]_vars => [ConsentModel!StrictNext]_<<Phase, Recorded>>
  <2> SUFFICES ASSUME IInv, SnapshotsFresh, [Next]_vars
               PROVE  [ConsentModel!StrictNext]_<<Phase, Recorded>>
    OBVIOUS
  <2>1. TypeOK /\ TxSound
    BY DEF IInv
  <2>2. ASSUME NEW q \in Requests, NEW s \in States \ {"none"}, NEW p \in Principals,
               request'= [request EXCEPT ![q] = request'[q]], request'[q].state = s,
               Audit(p, ActionOf[s], q), <<request[q].state, s>> \in ConsentModel!Follows
        PROVE  ConsentModel!StrictNext
    <3>1. Recorded' = [Recorded EXCEPT ![q] = @ \cup {s}]
      BY <2>1, <2>2, StateEventIsRecorded
    <3>2. Phase' = [Phase EXCEPT ![q] = s] /\ s \in ConsentModel!Phases
      BY <2>1, <2>2 DEF Phase, TypeOK, States, ConsentModel!Phases
    <3>3. <<Phase[q], s>> \in ConsentModel!Follows
      BY <2>2 DEF Phase
    <3>4. QED
      BY <3>1, <3>2, <3>3 DEF ConsentModel!StrictNext, ConsentModel!Record, Phase
  <2>3. ASSUME NEW p \in Principals, NEW d \in Devices, NEW a \in Actions, Audit(p, a, d),
               request' = request
        PROVE  UNCHANGED <<Phase, Recorded>>
    BY <2>1, <2>3, DeviceEventKeepsLedger DEF Phase
  <2>4. ASSUME NEW p \in Principals, NEW d \in Devices, CreateDevice(p, d)
        PROVE  UNCHANGED <<Phase, Recorded>>
    BY <2>3, <2>4 DEF CreateDevice, Actions
  <2>5. ASSUME NEW w \in Workers, WriteRevocation(w)
        PROVE  UNCHANGED <<Phase, Recorded>>
    <3>1. tx[w].by \in Principals /\ tx[w].on \in Devices
      BY <2>1, <2>5 DEF TxSound, TxOk, WriteRevocation
    <3>2. QED
      BY <2>3, <2>5, <3>1 DEF WriteRevocation, Actions
  <2>6. ASSUME NEW w \in Workers, NEW r \in Requests, WriteRequest(w, r)
        PROVE  ConsentModel!StrictNext
    <3>1. tx[w].by \in Principals /\ tx[w].state = "pending"
      BY <2>1, <2>6 DEF TxSound, TxOk, WriteRequest
    <3>2. /\ request' = [request EXCEPT ![r] = request'[r]] /\ request'[r].state = "pending"
          /\ request[r].state = "none"
      BY <2>1, <2>6, <3>1 DEF WriteRequest, TypeOK
    <3>3. <<"none", "pending">> \in ConsentModel!Follows /\ "pending" \in States \ {"none"}
      BY DEF ConsentModel!Follows, States
    <3>4. QED
      BY <2>2, <2>6, <3>1, <3>2, <3>3 DEF WriteRequest
  <2>7. ASSUME NEW w \in Workers, WriteDecision(w) \/ WriteEnd(w)
        PROVE  ConsentModel!StrictNext
    <3> DEFINE q == tx[w].on
               s == tx[w].state
    <3>1. /\ tx[w].by \in Principals /\ q \in Requests
          /\ \/ s \in {"accepted", "denied", "expired"} /\ request[q].state = "pending"
             \/ s = "ended" /\ request[q].state = "accepted"
          /\ request' = [request EXCEPT ![q].state = s]
          /\ Audit(tx[w].by, ActionOf[s], q)
      BY <2>1, <2>7 DEF TxSound, TxOk, SnapshotsFresh, WriteDecision, WriteEnd
    <3> HIDE DEF q, s
    <3>2. s \in States \ {"none"} /\ <<request[q].state, s>> \in ConsentModel!Follows
      BY <3>1 DEF States, ConsentModel!Follows
    <3>3. request' = [request EXCEPT ![q] = request'[q]] /\ request'[q].state = s
      BY <2>1, <3>1 DEF TypeOK, RequestRows
    <3>4. QED
      BY <2>2, <3>1, <3>2, <3>3
  <2>8. ASSUME request' = request, audits' = audits
        PROVE  UNCHANGED <<Phase, Recorded>>
    BY <2>8 DEF Phase, Recorded
  <2>9. QED
    BY <2>4, <2>5, <2>6, <2>7, <2>8
    DEF Next, Handler, vars, ReadRevocation, ReadTarget, ReadDecision, CheckDeadline, ReadEnd,
        Abort, Tick
<1>3. QED
  BY <1>1, <1>2, Invariant, SerialSnapshots, PTL
  DEF Spec, KeepsLifecycle, ConsentModel!StrictSpec, Phase

\* What a step without overlap does to the requests.
LEMMA SerialStep ==
  ASSUME IInv, SnapshotsFresh, [Next]_vars, NEW r \in Requests, request'[r] # request[r]
  PROVE  /\ request'[r].state # "none"
         /\ request[r].state \in {"none", "pending", "accepted"}
         /\ request[r].state = "none" => device[request'[r].target].status = "registered"
         /\ request[r].state = "accepted" => request'[r].state = "ended"
<1>1. TypeOK /\ TxSound
  BY DEF IInv
<1>2. CASE request' = request
  BY <1>2
<1>3. ASSUME NEW w \in Workers, NEW q \in Requests, WriteRequest(w, q)
      PROVE  /\ request'[r].state = "pending" /\ request[r].state = "none"
             /\ device[request'[r].target].status = "registered"
  <2>1. r = q /\ tx[w].state = "pending"
    BY <1>1, <1>3 DEF WriteRequest, TypeOK, TxSound, TxOk
  <2>2. request'[r].state = tx[w].state /\ request'[r].target = tx[w].on
    BY <1>1, <1>3, <2>1 DEF WriteRequest, TypeOK
  <2>3. QED
    BY <1>3, <2>1, <2>2 DEF WriteRequest, SnapshotsFresh
<1>4. ASSUME NEW w \in Workers, WriteDecision(w) \/ WriteEnd(w)
      PROVE  \/ /\ request'[r].state \in {"accepted", "denied", "expired"}
                /\ request[r].state = "pending"
             \/ request'[r].state = "ended" /\ request[r].state = "accepted"
  <2> DEFINE q == tx[w].on
             s == tx[w].state
  <2>1. /\ q \in Requests
        /\ \/ s \in {"accepted", "denied", "expired"} /\ request[q].state = "pending"
           \/ s = "ended" /\ request[q].state = "accepted"
        /\ request' = [request EXCEPT ![q].state = s]
    BY <1>1, <1>4 DEF TxSound, TxOk, SnapshotsFresh, WriteDecision, WriteEnd
  <2> HIDE DEF q, s
  <2>2. r = q /\ request'[r].state = s
    BY <1>1, <2>1 DEF TypeOK, RequestRows
  <2>3. QED
    BY <2>1, <2>2
<1>5. QED
  BY <1>2, <1>3, <1>4
  DEF Next, Handler, vars, CreateDevice, ReadRevocation, WriteRevocation, ReadTarget,
      ReadDecision, CheckDeadline, ReadEnd, Abort, Tick

\* Without overlap a request is only created for a device that is registered when the
\* request is committed, although the device was looked up before.
THEOREM SerialRequestsTargetRegistered == Spec /\ []Serial => NewRequestsTargetRegistered
<1>1. IInv /\ SnapshotsFresh /\ [Next]_vars =>
        [\A r \in Requests : request[r].state = "none" /\ request'[r].state # "none" =>
           device[request'[r].target].status = "registered"]_vars
  BY SerialStep
<1>2. QED
  BY <1>1, Invariant, SerialSnapshots, PTL DEF Spec, NewRequestsTargetRegistered

\* Without overlap a refused, expired or ended request is never used again: the lost update
\* is the only way to do so.
THEOREM SerialRefusalIsFinal == Spec /\ []Serial => RefusalIsFinal
<1>1. IInv /\ SnapshotsFresh /\ [Next]_vars =>
        [\A r \in Requests : request[r].state \in {"denied", "expired", "ended"} =>
           request'[r].state # "accepted"]_vars
  BY SerialStep
<1>2. QED
  BY <1>1, Invariant, SerialSnapshots, PTL DEF Spec, RefusalIsFinal
=============================================================================
