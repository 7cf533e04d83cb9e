----------------------- MODULE SupportRequestsProofs -----------------------
(***************************************************************************)
(* Proofs about SupportRequests, for every set of tenants, subjects,       *)
(* devices, requests and workers.                                          *)
(***************************************************************************)
EXTENDS SupportRequests, TLAPS

----------------------------------------------------------------------------
(* The inductive invariant.  The properties are not inductive by           *)
(* themselves: what a Write step commits was computed from a snapshot, so  *)
(* the invariant says what each open transaction may still rely on.        *)

\* Every request row points to an existing device of its own tenant.
RowsSound ==
  \A r \in Requests : request[r].state # "none" =>
    /\ request[r].target \in Devices
    /\ device[request[r].target].status # "absent"
    /\ request[r].tenant = device[request[r].target].tenant

\* An event about a request has the tenant of the request, which exists.
LogSound ==
  \A i \in DOMAIN audits, r \in Requests : audits[i].target = r =>
    request[r].state # "none" /\ audits[i].tenant = request[r].tenant

\* What an open transaction still knows when it writes: facts of its snapshot that no
\* concurrent commit can take away.
TxOk(w) ==
  /\ tx[w].op # "idle" => tx[w].by \in Principals
  /\ tx[w].op \in {"request", "revoke"} =>
       /\ tx[w].on \in Devices
       /\ device[tx[w].on].status # "absent"
       /\ device[tx[w].on].tenant = tx[w].by.tenant
  /\ tx[w].op = "request" => tx[w].state = "pending"
  /\ tx[w].op \in {"decide", "settle", "end"} =>
       /\ tx[w].on \in Requests
       /\ request[tx[w].on].state # "none"
       /\ request[tx[w].on].tenant = tx[w].by.tenant
  /\ tx[w].op \in {"decide", "settle"} =>
       device[request[tx[w].on].target].owner = tx[w].by.subject
  /\ tx[w].op = "decide" =>
       /\ tx[w].state \in {"accepted", "denied"}
       /\ tx[w].expires = request[tx[w].on].expires
  /\ tx[w].op = "settle" => tx[w].state \in {"accepted", "denied", "expired"}
  /\ tx[w].op = "end" => tx[w].state = "ended" /\ ConsentOnRecord(tx[w].on)

TxSound == \A w \in Workers : TxOk(w)

IInv == TypeOK /\ RowsSound /\ LogSound /\ TxSound /\ ConsentIsRecorded

\* What no step takes away: rows are never deleted nor handed to another owner or
\* tenant, and the audit log only grows.
Frame ==
  /\ \A d \in Devices : device[d].status # "absent" =>
       /\ device'[d].status # "absent"
       /\ device'[d].tenant = device[d].tenant
       /\ device'[d].owner = device[d].owner
  /\ \A r \in Requests : request[r].state # "none" =>
       /\ request'[r].state # "none"
       /\ request'[r].tenant = request[r].tenant
       /\ request'[r].target = request[r].target
       /\ request'[r].expires = request[r].expires
  /\ \A i \in DOMAIN audits : i \in DOMAIN audits' /\ audits'[i] = audits[i]

----------------------------------------------------------------------------
(* One handler's commit.                                                   *)

\* Appending an event keeps the log a sequence of rows and every earlier event.
LEMMA AuditAppends ==
  ASSUME TypeOK, NEW p \in Principals, NEW a \in Actions, NEW t \in Devices \cup Requests,
         Audit(p, a, t)
  PROVE  /\ audits' \in Seq(AuditRows)
         /\ Len(audits') = Len(audits) + 1
         /\ \A i \in DOMAIN audits : i \in DOMAIN audits' /\ audits'[i] = audits[i]
         /\ \A i \in DOMAIN audits' : i \in DOMAIN audits \/ i = Len(audits')
         /\ audits'[Len(audits')] =
              [tenant |-> p.tenant, actor |-> p.subject, action |-> a, target |-> t]
<1> DEFINE row == [tenant |-> p.tenant, actor |-> p.subject, action |-> a, target |-> t]
<1>1. row \in AuditRows
  BY PrincipalsAssumption DEF AuditRows
<1>2. audits \in Seq(AuditRows) /\ audits' = Append(audits, row)
  BY DEF TypeOK, Audit
<1> HIDE DEF row
<1>3. /\ audits' \in Seq(AuditRows)
      /\ Len(audits') = Len(audits) + 1
      /\ audits'[Len(audits')] = row
      /\ DOMAIN audits = 1 .. Len(audits) /\ DOMAIN audits' = 1 .. Len(audits')
      /\ \A i \in 1 .. Len(audits) : audits'[i] = audits[i]
      /\ Len(audits) \in Nat
  BY <1>1, <1>2
<1>4. QED
  BY <1>3 DEF row

\* The audit action of every state is one the log may hold.
LEMMA ActionOfType == \A s \in States : ActionOf[s] \in Actions
  BY DEF Actions, ActionOf, States

\* The initial database and idle workers satisfy the invariant.
LEMMA InitIInv == Init => IInv
<1> SUFFICES ASSUME Init PROVE IInv
  OBVIOUS
<1>1. TypeOK
  BY DEF Init, TypeOK, NoDevice, NoRequest, Idle, DeviceRows, RequestRows, Transactions,
         States, Ops
<1>2. RowsSound /\ LogSound /\ TxSound /\ ConsentIsRecorded
  BY DEF Init, RowsSound, LogSound, TxSound, ConsentIsRecorded, NoRequest, Idle,
      TxOk
<1>3. QED
  BY <1>1, <1>2 DEF IInv

----------------------------------------------------------------------------
(* Every step keeps the types and the frame.                               *)

\* A step of the server keeps every variable's type and takes nothing away.
LEMMA StepKeepsTypeAndFrame ==
  ASSUME TypeOK, TxSound, [Next]_vars
  PROVE  TypeOK' /\ Frame
<1> USE DEF Close, Idle
<1>1. Idle \in Transactions
  BY DEF Transactions, Ops, States
<1>2. ASSUME NEW w \in Workers, NEW op \in Ops, NEW p \in Principals,
             NEW on \in Devices \cup Requests, NEW s \in States, NEW e \in Nat,
             Open(w, op, p, on, s, e)
      PROVE  tx' \in [Workers -> Transactions]
  BY <1>2 DEF Open, TypeOK, Transactions
<1>3. ASSUME NEW w \in Workers, Close(w)
      PROVE  tx' \in [Workers -> Transactions]
  BY <1>1, <1>3 DEF TypeOK
<1>4. ASSUME NEW p \in Principals, NEW d \in Devices, CreateDevice(p, d)
      PROVE  TypeOK' /\ Frame
  <2>1. "device.registered" \in Actions
    BY DEF Actions
  <2>2. Audit(p, "device.registered", d)
    BY <1>4 DEF CreateDevice
  <2>3. /\ audits' \in Seq(AuditRows)
        /\ \A i \in DOMAIN audits : i \in DOMAIN audits' /\ audits'[i] = audits[i]
    BY <2>1, <2>2, AuditAppends
  <2>4. QED
    BY <1>4, <2>3, PrincipalsAssumption DEF CreateDevice, TypeOK, Frame, DeviceRows
<1>5. ASSUME NEW w \in Workers, NEW p \in Principals, NEW d \in Devices,
             ReadRevocation(w, p, d)
      PROVE  TypeOK' /\ Frame
  BY <1>5, <1>2 DEF ReadRevocation, TypeOK, Frame, Ops, States
<1>6. ASSUME NEW w \in Workers, WriteRevocation(w)
      PROVE  TypeOK' /\ Frame
  <2>1. "device.revoked" \in Actions /\ tx[w].by \in Principals /\ tx[w].on \in Devices
    BY <1>6 DEF Actions, TxSound, TxOk, WriteRevocation
  <2>2. /\ audits' \in Seq(AuditRows)
        /\ \A i \in DOMAIN audits : i \in DOMAIN audits' /\ audits'[i] = audits[i]
    BY <1>6, <2>1, AuditAppends DEF WriteRevocation
  <2>3. QED
    BY <1>6, <2>1, <2>2, <1>3 DEF WriteRevocation, TypeOK, Frame, DeviceRows
<1>7. ASSUME NEW w \in Workers, NEW p \in Principals, NEW d \in Devices, NEW l \in Lifetimes,
             ReadTarget(w, p, d, l)
      PROVE  TypeOK' /\ Frame
  <2>1. clock + l \in Nat
    BY TimeAssumption DEF TypeOK
  <2>2. QED
    BY <1>7, <1>2, <2>1 DEF ReadTarget, TypeOK, Frame, Ops, States
<1>8. ASSUME NEW w \in Workers, NEW r \in Requests, WriteRequest(w, r)
      PROVE  TypeOK' /\ Frame
  <2>1. ActionOf["pending"] \in Actions
    BY ActionOfType DEF States
  <2>2. tx[w].by \in Principals /\ tx[w].on \in Devices
    BY <1>8 DEF TxSound, TxOk, WriteRequest
  <2>3. /\ audits' \in Seq(AuditRows)
        /\ \A i \in DOMAIN audits : i \in DOMAIN audits' /\ audits'[i] = audits[i]
    BY <1>8, <2>1, <2>2, AuditAppends DEF WriteRequest
  <2>4. tx[w].state \in States /\ tx[w].expires \in Nat
    BY DEF TypeOK, Transactions
  <2>5. [state |-> tx[w].state, tenant |-> tx[w].by.tenant, requester |-> tx[w].by.subject,
         target |-> tx[w].on, expires |-> tx[w].expires] \in RequestRows
    BY <2>2, <2>4, PrincipalsAssumption DEF RequestRows
  <2>6. tx' \in [Workers -> Transactions]
    BY <1>8, <1>3 DEF WriteRequest
  <2>7. request' \in [Requests -> RequestRows]
    BY <1>8, <2>5 DEF WriteRequest, TypeOK
  <2>8. \A q \in Requests : request[q].state # "none" => request'[q] = request[q]
    BY <1>8 DEF WriteRequest, TypeOK
  <2>9. QED
    BY <1>8, <2>3, <2>6, <2>7, <2>8 DEF WriteRequest, TypeOK, Frame
<1>9. ASSUME NEW w \in Workers, NEW p \in Principals, NEW r \in Requests,
             NEW accept \in BOOLEAN, ReadDecision(w, p, r, accept)
      PROVE  TypeOK' /\ Frame
  <2>1. request[r].expires \in Nat
    BY DEF TypeOK, RequestRows
  <2>2. QED
    BY <1>9, <1>2, <2>1 DEF ReadDecision, TypeOK, Frame, Ops, States
<1>10. ASSUME NEW w \in Workers, CheckDeadline(w)
       PROVE  TypeOK' /\ Frame
  <2> DEFINE s == IF tx[w].expires <= clock THEN "expired" ELSE tx[w].state
             t == [tx[w] EXCEPT !.op = "settle", !.state = s]
  <2>1. tx[w] \in Transactions /\ s \in States
    BY DEF TypeOK, Transactions, States
  <2>2. t \in Transactions
    BY <2>1 DEF Transactions, Ops
  <2>3. tx' = [tx EXCEPT ![w] = t]
    BY <1>10 DEF CheckDeadline, TypeOK
  <2>4. QED
    BY <1>10, <2>2, <2>3 DEF CheckDeadline, TypeOK, Frame
<1>11. ASSUME NEW w \in Workers, WriteDecision(w) \/ WriteEnd(w)
       PROVE  TypeOK' /\ Frame
  <2>1. tx[w].by \in Principals /\ tx[w].on \in Requests
    BY <1>11 DEF TxSound, TxOk, WriteDecision, WriteEnd
  <2>2. tx[w].state \in {"accepted", "denied", "expired", "ended"}
    BY <1>11 DEF TxSound, TxOk, WriteDecision, WriteEnd
  <2>3. ActionOf[tx[w].state] \in Actions
    BY <2>2, ActionOfType DEF States
  <2>4. /\ audits' \in Seq(AuditRows)
        /\ \A i \in DOMAIN audits : i \in DOMAIN audits' /\ audits'[i] = audits[i]
    BY <1>11, <2>1, <2>3, AuditAppends DEF WriteDecision, WriteEnd
  <2> DEFINE row == [request[tx[w].on] EXCEPT !.state = tx[w].state]
  <2>5. request[tx[w].on] \in RequestRows
    BY <2>1 DEF TypeOK
  <2>6. row \in RequestRows
    BY <2>2, <2>5 DEF RequestRows, States
  <2>7. request' = [request EXCEPT ![tx[w].on] = row]
    BY <1>11 DEF WriteDecision, WriteEnd
  <2>8. request' \in [Requests -> RequestRows]
    BY <2>6, <2>7 DEF TypeOK
  <2>9. ASSUME NEW q \in Requests, request[q].state # "none"
        PROVE  /\ request'[q].state # "none" /\ request'[q].tenant = request[q].tenant
               /\ request'[q].target = request[q].target
               /\ request'[q].expires = request[q].expires
    <3>1. CASE q = tx[w].on
      <4>1. request'[q] = row
        BY <2>7, <3>1 DEF TypeOK
      <4>2. QED
        BY <4>1, <2>2, <2>5, <3>1 DEF RequestRows
    <3>2. CASE q # tx[w].on
      BY <2>7, <2>9, <3>2 DEF TypeOK
    <3>3. QED
      BY <3>1, <3>2
  <2>10. tx' \in [Workers -> Transactions]
    BY <1>11, <1>3 DEF WriteDecision, WriteEnd
  <2>11. QED
    BY <1>11, <2>4, <2>8, <2>9, <2>10 DEF WriteDecision, WriteEnd, TypeOK, Frame
<1>12. ASSUME NEW w \in Workers, NEW p \in Principals, NEW r \in Requests, ReadEnd(w, p, r)
       PROVE  TypeOK' /\ Frame
  BY <1>12, <1>2 DEF ReadEnd, TypeOK, Frame, Ops, States
<1>13. ASSUME NEW w \in Workers, Abort(w)
       PROVE  TypeOK' /\ Frame
  BY <1>13, <1>3 DEF Abort, TypeOK, Frame
<1>14. CASE Tick
  BY <1>14 DEF Tick, TypeOK, Frame
<1>15. CASE UNCHANGED vars
  BY <1>15 DEF vars, TypeOK, Frame
<1>16. QED
  BY <1>4, <1>5, <1>6, <1>7, <1>8, <1>9, <1>10, <1>11, <1>12, <1>13, <1>14, <1>15
  DEF Next, Handler

----------------------------------------------------------------------------
(* What the frame keeps true by itself.                                    *)

\* A recorded acceptance by the owner of the target device stays on record.
LEMMA ConsentStays ==
  ASSUME TypeOK, RowsSound, Frame, NEW r \in Requests, request[r].state # "none",
         ConsentOnRecord(r)
  PROVE  ConsentOnRecord(r)'
BY DEF ConsentOnRecord, RowsSound, Frame

\* What a transaction relies on outlives the commits of all other handlers.
LEMMA TxStays ==
  ASSUME TypeOK, RowsSound, Frame, NEW w \in Workers, TxOk(w), tx'[w] = tx[w]
  PROVE  TxOk(w)'
<1>1. CASE tx[w].op \in {"request", "revoke"}
  BY <1>1 DEF TxOk, Frame
<1>2. CASE tx[w].op \in {"decide", "settle"}
  BY <1>2 DEF TxOk, Frame, RowsSound
<1>3. CASE tx[w].op = "end"
  <2>1. PICK r \in Requests : r = tx[w].on
    BY <1>3 DEF TxOk
  <2>2. request[r].state # "none" /\ ConsentOnRecord(r)
    BY <1>3, <2>1 DEF TxOk
  <2>3. ConsentOnRecord(r)'
    BY <2>2, ConsentStays
  <2>4. ConsentOnRecord(tx[w].on)'
    BY <2>1, <2>3 DEF ConsentOnRecord
  <2>5. QED
    BY <1>3, <2>4 DEF TxOk, Frame
<1>4. CASE tx[w].op = "idle"
  BY <1>4 DEF TxOk
<1>5. QED
  BY <1>1, <1>2, <1>3, <1>4 DEF TypeOK, Transactions, Ops

\* Worker w is the only one that moves, and what it relies on afterwards holds.
LEMMA OthersStay ==
  ASSUME TypeOK, RowsSound, Frame, TxSound, NEW w \in Workers, TxOk(w)',
         \A v \in Workers \ {w} : tx'[v] = tx[v]
  PROVE  TxSound'
<1>1. ASSUME NEW v \in Workers PROVE TxOk(v)'
  <2>1. CASE v = w
    BY <2>1
  <2>2. CASE v # w
    BY <2>2, TxStays DEF TxSound
  <2>3. QED
    BY <2>1, <2>2
<1>2. QED
  BY <1>1 DEF TxSound

----------------------------------------------------------------------------
(* Steps that write no request row, then the three that do.                *)

\* While no request row changes, rows stay sound and consents stay on record.
LEMMA RowsUntouched ==
  ASSUME TypeOK, RowsSound, ConsentIsRecorded, Frame, request' = request
  PROVE  RowsSound' /\ ConsentIsRecorded'
<1>1. RowsSound'
  BY DEF RowsSound, Frame
<1>2. ASSUME NEW r \in Requests, request'[r].state \in {"accepted", "ended"}
      PROVE  ConsentOnRecord(r)'
  BY <1>2, ConsentStays DEF ConsentIsRecorded
<1>3. QED
  BY <1>1, <1>2 DEF ConsentIsRecorded

\* An event about a device says nothing about requests.
LEMMA DeviceEvent ==
  ASSUME TypeOK, LogSound, request' = request, NEW p \in Principals,
         NEW a \in Actions, NEW d \in Devices, Audit(p, a, d)
  PROVE  LogSound'
<1>0. d \in Devices \cup Requests
  OBVIOUS
<1>1. /\ \A i \in DOMAIN audits : audits'[i] = audits[i]
      /\ \A i \in DOMAIN audits' : i \in DOMAIN audits \/ i = Len(audits')
      /\ audits'[Len(audits')] =
           [tenant |-> p.tenant, actor |-> p.subject, action |-> a, target |-> d]
  BY <1>0, AuditAppends
<1>2. d \notin Requests
  BY NobodyAssumption
<1>3. QED
  BY <1>1, <1>2 DEF LogSound

\* The commit of a handler that gives request q the state of its transaction, with the
\* event of that state, keeps rows, log and consents sound if an acceptance is the
\* owner's and an end follows one.
LEMMA StateCommit ==
  ASSUME TypeOK, RowsSound, LogSound, ConsentIsRecorded, Frame, TypeOK',
         NEW q \in Requests, NEW s \in {"accepted", "denied", "expired", "ended"},
         NEW p \in Principals, device' = device, request[q].state # "none",
         request' = [request EXCEPT ![q].state = s], Audit(p, ActionOf[s], q),
         p.tenant = request[q].tenant,
         s = "accepted" => device[request[q].target].owner = p.subject,
         s = "ended" => ConsentOnRecord(q)
  PROVE  RowsSound' /\ LogSound' /\ ConsentIsRecorded'
<1>1. /\ ActionOf[s] \in Actions
      /\ s = "accepted" => ActionOf[s] = "support.accepted"
  BY ActionOfType DEF States, ActionOf
<1>2. /\ \A i \in DOMAIN audits : audits'[i] = audits[i]
      /\ \A i \in DOMAIN audits' : i \in DOMAIN audits \/ i = Len(audits')
      /\ audits'[Len(audits')] =
           [tenant |-> p.tenant, actor |-> p.subject, action |-> ActionOf[s], target |-> q]
      /\ Len(audits') = Len(audits) + 1
      /\ audits' \in Seq(AuditRows)
  BY <1>1, AuditAppends
<1>3. Len(audits') \in DOMAIN audits'
  BY <1>2 DEF TypeOK
<1>4. /\ \A r \in Requests : r # q => request'[r] = request[r]
      /\ request'[q].state = s
      /\ request'[q].target = request[q].target
      /\ request'[q].tenant = request[q].tenant
  BY DEF TypeOK, RequestRows
<1>5. RowsSound'
  BY <1>4 DEF RowsSound
<1>6. LogSound'
  BY <1>2, <1>4 DEF LogSound, Frame
<1>7. ASSUME NEW r \in Requests, request'[r].state \in {"accepted", "ended"}
      PROVE  ConsentOnRecord(r)'
  <2>1. CASE r # q
    BY <1>4, <1>7, <2>1, ConsentStays DEF ConsentIsRecorded
  <2>2. CASE r = q /\ s = "ended"
    BY <2>2, ConsentStays
  <2>3. CASE r = q /\ s = "accepted"
    BY <1>1, <1>2, <1>3, <1>4, <2>3 DEF ConsentOnRecord, RowsSound
  <2>4. QED
    BY <1>4, <1>7, <2>1, <2>2, <2>3
<1>8. QED
  BY <1>5, <1>6, <1>7 DEF ConsentIsRecorded

----------------------------------------------------------------------------
(* The invariant theorem.                                                  *)

\* Every step keeps the inductive invariant.
LEMMA StepKeepsIInv == IInv /\ [Next]_vars => IInv'
<1> SUFFICES ASSUME IInv, [Next]_vars PROVE IInv'
  OBVIOUS
<1>1. TypeOK /\ RowsSound /\ LogSound /\ TxSound /\ ConsentIsRecorded
  BY DEF IInv
<1>2. TypeOK' /\ Frame
  BY <1>1, StepKeepsTypeAndFrame
<1>3. ASSUME request' = request, audits' = audits
      PROVE  RowsSound' /\ LogSound' /\ ConsentIsRecorded'
  BY <1>1, <1>2, <1>3, RowsUntouched DEF LogSound
<1>4. ASSUME NEW w \in Workers, Close(w)
      PROVE  TxSound'
  <2>1. /\ tx'[w].op = "idle"
        /\ \A v \in Workers \ {w} : tx'[v] = tx[v]
    BY <1>1, <1>4 DEF TypeOK, Close, Idle
  <2>2. TxOk(w)'
    BY <2>1 DEF TxOk
  <2>3. QED
    BY <1>1, <1>2, <2>1, <2>2, OthersStay
<1>5. ASSUME tx' = tx
      PROVE  TxSound'
  BY <1>1, <1>2, <1>5, TxStays DEF TxSound
<1>6. ASSUME NEW w \in Workers, NEW op, NEW p, NEW on, NEW s, NEW e,
             Open(w, op, p, on, s, e), TxOk(w)'
      PROVE  TxSound'
  <2>1. \A v \in Workers \ {w} : tx'[v] = tx[v]
    BY <1>1, <1>6 DEF TypeOK, Open
  <2>2. QED
    BY <1>1, <1>2, <1>6, <2>1, OthersStay
<1>7. ASSUME NEW w \in Workers, NEW op, NEW p, NEW on, NEW s, NEW e,
             Open(w, op, p, on, s, e)
      PROVE  /\ tx'[w].op = op /\ tx'[w].by = p /\ tx'[w].on = on
             /\ tx'[w].state = s /\ tx'[w].expires = e
  BY <1>1, <1>7 DEF TypeOK, Open
<1>8. ASSUME NEW p \in Principals, NEW d \in Devices, CreateDevice(p, d)
      PROVE  IInv'
  <2>1. "device.registered" \in Actions
    BY DEF Actions
  <2>2. LogSound'
    BY <1>1, <1>8, <2>1, DeviceEvent DEF CreateDevice
  <2>3. RowsSound' /\ ConsentIsRecorded'
    BY <1>1, <1>2, <1>8, RowsUntouched DEF CreateDevice
  <2>4. TxSound'
    BY <1>5, <1>8 DEF CreateDevice
  <2>5. QED
    BY <1>2, <2>2, <2>3, <2>4 DEF IInv
<1>9. ASSUME NEW w \in Workers, NEW p \in Principals, NEW d \in Devices,
             ReadRevocation(w, p, d)
      PROVE  IInv'
  <2>1. Open(w, "revoke", p, d, "none", 0)
    BY <1>9 DEF ReadRevocation
  <2>2. TxOk(w)'
    BY <1>7, <1>9, <2>1 DEF ReadRevocation, TxOk
  <2>3. QED
    BY <1>2, <1>3, <1>6, <1>9, <2>1, <2>2 DEF ReadRevocation, IInv
<1>10. ASSUME NEW w \in Workers, WriteRevocation(w)
       PROVE  IInv'
  <2>1. "device.revoked" \in Actions /\ tx[w].by \in Principals /\ tx[w].on \in Devices
    BY <1>1, <1>10 DEF Actions, TxSound, TxOk, WriteRevocation
  <2>2. LogSound'
    BY <1>1, <1>10, <2>1, DeviceEvent DEF WriteRevocation
  <2>3. RowsSound' /\ ConsentIsRecorded'
    BY <1>1, <1>2, <1>10, RowsUntouched DEF WriteRevocation
  <2>4. TxSound'
    BY <1>4, <1>10 DEF WriteRevocation
  <2>5. QED
    BY <1>2, <2>2, <2>3, <2>4 DEF IInv
<1>11. ASSUME NEW w \in Workers, NEW p \in Principals, NEW d \in Devices, NEW l \in Lifetimes,
              ReadTarget(w, p, d, l)
       PROVE  IInv'
  <2>1. Open(w, "request", p, d, "pending", clock + l)
    BY <1>11 DEF ReadTarget
  <2>2. TxOk(w)'
    BY <1>7, <1>11, <2>1 DEF ReadTarget, TxOk
  <2>3. QED
    BY <1>2, <1>3, <1>6, <1>11, <2>1, <2>2 DEF ReadTarget, IInv
<1>12. ASSUME NEW w \in Workers, NEW r \in Requests, WriteRequest(w, r)
       PROVE  IInv'
  <2>1. /\ tx[w].by \in Principals /\ tx[w].on \in Devices /\ tx[w].state = "pending"
        /\ device[tx[w].on].status # "absent" /\ device[tx[w].on].tenant = tx[w].by.tenant
    BY <1>1, <1>12 DEF TxSound, TxOk, WriteRequest
  <2>2. /\ \A q \in Requests : q # r => request'[q] = request[q]
        /\ request'[r].state = "pending"
        /\ request'[r].target = tx[w].on
        /\ request'[r].tenant = tx[w].by.tenant
        /\ device' = device
    BY <1>1, <1>12, <2>1 DEF WriteRequest, TypeOK
  <2>3. RowsSound'
    BY <1>1, <2>1, <2>2 DEF RowsSound
  <2>4. ActionOf["pending"] \in Actions
    BY ActionOfType DEF States
  <2>5. /\ \A i \in DOMAIN audits : audits'[i] = audits[i]
        /\ \A i \in DOMAIN audits' : i \in DOMAIN audits \/ i = Len(audits')
        /\ audits'[Len(audits')] =
             [tenant |-> tx[w].by.tenant, actor |-> tx[w].by.subject,
              action |-> ActionOf["pending"], target |-> r]
    BY <1>1, <1>12, <2>1, <2>4, AuditAppends DEF WriteRequest
  <2>6. LogSound'
    BY <1>1, <1>12, <2>2, <2>5 DEF LogSound, WriteRequest
  <2>7. ASSUME NEW q \in Requests, request'[q].state \in {"accepted", "ended"}
        PROVE  ConsentOnRecord(q)'
    BY <1>1, <1>2, <2>2, <2>7, ConsentStays DEF ConsentIsRecorded
  <2>8. ConsentIsRecorded'
    BY <2>7 DEF ConsentIsRecorded
  <2>9. TxSound'
    BY <1>4, <1>12 DEF WriteRequest
  <2>10. QED
    BY <1>2, <2>3, <2>6, <2>8, <2>9 DEF IInv
<1>13. ASSUME NEW w \in Workers, NEW p \in Principals, NEW r \in Requests,
              NEW accept \in BOOLEAN, ReadDecision(w, p, r, accept)
       PROVE  IInv'
  <2> DEFINE s == IF accept THEN "accepted" ELSE "denied"
  <2>1. Open(w, "decide", p, r, s, request[r].expires)
    BY <1>13 DEF ReadDecision
  <2>2. TxOk(w)'
    BY <1>7, <1>13, <2>1 DEF ReadDecision, Visible, OwnsTarget, TxOk
  <2>3. QED
    BY <1>2, <1>3, <1>6, <1>13, <2>1, <2>2 DEF ReadDecision, IInv
<1>14. ASSUME NEW w \in Workers, CheckDeadline(w)
       PROVE  IInv'
  <2>1. TxOk(w)
    BY <1>1 DEF TxSound
  <2>2. /\ \A v \in Workers \ {w} : tx'[v] = tx[v]
        /\ tx'[w].op = "settle" /\ tx'[w].by = tx[w].by /\ tx'[w].on = tx[w].on
        /\ tx'[w].state \in {"expired", tx[w].state}
    BY <1>1, <1>14 DEF CheckDeadline, TypeOK, Transactions
  <2>3. TxOk(w)'
    BY <1>14, <2>1, <2>2 DEF CheckDeadline, TxOk
  <2>4. TxSound'
    BY <1>1, <1>2, <2>2, <2>3, OthersStay
  <2>5. QED
    BY <1>2, <1>3, <1>14, <2>4 DEF CheckDeadline, IInv
<1>15. ASSUME NEW w \in Workers, WriteDecision(w) \/ WriteEnd(w)
       PROVE  IInv'
  <2> DEFINE q == tx[w].on
             s == tx[w].state
             p == tx[w].by
  <2>1. /\ q \in Requests /\ s \in {"accepted", "denied", "expired", "ended"}
        /\ p \in Principals /\ device' = device /\ request[q].state # "none"
        /\ request' = [request EXCEPT ![q].state = s] /\ Audit(p, ActionOf[s], q)
        /\ p.tenant = request[q].tenant
        /\ s = "accepted" => device[request[q].target].owner = p.subject
        /\ s = "ended" => ConsentOnRecord(q)
    BY <1>1, <1>15 DEF TxSound, TxOk, WriteDecision, WriteEnd
  <2> HIDE DEF q, s, p
  <2>2. RowsSound' /\ LogSound' /\ ConsentIsRecorded'
    BY <1>1, <1>2, <2>1, StateCommit
  <2>3. TxSound'
    BY <1>4, <1>15 DEF WriteDecision, WriteEnd
  <2>4. QED
    BY <1>2, <2>2, <2>3 DEF IInv
<1>16. ASSUME NEW w \in Workers, NEW p \in Principals, NEW r \in Requests, ReadEnd(w, p, r)
       PROVE  IInv'
  <2>1. Open(w, "end", p, r, "ended", 0)
    BY <1>16 DEF ReadEnd
  <2>2. ConsentOnRecord(r)'
    BY <1>1, <1>2, <1>16, ConsentStays DEF ReadEnd, ConsentIsRecorded
  <2>3. TxOk(w)'
    BY <1>7, <1>16, <2>1, <2>2 DEF ReadEnd, Visible, TxOk, ConsentOnRecord
  <2>4. QED
    BY <1>2, <1>3, <1>6, <1>16, <2>1, <2>3 DEF ReadEnd, IInv
<1>17. ASSUME NEW w \in Workers, Abort(w)
       PROVE  IInv'
  BY <1>2, <1>3, <1>4, <1>17 DEF Abort, IInv
<1>18. CASE Tick \/ UNCHANGED vars
  BY <1>2, <1>3, <1>5, <1>18 DEF Tick, vars, IInv
<1>19. QED
  BY <1>8, <1>9, <1>10, <1>11, <1>12, <1>13, <1>14, <1>15, <1>16, <1>17, <1>18
  DEF Next, Handler

\* The inductive invariant holds in every reachable state.
THEOREM Invariant == Spec => []IInv
BY InitIInv, StepKeepsIInv, PTL DEF Spec

\* Every variable always has its type.
THEOREM TypeCorrect == Spec => []TypeOK
<1>1. IInv => TypeOK
  BY DEF IInv
<1>2. QED
  BY <1>1, Invariant, PTL

\* No support session is ever open, or was, without an acceptance by the owner of the
\* target device on record, however many handlers race.
THEOREM ConsentAlwaysRecorded == Spec => []ConsentIsRecorded
<1>1. IInv => ConsentIsRecorded
  BY DEF IInv
<1>2. QED
  BY <1>1, Invariant, PTL

\* Requests, devices and audit events of different tenants never mix.
THEOREM TenantsStaySeparate == Spec => []TenantSeparation
<1>1. IInv => TenantSeparation
  BY DEF IInv, RowsSound, LogSound, TenantSeparation
<1>2. QED
  BY <1>1, Invariant, PTL
----------------------------------------------------------------------------
(* The deadline.                                                           *)

\* A closed request stays closed over any step: a handler still to compare the deadline
\* will find it passed, and none that has compared it carries an acceptance.
LEMMA StepKeepsClosed ==
  ASSUME IInv, [Next]_vars, NEW r \in Requests, Closed(r)
  PROVE  Closed(r)'
<1>1. TypeOK /\ TxSound
  BY DEF IInv
<1>2. request[r] \in RequestRows /\ clock \in Nat
  BY <1>1 DEF TypeOK
<1> DEFINE Carries(t) == t.op = "settle" /\ t.on = r /\ t.state = "accepted"
<1>3. \A w \in Workers : ~ Carries(tx[w])
  BY DEF Closed
<1>4. ASSUME request'[r] = request[r], clock' = clock,
             NEW w \in Workers, ~ Carries(tx'[w]), \A v \in Workers \ {w} : tx'[v] = tx[v]
      PROVE  Closed(r)'
  BY <1>3, <1>4 DEF Closed
<1>5. ASSUME NEW w \in Workers, NEW op \in Ops \ {"settle"}, NEW p, NEW on, NEW s, NEW e,
             Open(w, op, p, on, s, e), request' = request, clock' = clock
      PROVE  Closed(r)'
  <2>1. tx'[w].op = op /\ \A v \in Workers \ {w} : tx'[v] = tx[v]
    BY <1>1, <1>5 DEF TypeOK, Open
  <2>2. QED
    BY <1>4, <1>5, <2>1
<1>6. ASSUME NEW w \in Workers, Close(w)
      PROVE  ~ Carries(tx'[w]) /\ \A v \in Workers \ {w} : tx'[v] = tx[v]
  BY <1>1, <1>6 DEF TypeOK, Close, Idle
<1>7. ASSUME NEW p \in Principals, NEW d \in Devices, CreateDevice(p, d)
      PROVE  Closed(r)'
  BY <1>7 DEF CreateDevice, Closed
<1>8. ASSUME NEW w \in Workers, NEW p \in Principals, NEW d \in Devices,
             ReadRevocation(w, p, d)
      PROVE  Closed(r)'
  BY <1>5, <1>8 DEF ReadRevocation, Ops
<1>9. ASSUME NEW w \in Workers, WriteRevocation(w) \/ Abort(w)
      PROVE  Closed(r)'
  BY <1>4, <1>6, <1>9 DEF WriteRevocation, Abort
<1>10. ASSUME NEW w \in Workers, NEW p \in Principals, NEW d \in Devices, NEW l \in Lifetimes,
              ReadTarget(w, p, d, l)
       PROVE  Closed(r)'
  BY <1>5, <1>10 DEF ReadTarget, Ops
<1>11. ASSUME NEW w \in Workers, NEW q \in Requests, WriteRequest(w, q)
       PROVE  Closed(r)'
  <2>1. request'[r] = request[r]
    BY <1>1, <1>11 DEF WriteRequest, TypeOK, Closed
  <2>2. QED
    BY <1>4, <1>6, <1>11, <2>1 DEF WriteRequest
<1>12. ASSUME NEW w \in Workers, NEW p \in Principals, NEW q \in Requests,
              NEW accept \in BOOLEAN, ReadDecision(w, p, q, accept)
       PROVE  Closed(r)'
  BY <1>5, <1>12 DEF ReadDecision, Ops
<1>13. ASSUME NEW w \in Workers, CheckDeadline(w)
       PROVE  Closed(r)'
  <2>1. /\ \A v \in Workers \ {w} : tx'[v] = tx[v]
        /\ tx'[w].on = tx[w].on
        /\ tx[w].expires <= clock => tx'[w].state = "expired"
    BY <1>1, <1>13 DEF CheckDeadline, TypeOK, Transactions
  <2>2. tx[w].expires = request[tx[w].on].expires
    BY <1>1, <1>13 DEF TxSound, TxOk, CheckDeadline
  <2>3. ~ Carries(tx'[w])
    BY <2>1, <2>2 DEF Closed
  <2>4. QED
    BY <1>4, <1>13, <2>1, <2>3 DEF CheckDeadline
<1>14. ASSUME NEW w \in Workers, WriteDecision(w) \/ WriteEnd(w)
       PROVE  Closed(r)'
  <2>1. /\ tx[w].on = r => tx[w].state \in {"denied", "expired", "ended"}
        /\ tx[w].on \in Requests
    BY <1>1, <1>3, <1>14 DEF TxSound, TxOk, WriteDecision, WriteEnd
  <2>2. CASE tx[w].on = r
    <3>1. request'[r].state = tx[w].state /\ request'[r].expires = request[r].expires
      BY <1>1, <1>2, <1>14, <2>2 DEF TypeOK, RequestRows, WriteDecision, WriteEnd
    <3>2. QED
      BY <1>3, <1>6, <1>14, <2>1, <2>2, <3>1 DEF Closed, WriteDecision, WriteEnd
  <2>3. CASE tx[w].on # r
    <3>1. request'[r] = request[r]
      BY <1>1, <1>14, <2>1, <2>3 DEF TypeOK, WriteDecision, WriteEnd
    <3>2. QED
      BY <1>4, <1>6, <1>14, <3>1 DEF WriteDecision, WriteEnd
  <2>4. QED
    BY <2>2, <2>3
<1>15. ASSUME NEW w \in Workers, NEW p \in Principals, NEW q \in Requests, ReadEnd(w, p, q)
       PROVE  Closed(r)'
  BY <1>5, <1>15 DEF ReadEnd, Ops
<1>16. CASE Tick
  BY <1>2, <1>16 DEF Tick, Closed, RequestRows
<1>17. CASE UNCHANGED vars
  BY <1>17 DEF vars, Closed
<1>18. QED
  BY <1>7, <1>8, <1>9, <1>10, <1>11, <1>12, <1>13, <1>14, <1>15, <1>16, <1>17
  DEF Next, Handler

\* No acceptance reaches the database of a request whose deadline has passed, except from
\* a handler that compared the deadline in time.
THEOREM DeadlineIsFinal == Spec => DeadlineCloses
<1>1. IInv /\ [Next]_vars => [\A r \in Requests : Closed(r) => Closed(r)']_vars
  BY StepKeepsClosed
<1>2. QED
  BY <1>1, Invariant, PTL DEF Spec, DeadlineCloses
=============================================================================
