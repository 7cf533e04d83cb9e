-------------------------- MODULE SupportRequests --------------------------
(***************************************************************************)
(* The remote-support consent flow of the control plane: devices, support  *)
(* requests and the audit log (api.py 859-1001).                           *)
(*                                                                         *)
(* FastAPI runs the synchronous handlers in a thread pool, each with its   *)
(* own SQLAlchemy session and so its own InnoDB REPEATABLE READ            *)
(* transaction.  The first SELECT fixes the snapshot the guards see; the   *)
(* UPDATE at commit writes only the changed columns, by primary key, with  *)
(* no version check.  A handler is therefore modelled by a Read step that  *)
(* evaluates its guards on the snapshot and a Write step that commits row  *)
(* and audit event together.  A guard that fails ends the handler without  *)
(* effect, so a Read step is enabled only when they all hold.  Row locks   *)
(* held from flush to commit hide nothing but the flush itself, so flush   *)
(* and commit are one step.                                                *)
(***************************************************************************)
EXTENDS Naturals, Sequences

CONSTANTS
  Tenants, Subjects, Devices, Requests,
  Workers,      \* handler threads, each serving one call at a time
  Principals,   \* claims of the tokens in use: tenant, subject, roles
  Lifetimes,    \* lifetime_seconds a request may ask for, in clock units
  MaxTime,      \* bound of the clock
  Nobody

Roles == {"tenant_admin", "support", "auditor", "member"}

ASSUME PrincipalsAssumption ==
  Principals \subseteq [tenant : Tenants, subject : Subjects, roles : SUBSET Roles]

ASSUME NobodyAssumption ==
  /\ Nobody \notin Tenants \cup Subjects \cup Devices \cup Requests \cup Principals
  /\ Devices \cap Requests = {}

ASSUME TimeAssumption == Lifetimes \subseteq Nat /\ MaxTime \in Nat

VARIABLES
  clock,     \* now()
  device,    \* table devices
  request,   \* table support_requests
  audits,    \* table audit_events, in commit order
  tx         \* per worker, the transaction its handler has open

vars == <<clock, device, request, audits, tx>>

----------------------------------------------------------------------------
(* Rows.  decided_at, ended_at, purpose and permissions are left out: they *)
(* are written with the state they belong to and no guard reads them.      *)

States == {"none", "pending", "accepted", "denied", "expired", "ended"}

DeviceRows ==
  [status : {"absent", "registered", "revoked"},
   tenant : Tenants \cup {Nobody}, owner : Subjects \cup {Nobody}]

RequestRows ==
  [state : States, tenant : Tenants \cup {Nobody}, requester : Subjects \cup {Nobody},
   target : Devices \cup {Nobody}, expires : Nat]

\* The audit action a handler records when it moves a request to a state.
ActionOf ==
  [none |-> "none", pending |-> "support.requested", accepted |-> "support.accepted",
   denied |-> "support.denied", expired |-> "support.expired", ended |-> "support.ended"]

Actions ==
  { ActionOf[s] : s \in States } \cup {"device.registered", "device.revoked"}

AuditRows ==
  [tenant : Tenants, actor : Subjects, action : Actions, target : Devices \cup Requests]

Ops == {"idle", "request", "decide", "settle", "end", "revoke"}

\* An open transaction: the operation and how far it is, its caller, the row it
\* will write, and the values it has computed from its snapshot.
Transactions ==
  [op : Ops, by : Principals \cup {Nobody}, on : Devices \cup Requests \cup {Nobody},
   state : States, expires : Nat]

Idle == [op |-> "idle", by |-> Nobody, on |-> Nobody, state |-> "none", expires |-> 0]

NoDevice == [status |-> "absent", tenant |-> Nobody, owner |-> Nobody]

NoRequest ==
  [state |-> "none", tenant |-> Nobody, requester |-> Nobody, target |-> Nobody,
   expires |-> 0]

Init ==
  /\ clock = 0
  /\ device = [d \in Devices |-> NoDevice]
  /\ request = [r \in Requests |-> NoRequest]
  /\ audits = << >>
  /\ tx = [w \in Workers |-> Idle]

----------------------------------------------------------------------------
(* Helpers shared by the handlers.                                         *)

HasRole(p, roles) == p.roles \cap roles # {}

\* audit(): the event joins the caller's transaction.
Audit(p, action, target) ==
  audits' = Append(audits,
    [tenant |-> p.tenant, actor |-> p.subject, action |-> action, target |-> target])

\* Mutation: the tenant filter is forgotten in the request look-up.
VisibleAnywhere(p, r) == request[r].state # "none"

\* get_support_request(): the row exists in the caller's tenant.
Visible(p, r) == request[r].state # "none" /\ request[r].tenant = p.tenant

\* The target device row, looked up in the caller's tenant, belongs to the caller.
OwnsTarget(p, r) ==
  LET d == device[request[r].target]
  IN  d.status # "absent" /\ d.tenant = p.tenant /\ d.owner = p.subject

\* The worker opens a transaction; its snapshot is the present state.
Open(w, op, p, on, state, expires) ==
  /\ tx[w].op = "idle"
  /\ tx' = [tx EXCEPT ![w] =
              [op |-> op, by |-> p, on |-> on, state |-> state, expires |-> expires]]

Close(w) == tx' = [tx EXCEPT ![w] = Idle]

----------------------------------------------------------------------------
(* create_device: one INSERT, nothing is read, so it is a single step.     *)

CreateDevice(p, d) ==
  /\ device[d].status = "absent"
  /\ device' = [device EXCEPT ![d] =
                  [status |-> "registered", tenant |-> p.tenant, owner |-> p.subject]]
  /\ Audit(p, "device.registered", d)
  /\ UNCHANGED <<clock, request, tx>>

(* revoke_device.                                                          *)

ReadRevocation(w, p, d) ==
  /\ device[d].status = "registered" /\ device[d].tenant = p.tenant
  /\ device[d].owner = p.subject \/ HasRole(p, {"tenant_admin"})
  /\ Open(w, "revoke", p, d, "none", 0)
  /\ UNCHANGED <<clock, device, request, audits>>

\* Mutation: the revocation writes a status no query knows.
WriteRevocationMisspelt(w) ==
  /\ tx[w].op = "revoke"
  /\ device' = [device EXCEPT ![tx[w].on].status = "disabled"]
  /\ Audit(tx[w].by, "device.revoked", tx[w].on)
  /\ Close(w)
  /\ UNCHANGED <<clock, request>>

WriteRevocation(w) ==
  /\ tx[w].op = "revoke"
  /\ device' = [device EXCEPT ![tx[w].on].status = "revoked"]
  /\ Audit(tx[w].by, "device.revoked", tx[w].on)
  /\ Close(w)
  /\ UNCHANGED <<clock, request>>

----------------------------------------------------------------------------
(* create_support_request.  now() follows the device look-up directly.     *)

\* Mutation: the status filter is missing from the device look-up.
ReadTargetAnyStatus(w, p, d, l) ==
  /\ HasRole(p, {"support", "tenant_admin"})
  /\ device[d].status # "absent" /\ device[d].tenant = p.tenant
  /\ Open(w, "request", p, d, "pending", clock + l)
  /\ UNCHANGED <<clock, device, request, audits>>

ReadTarget(w, p, d, l) ==
  /\ HasRole(p, {"support", "tenant_admin"})
  /\ device[d].status = "registered" /\ device[d].tenant = p.tenant
  /\ Open(w, "request", p, d, "pending", clock + l)
  /\ UNCHANGED <<clock, device, request, audits>>

\* The INSERT takes a fresh id and a foreign key to (tenant, device).
WriteRequest(w, r) ==
  /\ tx[w].op = "request"
  /\ request[r].state = "none"
  /\ request' = [request EXCEPT ![r] =
                   [state |-> tx[w].state, tenant |-> tx[w].by.tenant,
                    requester |-> tx[w].by.subject, target |-> tx[w].on,
                    expires |-> tx[w].expires]]
  /\ Audit(tx[w].by, ActionOf["pending"], r)
  /\ Close(w)
  /\ UNCHANGED <<clock, device>>

----------------------------------------------------------------------------
(* decide_support_request: two SELECTs, then the deadline is compared with *)
(* a later now(), then the commit.                                         *)

\* Mutation: any user of the tenant may answer.
ReadDecisionAnyUser(w, p, r, accept) ==
  /\ Visible(p, r)
  /\ request[r].state = "pending"
  /\ Open(w, "decide", p, r, IF accept THEN "accepted" ELSE "denied", request[r].expires)
  /\ UNCHANGED <<clock, device, request, audits>>

\* Mutation: the state is not checked.
ReadDecisionAnyState(w, p, r, accept) ==
  /\ Visible(p, r) /\ OwnsTarget(p, r)
  /\ Open(w, "decide", p, r, IF accept THEN "accepted" ELSE "denied", request[r].expires)
  /\ UNCHANGED <<clock, device, request, audits>>

ReadDecision(w, p, r, accept) ==
  /\ Visible(p, r) /\ OwnsTarget(p, r)
  /\ request[r].state = "pending"
  /\ Open(w, "decide", p, r, IF accept THEN "accepted" ELSE "denied", request[r].expires)
  /\ UNCHANGED <<clock, device, request, audits>>

\* Mutation: the deadline is compared the wrong way at the boundary.
CheckDeadlineLate(w) ==
  /\ tx[w].op = "decide"
  /\ tx' = [tx EXCEPT ![w].op = "settle",
                      ![w].state = IF tx[w].expires < clock THEN "expired" ELSE @]
  /\ UNCHANGED <<clock, device, request, audits>>

CheckDeadline(w) ==
  /\ tx[w].op = "decide"
  /\ tx' = [tx EXCEPT ![w].op = "settle",
                      ![w].state = IF tx[w].expires <= clock THEN "expired" ELSE @]
  /\ UNCHANGED <<clock, device, request, audits>>

\* Mutation: the expiry branch commits without its audit event.
WriteDecisionUnaudited(w) ==
  /\ tx[w].op = "settle"
  /\ request' = [request EXCEPT ![tx[w].on].state = tx[w].state]
  /\ IF tx[w].state = "expired" THEN UNCHANGED audits
                                ELSE Audit(tx[w].by, ActionOf[tx[w].state], tx[w].on)
  /\ Close(w)
  /\ UNCHANGED <<clock, device>>

WriteDecision(w) ==
  /\ tx[w].op = "settle"
  /\ request' = [request EXCEPT ![tx[w].on].state = tx[w].state]
  /\ Audit(tx[w].by, ActionOf[tx[w].state], tx[w].on)
  /\ Close(w)
  /\ UNCHANGED <<clock, device>>

----------------------------------------------------------------------------
(* end_support_request: by the requester or the owner of the device.       *)

\* Mutation: a request that is not active may be ended.
ReadEndAnyState(w, p, r) ==
  /\ Visible(p, r)
  /\ p.subject = request[r].requester \/ OwnsTarget(p, r)
  /\ Open(w, "end", p, r, "ended", 0)
  /\ UNCHANGED <<clock, device, request, audits>>

ReadEnd(w, p, r) ==
  /\ Visible(p, r)
  /\ p.subject = request[r].requester \/ OwnsTarget(p, r)
  /\ request[r].state = "accepted"
  /\ Open(w, "end", p, r, "ended", 0)
  /\ UNCHANGED <<clock, device, request, audits>>

WriteEnd(w) ==
  /\ tx[w].op = "end"
  /\ request' = [request EXCEPT ![tx[w].on].state = tx[w].state]
  /\ Audit(tx[w].by, ActionOf[tx[w].state], tx[w].on)
  /\ Close(w)
  /\ UNCHANGED <<clock, device>>

----------------------------------------------------------------------------
\* The process dies, the connection is lost or InnoDB picks the transaction as a
\* deadlock victim: it is rolled back and nothing it computed survives.
Abort(w) ==
  /\ tx[w].op # "idle"
  /\ Close(w)
  /\ UNCHANGED <<clock, device, request, audits>>

Tick ==
  /\ clock < MaxTime
  /\ clock' = clock + 1
  /\ UNCHANGED <<device, request, audits, tx>>

Handler(w) ==
  \/ \E p \in Principals, d \in Devices : ReadRevocation(w, p, d)
  \/ WriteRevocation(w)
  \/ \E p \in Principals, d \in Devices, l \in Lifetimes : ReadTarget(w, p, d, l)
  \/ \E r \in Requests : WriteRequest(w, r)
  \/ \E p \in Principals, r \in Requests, accept \in BOOLEAN : ReadDecision(w, p, r, accept)
  \/ CheckDeadline(w)
  \/ WriteDecision(w)
  \/ \E p \in Principals, r \in Requests : ReadEnd(w, p, r)
  \/ WriteEnd(w)
  \/ Abort(w)

Next ==
  \/ \E p \in Principals, d \in Devices : CreateDevice(p, d)
  \/ \E w \in Workers : Handler(w)
  \/ Tick

Spec == Init /\ [][Next]_vars

----------------------------------------------------------------------------
(* Properties that hold however many handlers run at once.                 *)

\* Every variable keeps its type: rows, audit events and open transactions of api.py
\* hold only the values their columns and handlers can give them.
TypeOK ==
  /\ clock \in Nat
  /\ device \in [Devices -> DeviceRows]
  /\ request \in [Requests -> RequestRows]
  /\ audits \in Seq(AuditRows)
  /\ tx \in [Workers -> Transactions]

\* The owner of the request's target device has an acceptance on record.
ConsentOnRecord(r) ==
  \E i \in DOMAIN audits :
    /\ audits[i].action = "support.accepted"
    /\ audits[i].target = r
    /\ audits[i].tenant = device[request[r].target].tenant
    /\ audits[i].actor = device[request[r].target].owner

\* A session that is or was open rests on a recorded acceptance by the device's owner,
\* whatever handlers raced on the way (decide_support_request, end_support_request).
ConsentIsRecorded ==
  \A r \in Requests : request[r].state \in {"accepted", "ended"} => ConsentOnRecord(r)

\* Requests, their target devices and the audit events about them stay in one tenant,
\* although subjects of different tenants share names (the tenant filters of 955-1001).
TenantSeparation ==
  /\ \A r \in Requests : request[r].state # "none" =>
       request[r].tenant = device[request[r].target].tenant
  /\ \A i \in DOMAIN audits, r \in Requests :
       audits[i].target = r => audits[i].tenant = request[r].tenant

\* The last audit event about a request tells its present state: a state is never
\* committed without its event, nor an event without its state (ADR-0001).
AuditTellsState ==
  \A r \in Requests : request[r].state # "none" =>
    \E i \in DOMAIN audits :
      /\ audits[i].target = r /\ audits[i].action = ActionOf[request[r].state]
      /\ \A j \in i+1 .. Len(audits) : audits[j].target # r

\* The deadline has passed, the request is not accepted, and no handler that compared
\* the deadline in time is still about to commit an acceptance.
Closed(r) ==
  /\ request[r].state \notin {"none", "accepted"}
  /\ request[r].expires <= clock
  /\ \A w \in Workers : ~ (tx[w].op = "settle" /\ tx[w].on = r /\ tx[w].state = "accepted")

\* Once a request is closed no later step opens it, not even one of a handler that read
\* it while it was pending (the comparison with now() in decide_support_request).
DeadlineCloses == [][\A r \in Requests : Closed(r) => Closed(r)']_vars

\* The consent ledger of the audit log: what was recorded for each request.
Recorded ==
  [r \in Requests |-> {"none"} \cup
     { s \in States \ {"none"} :
         \E i \in DOMAIN audits : audits[i].target = r /\ audits[i].action = ActionOf[s] }]

ConsentModel == INSTANCE Consent WITH
  phase <- [r \in Requests |-> request[r].state], acts <- Recorded

\* With any number of handlers, every state a request takes is recorded, and follows one
\* recorded before it: nobody ends what was never accepted or answers what was never asked.
KeepsLedger == ConsentModel!LedgerSpec

(* Properties of handlers that run one at a time.                          *)

\* With one handler at a time the request lifecycle is exactly the strict one: refusals,
\* expiries and ends are final (the state guards of decide_ and end_support_request).
KeepsLifecycle == ConsentModel!StrictSpec

\* A request is only ever created for a device that is registered at that moment
\* (the status filter of create_support_request).
NewRequestsTargetRegistered ==
  [][\A r \in Requests : request[r].state = "none" /\ request'[r].state # "none" =>
       device[request'[r].target].status = "registered"]_vars

\* What the documents ask for: a refused, expired or ended request is never used again
\* (docs/WINDOWS_CLIENT_AND_SERVICE_REQUIREMENTS.md 160-161).
RefusalIsFinal ==
  [][\A r \in Requests : request[r].state \in {"denied", "expired", "ended"} =>
       request'[r].state # "accepted"]_vars
============================================================================
