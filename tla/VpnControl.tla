---------------------------- MODULE VpnControl ----------------------------
(***************************************************************************)
(* The WireGuard data plane and its control: tables vpn_networks and       *)
(* vpn_peers, the file wg0.conf and the interface wg0 (api.py 634-810 and  *)
(* 1034-1198, wireguard.py, main.py 17-44), in the production setting: a   *)
(* server key is configured and wireguard_apply is on.                     *)
(*                                                                         *)
(* A handler reads its snapshot, flushes its row (from there on it holds   *)
(* the row lock), renders the configuration of its tenant from that        *)
(* snapshot and its own change, writes wg0.conf, takes the interface down  *)
(* and up, and only then commits.  Handlers run in parallel threads; the   *)
(* file and the interface have no lock.                                    *)
(***************************************************************************)
EXTENDS Naturals, FiniteSets

CONSTANTS
  Tenants,
  Addresses,   \* peer addresses, as normalized by address_belongs
  Keys,        \* public keys
  Settings,    \* values of the network row: interface address, port, DNS
  Workers,
  MaxStamp,    \* bound on the number of network configurations
  Faults,      \* what may go wrong: subset of {"write", "up", "commit", "crash"}
  NoKey, Nothing

ASSUME ValuesAssumption == NoKey \notin Keys /\ Nothing \notin Settings \cup Tenants
ASSUME FaultsAssumption == Faults \subseteq {"write", "up", "commit", "crash"}
ASSUME StampAssumption == MaxStamp \in Nat

VARIABLES
  network,   \* per tenant, the row of vpn_networks: settings and order of updated_at
  peer,      \* per tenant and address, the row of vpn_peers
  file,      \* wg0.conf
  iface,     \* the configuration wg0 runs, or Down
  tx,        \* per worker, its handler
  serving,   \* the API accepts calls (lifespan has started)
  doubtful   \* history: whether the configuration last brought up came from a handler that
             \* overlapped another one ("raced") or whose commit failed ("failed"), or "no"

vars == <<network, peer, file, iface, tx, serving, doubtful>>

----------------------------------------------------------------------------
(* Rows and configurations.  name, allowed_ips and keepalive of a peer are *)
(* left out: they decide nothing on the server but are rendered with it.   *)

NetworkRows == [settings : Settings \cup {Nothing}, stamp : Nat]

PeerRows == [status : {"absent", "on", "off"}, key : Keys \cup {NoKey}]

Configs ==
  [tenant : Tenants, settings : Settings, served : [Addresses -> Keys \cup {NoKey}]]

NoNetwork == [settings |-> Nothing, stamp |-> 0]

NoPeer == [status |-> "absent", key |-> NoKey]

\* Also what is left of the file when writing it fails: nothing wg-quick can bring up.
Down == [tenant |-> Nothing]

\* render_server_config(): the enabled peers of one network.
Render(t, settings, rows) ==
  [tenant |-> t, settings |-> settings,
   served |-> [a \in Addresses |-> IF rows[a].status = "on" THEN rows[a].key ELSE NoKey]]

Stages == {"idle", "begun", "flushed", "filed", "downed", "applied"}

\* A handler: the row it writes (cols names the changed columns, "insert" a new row),
\* the configuration it rendered, and whether it has had the server to itself.
Handlers ==
  [stage : Stages, op : {"none", "network", "peer"}, tenant : Tenants \cup {Nothing},
   addr : Addresses \cup {Nothing}, cols : SUBSET {"insert", "status", "key"},
   row : PeerRows, net : NetworkRows, conf : Configs \cup {Down}, solo : BOOLEAN]

Idle ==
  [stage |-> "idle", op |-> "none", tenant |-> Nothing, addr |-> Nothing, cols |-> {},
   row |-> NoPeer, net |-> NoNetwork, conf |-> Down, solo |-> FALSE]

Init ==
  /\ network = [t \in Tenants |-> NoNetwork]
  /\ peer = [t \in Tenants |-> [a \in Addresses |-> NoPeer]]
  /\ file = Down
  /\ iface = Down
  /\ tx = [w \in Workers |-> Idle]
  /\ serving = TRUE
  /\ doubtful = "no"

----------------------------------------------------------------------------
(* Reading: guards and rendering on the snapshot.                          *)

Configured(t) == network[t].settings # Nothing

\* The row as the session holds it after its own change.
Changed(old, cols, row) ==
  [status |-> IF "status" \in cols THEN row.status ELSE old.status,
   key |-> IF "key" \in cols THEN row.key ELSE old.key]

\* A worker takes up a call.  solo is a history of whether other handlers ran meanwhile.
Begin(w, handler) ==
  /\ serving
  /\ tx[w].stage = "idle"
  /\ tx' = [v \in Workers |->
              IF v = w THEN [handler EXCEPT !.solo = \A u \in Workers \ {w} : tx[u].stage = "idle"]
                       ELSE [tx[v] EXCEPT !.solo = FALSE]]
  /\ UNCHANGED <<network, peer, file, iface, serving, doubtful>>

\* A handler that changes one peer: its own change is flushed before sync_vpn selects
\* the peers, so the configuration shows it.
BeginPeer(w, t, a, cols, row) ==
  /\ Configured(t)
  /\ Begin(w, [stage |-> "begun", op |-> "peer", tenant |-> t, addr |-> a, cols |-> cols,
               row |-> row, net |-> NoNetwork, solo |-> FALSE,
               conf |-> Render(t, network[t].settings,
                               [peer[t] EXCEPT ![a] = Changed(@, cols, row)])])

\* configure_vpn_network(): insert or update the tenant's only network row.
ConfigureNetwork(w, t, s, stamp) ==
  /\ \A u \in Tenants : network[u].stamp < stamp
  /\ Begin(w, [stage |-> "begun", op |-> "network", tenant |-> t, addr |-> Nothing,
               cols |-> IF Configured(t) THEN {} ELSE {"insert"}, row |-> NoPeer,
               net |-> [settings |-> s, stamp |-> stamp], solo |-> FALSE,
               conf |-> Render(t, s, peer[t])])

\* create_vpn_peer()
CreatePeer(w, t, a, k) ==
  BeginPeer(w, t, a, {"insert", "status", "key"}, [status |-> "on", key |-> k])

\* update_vpn_peer_routes(): the server's configuration does not change, it is applied anew.
UpdateRoutes(w, t, a) ==
  /\ peer[t][a].status # "absent"
  /\ BeginPeer(w, t, a, {}, NoPeer)

\* revoke_vpn_peer(): SQLAlchemy writes enabled only if the snapshot shows another value.
RevokePeer(w, t, a) ==
  /\ peer[t][a].status # "absent"
  /\ BeginPeer(w, t, a, IF peer[t][a].status = "on" THEN {"status"} ELSE {},
               [status |-> "off", key |-> NoKey])

\* generate_keypair(): a key no row and no running handler has.
Fresh(k) ==
  /\ \A t \in Tenants, a \in Addresses : peer[t][a].key # k
  /\ \A w \in Workers : tx[w].row.key # k

\* Mutation: the rotation marks the row with a status of its own.
EnrollClientMarked(w, t, a, k) ==
  Fresh(k) /\ BeginPeer(w, t, a, {"insert", "status", "key"}, [status |-> "rotated", key |-> k])

\* Mutation: a revoked peer is enabled again with the key it has.
EnrollClientKept(w, t, a, k) ==
  Fresh(k) /\ BeginPeer(w, t, a,
    CASE peer[t][a].status = "absent" -> {"insert", "status", "key"}
      [] peer[t][a].status = "on" -> {"key"}
      [] peer[t][a].status = "off" -> {"status"},
    [status |-> "on", key |-> k])

\* enroll_client_vpn() and bootstrap_client(): a new key for the caller's address, in a
\* new row or in the present one, which is enabled again if it was revoked.
EnrollClient(w, t, a, k) ==
  Fresh(k) /\ BeginPeer(w, t, a,
    CASE peer[t][a].status = "absent" -> {"insert", "status", "key"}
      [] peer[t][a].status = "on" -> {"key"}
      [] peer[t][a].status = "off" -> {"status", "key"},
    [status |-> "on", key |-> k])

----------------------------------------------------------------------------
(* Flushing: unique keys and row locks.                                    *)

\* The handler has flushed: its row is locked until it commits or rolls back.
Holds(w) == tx[w].stage \in {"flushed", "filed", "downed", "applied"}

\* The locks v holds make w wait: the same row, a key v is about to own, or a peer
\* inserted under a network row that is being changed (the foreign key).
Blocks(v, w) ==
  /\ Holds(v) /\ tx[v].tenant = tx[w].tenant
  /\ \/ tx[v].op = tx[w].op /\ tx[v].addr = tx[w].addr
     \/ tx[v].op = "peer" /\ tx[w].op = "peer" /\ "key" \in tx[v].cols \cap tx[w].cols
          /\ tx[v].row.key = tx[w].row.key
     \/ tx[v].op # tx[w].op /\ \E u \in {v, w} : tx[u].op = "peer" /\ "insert" \in tx[u].cols

\* The unique constraints on (tenant), (tenant, network, address) and (.., public_key).
Unique(w) ==
  LET t == tx[w].tenant
      a == tx[w].addr
  IN  IF tx[w].op = "network"
      THEN "insert" \in tx[w].cols => ~ Configured(t)
      ELSE /\ "insert" \in tx[w].cols => peer[t][a].status = "absent"
           /\ "key" \in tx[w].cols => \A b \in Addresses \ {a} : peer[t][b].key # tx[w].row.key

Move(w, stage) == tx' = [tx EXCEPT ![w].stage = stage]

Flush(w) ==
  /\ tx[w].stage = "begun"
  /\ \A v \in Workers \ {w} : ~ Blocks(v, w)
  /\ Unique(w)
  /\ Move(w, "flushed")
  /\ UNCHANGED <<network, peer, file, iface, serving, doubtful>>

\* IntegrityError (409), a lock wait timeout or a lost connection: nothing happened yet.
FlushFails(w) ==
  /\ tx[w].stage = "begun"
  /\ tx' = [tx EXCEPT ![w] = Idle]
  /\ UNCHANGED <<network, peer, file, iface, serving, doubtful>>

----------------------------------------------------------------------------
(* apply_config(): three calls, no lock around them.                       *)

WriteFile(w) ==
  /\ tx[w].stage = "flushed"
  /\ file' = tx[w].conf
  /\ Move(w, "filed")
  /\ UNCHANGED <<network, peer, iface, serving, doubtful>>

\* OSError: the file was truncated, sync_vpn answers 503 and the session rolls back.
WriteFails(w) ==
  /\ "write" \in Faults
  /\ tx[w].stage = "flushed"
  /\ file' = Down
  /\ tx' = [tx EXCEPT ![w] = Idle]
  /\ UNCHANGED <<network, peer, iface, serving, doubtful>>

\* wg-quick down, whose outcome is ignored.
TakeDown(w) ==
  /\ tx[w].stage = "filed"
  /\ iface' = Down
  /\ Move(w, "downed")
  /\ UNCHANGED <<network, peer, file, serving, doubtful>>

\* wg-quick up brings up whatever the file holds now; it refuses an existing interface.
BringUp(w) ==
  /\ tx[w].stage = "downed"
  /\ iface = Down /\ file # Down
  /\ iface' = file
  /\ doubtful' = IF tx[w].solo THEN "no" ELSE "raced"
  /\ Move(w, "applied")
  /\ UNCHANGED <<network, peer, file, serving>>

\* wg-quick up fails: sync_vpn answers 503 and the session rolls back.
UpFails(w) ==
  /\ tx[w].stage = "downed"
  /\ iface # Down \/ file = Down \/ "up" \in Faults
  /\ tx' = [tx EXCEPT ![w] = Idle]
  /\ UNCHANGED <<network, peer, file, iface, serving, doubtful>>

----------------------------------------------------------------------------
(* The end of the handler.                                                 *)

Stored(w) ==
  /\ IF tx[w].op = "network"
     THEN network' = [network EXCEPT ![tx[w].tenant] = tx[w].net] /\ UNCHANGED peer
     ELSE /\ peer' = [peer EXCEPT ![tx[w].tenant][tx[w].addr] =
                        Changed(@, tx[w].cols, tx[w].row)]
          /\ UNCHANGED network

Commit(w) ==
  /\ tx[w].stage = "applied"
  /\ Stored(w)
  /\ tx' = [tx EXCEPT ![w] = Idle]
  /\ UNCHANGED <<file, iface, serving, doubtful>>

\* The database connection is lost at the commit: rolled back, but already applied.
CommitFails(w) ==
  /\ "commit" \in Faults
  /\ tx[w].stage = "applied"
  /\ tx' = [tx EXCEPT ![w] = Idle]
  /\ doubtful' = IF tx[w].solo THEN "failed" ELSE "raced"
  /\ UNCHANGED <<network, peer, file, iface, serving>>

\* The container stops: every transaction is rolled back and the interface goes with
\* the network namespace.  The file is on a volume and the database is another container.
Crash ==
  /\ "crash" \in Faults
  /\ tx' = [w \in Workers |-> Idle]
  /\ iface' = Down
  /\ serving' = FALSE
  /\ doubtful' = "no"
  /\ UNCHANGED <<network, peer, file>>

\* The tenant whose network has the newest updated_at.
Newest(t) == Configured(t) /\ \A u \in Tenants : network[u].stamp <= network[t].stamp

\* Mutation: the restart leaves wg0.conf as it finds it on the volume.
RestoreFromFile ==
  /\ ~ serving
  /\ file # Down
  /\ iface' = file
  /\ serving' = TRUE
  /\ UNCHANGED <<network, peer, file, tx, doubtful>>

\* restore_wireguard(), run by lifespan before the API accepts calls.
Restore ==
  /\ ~ serving
  /\ \E t \in Tenants :
       /\ Newest(t)
       /\ file' = Render(t, network[t].settings, peer[t])
       /\ iface' = file'
  /\ serving' = TRUE
  /\ UNCHANGED <<network, peer, tx, doubtful>>

\* No network is configured: there is nothing to restore.
StartBare ==
  /\ ~ serving
  /\ \A t \in Tenants : ~ Configured(t)
  /\ serving' = TRUE
  /\ UNCHANGED <<network, peer, file, iface, tx, doubtful>>

\* wg-quick up fails at start: lifespan raises and the container is started again.
RestoreFails ==
  /\ ~ serving /\ "up" \in Faults
  /\ \E t \in Tenants :
       Newest(t) /\ file' = Render(t, network[t].settings, peer[t])
  /\ UNCHANGED <<network, peer, iface, tx, serving, doubtful>>

Call(w) ==
  \/ \E t \in Tenants, s \in Settings, n \in 1 .. MaxStamp : ConfigureNetwork(w, t, s, n)
  \/ \E t \in Tenants, a \in Addresses, k \in Keys : CreatePeer(w, t, a, k)
  \/ \E t \in Tenants, a \in Addresses : UpdateRoutes(w, t, a)
  \/ \E t \in Tenants, a \in Addresses : RevokePeer(w, t, a)
  \/ \E t \in Tenants, a \in Addresses, k \in Keys : EnrollClient(w, t, a, k)

Step(w) ==
  \/ Flush(w) \/ FlushFails(w)
  \/ WriteFile(w) \/ WriteFails(w) \/ TakeDown(w) \/ BringUp(w) \/ UpFails(w)
  \/ Commit(w) \/ CommitFails(w)

Next ==
  \/ \E w \in Workers : Call(w) \/ Step(w)
  \/ Crash \/ Restore \/ RestoreFails \/ StartBare

Spec == Init /\ [][Next]_vars

----------------------------------------------------------------------------
\* Rows, configurations and handlers keep the types of their tables and files.
TypeOK ==
  /\ network \in [Tenants -> NetworkRows]
  /\ peer \in [Tenants -> [Addresses -> PeerRows]]
  /\ file \in Configs \cup {Down}
  /\ iface \in Configs \cup {Down}
  /\ tx \in [Workers -> Handlers]
  /\ serving \in BOOLEAN
  /\ doubtful \in {"no", "failed", "raced"}

\* The configuration the committed rows of tenant t call for.
DatabaseSays(t) == Render(t, network[t].settings, peer[t])

\* No handler runs.
Settled == \A w \in Workers : tx[w].stage = "idle"

\* An interface brought up by restore_wireguard, or last by a handler that had the server
\* to itself and was not cut off at its commit, runs exactly the peers the database has
\* for its tenant, whatever races, failures and restarts came before (sync_vpn before the
\* commit, 503 and rollback on failure).
RuntimeIsDatabase ==
  Settled /\ doubtful = "no" /\ iface # Down => iface = DatabaseSays(iface.tenant)

\* The key of a peer whose revocation was committed is not served when no handler runs
\* (revoke_vpn_peer; docs/PROJECT_DIRECTION.md 58 and 173).
RevokedNotServed ==
  Settled /\ iface # Down =>
    \A a \in Addresses : LET row == peer[iface.tenant][a]
                         IN  row.status = "off" => iface.served[a] # row.key

\* So it is after every interface that no race has brought up: also where a commit failed
\* once its configuration was applied and the interface is ahead of the database, as after a
\* rotation or an enrolment of the revoked address that came to nothing (api.py 1038-1049,
\* 1197).
RevocationHolds == doubtful # "raced" => RevokedNotServed

\* A change that fails leaves the previous configuration running, so a workspace that
\* was served stays served (docs/PROJECT_DIRECTION.md 137).
FailureKeepsService ==
  Settled /\ serving /\ (\E t \in Tenants : Configured(t)) => iface # Down
============================================================================
