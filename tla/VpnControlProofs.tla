-------------------------- MODULE VpnControlProofs --------------------------
(***************************************************************************)
(* Proofs about VpnControl, for every set of tenants, addresses, keys and  *)
(* workers and every set of faults.                                        *)
(***************************************************************************)
EXTENDS VpnControl, TLAPS

----------------------------------------------------------------------------
(* The inductive invariant.                                                *)

\* What the database will say of the tenant of handler h once h has committed.
AfterOf(h) ==
  IF h.op = "network"
  THEN Render(h.tenant, h.net.settings, peer[h.tenant])
  ELSE Render(h.tenant, network[h.tenant].settings,
         [peer[h.tenant] EXCEPT ![h.addr] = Changed(@, h.cols, h.row)])

After(w) == AfterOf(tx[w])

\* A running handler works on a tenant it may change.
Sound(h) ==
  /\ h.tenant \in Tenants
  /\ h.conf \in Configs
  /\ h.op = "network" => h.net.settings \in Settings
  /\ h.op # "network" => h.addr \in Addresses /\ Configured(h.tenant)

\* Handlers are sound, and run only while the API serves.
HandlersSound ==
  \A w \in Workers : tx[w].stage # "idle" => serving /\ Sound(tx[w])

\* A handler marked as having had the server to itself is the only one that runs.
SoloAlone ==
  \A w \in Workers : tx[w].solo =>
    tx[w].stage # "idle" /\ \A v \in Workers \ {w} : tx[v].stage = "idle"

\* Nothing it read has changed, and no one has touched its file.
SoloFresh ==
  \A w \in Workers : tx[w].solo =>
    /\ tx[w].stage # "applied" => tx[w].conf = After(w)
    /\ tx[w].stage \in {"filed", "downed"} => file = tx[w].conf

\* An interface beyond doubt shows the database, or the change of the one handler that
\* has applied its configuration and is about to commit.
RuntimeClean ==
  doubtful = "no" /\ iface # Down =>
    \/ /\ \A w \in Workers : tx[w].stage # "applied"
       /\ iface = DatabaseSays(iface.tenant)
    \/ \E w \in Workers :
         /\ tx[w].stage = "applied" /\ iface = After(w)
         /\ \A v \in Workers \ {w} : tx[v].stage # "applied"

IInv == TypeOK /\ HandlersSound /\ SoloAlone /\ SoloFresh /\ RuntimeClean

----------------------------------------------------------------------------
(* Types.                                                                  *)

\* A peer row keeps its type under the change of a handler.
LEMMA ChangedType ==
  ASSUME NEW old \in PeerRows, NEW cols, NEW row \in PeerRows
  PROVE  Changed(old, cols, row) \in PeerRows
BY DEF Changed, PeerRows

\* A rendered configuration is one, and never the absent one.
LEMMA RenderType ==
  ASSUME NEW t \in Tenants, NEW s \in Settings, NEW rows \in [Addresses -> PeerRows]
  PROVE  Render(t, s, rows) \in Configs /\ Render(t, s, rows) # Down /\ Render(t, s, rows).tenant = t
<1>1. \A a \in Addresses : (IF rows[a].status = "on" THEN rows[a].key ELSE NoKey) \in Keys \cup {NoKey}
  BY DEF PeerRows
<1>2. Render(t, s, rows) \in Configs /\ Render(t, s, rows).tenant = t
  BY <1>1 DEF Render, Configs
<1>3. QED
  BY <1>2, ValuesAssumption DEF Down

\* The rows a sound handler commits keep the types of the tables, and render.
LEMMA AfterType ==
  ASSUME TypeOK, NEW h \in Handlers, h.tenant \in Tenants,
         h.op = "network" => h.net.settings \in Settings,
         h.op # "network" => h.addr \in Addresses /\ Configured(h.tenant)
  PROVE  /\ AfterOf(h) \in Configs /\ AfterOf(h) # Down /\ AfterOf(h).tenant = h.tenant
         /\ [peer[h.tenant] EXCEPT ![h.addr] = Changed(@, h.cols, h.row)] \in [Addresses -> PeerRows]
<1>1. /\ peer[h.tenant] \in [Addresses -> PeerRows] /\ h.row \in PeerRows
      /\ network[h.tenant] \in NetworkRows
  BY DEF TypeOK, Handlers
<1> DEFINE rows == [peer[h.tenant] EXCEPT ![h.addr] = Changed(@, h.cols, h.row)]
<1>2. rows \in [Addresses -> PeerRows]
  <2>1. CASE h.addr \in Addresses
    BY <1>1, <2>1, ChangedType
  <2>2. CASE h.addr \notin Addresses
    BY <1>1, <2>2
  <2>3. QED
    BY <2>1, <2>2
<1>3. CASE h.op = "network"
  BY <1>1, <1>2, <1>3, RenderType DEF AfterOf
<1>4. CASE h.op # "network"
  <2>1. network[h.tenant].settings \in Settings
    BY <1>1, <1>4 DEF Configured, NetworkRows
  <2>2. QED
    BY <1>2, <1>4, <2>1, RenderType DEF AfterOf
<1>5. QED
  BY <1>3, <1>4

\* The initial state satisfies the invariant.
LEMMA InitIInv == Init => IInv
<1> SUFFICES ASSUME Init PROVE IInv
  OBVIOUS
<1>1. TypeOK
  BY DEF Init, TypeOK, NoNetwork, NoPeer, Down, Idle, NetworkRows, PeerRows, Handlers, Stages
<1>2. HandlersSound /\ SoloAlone /\ SoloFresh /\ RuntimeClean
  BY DEF Init, HandlersSound, SoloAlone, SoloFresh, RuntimeClean, Idle
<1>3. QED
  BY <1>1, <1>2 DEF IInv

----------------------------------------------------------------------------
(* How the handlers change in a step.                                      *)

\* What a handler will leave depends on its change only, not on its stage.
LEMMA AfterSame ==
  ASSUME NEW g, NEW h, g.op = h.op, g.tenant = h.tenant, g.addr = h.addr,
         g.cols = h.cols, g.row = h.row, g.net = h.net
  PROVE  AfterOf(g) = AfterOf(h) /\ (g.conf = h.conf => (Sound(g) <=> Sound(h)))
BY DEF AfterOf, Sound

\* A step that leaves the rows alone leaves what a handler reads from them alone.
LEMMA RowsSame ==
  ASSUME UNCHANGED <<network, peer>>
  PROVE  /\ \A w : After(w)' = AfterOf(tx'[w])
         /\ \A w : Sound(tx[w])' <=> Sound(tx'[w])
         /\ \A t : DatabaseSays(t)' = DatabaseSays(t)
BY DEF After, AfterOf, Sound, Configured, DatabaseSays

\* A handler that goes on to its next stage keeps its change; the others do not move.
LEMMA MoveFacts ==
  ASSUME TypeOK, NEW w \in Workers, NEW s \in Stages, Move(w, s), UNCHANGED <<network, peer>>
  PROVE  /\ tx' \in [Workers -> Handlers]
         /\ tx'[w].stage = s /\ tx'[w].solo = tx[w].solo /\ tx'[w].conf = tx[w].conf
         /\ \A v \in Workers \ {w} : tx'[v] = tx[v]
         /\ \A v \in Workers : After(v)' = After(v) /\ (Sound(tx[v])' <=> Sound(tx[v]))
<1>1. tx \in [Workers -> Handlers] /\ tx' = [tx EXCEPT ![w].stage = s]
  BY DEF TypeOK, Move
<1>2. /\ tx'[w].stage = s /\ tx'[w].solo = tx[w].solo /\ tx'[w].conf = tx[w].conf
      /\ tx'[w].op = tx[w].op /\ tx'[w].tenant = tx[w].tenant /\ tx'[w].addr = tx[w].addr
      /\ tx'[w].cols = tx[w].cols /\ tx'[w].row = tx[w].row /\ tx'[w].net = tx[w].net
  BY <1>1 DEF Handlers
<1>3. \A v \in Workers \ {w} : tx'[v] = tx[v]
  BY <1>1
<1>4. tx' \in [Workers -> Handlers]
  BY <1>1 DEF Handlers
<1>5. \A v \in Workers : AfterOf(tx'[v]) = AfterOf(tx[v]) /\ (Sound(tx'[v]) <=> Sound(tx[v]))
  BY <1>2, <1>3, AfterSame
<1>6. QED
  BY <1>2, <1>3, <1>4, <1>5, RowsSame DEF After

\* A handler that ends is idle; the others do not move.
LEMMA LeaveFacts ==
  ASSUME TypeOK, NEW w \in Workers, tx' = [tx EXCEPT ![w] = Idle]
  PROVE  /\ tx' \in [Workers -> Handlers]
         /\ tx'[w].stage = "idle" /\ tx'[w].solo = FALSE
         /\ \A v \in Workers \ {w} : tx'[v] = tx[v]
<1>1. Idle \in Handlers
  BY DEF Idle, Handlers, Stages, NoPeer, PeerRows, NoNetwork, NetworkRows
<1>2. QED
  BY <1>1 DEF TypeOK, Idle

\* While w runs, no other handler has the server to itself.
LEMMA RunningSpoils ==
  ASSUME SoloAlone, NEW w \in Workers, tx[w].stage # "idle"
  PROVE  \A v \in Workers \ {w} : ~ tx[v].solo
BY DEF SoloAlone

----------------------------------------------------------------------------
(* A call begins.                                                          *)

\* A handler whose configuration shows the present rows and its own change may begin.
LEMMA BeginKeepsIInv ==
  ASSUME IInv, NEW w \in Workers, NEW h \in Handlers, Begin(w, h), h.stage = "begun",
         Sound(h), h.conf = AfterOf(h)
  PROVE  IInv'
<1>1. TypeOK /\ HandlersSound /\ SoloAlone /\ SoloFresh /\ RuntimeClean
  BY DEF IInv
<1> DEFINE alone == \A u \in Workers \ {w} : tx[u].stage = "idle"
           mine == [h EXCEPT !.solo = alone]
           others(v) == [tx[v] EXCEPT !.solo = FALSE]
<1>2. /\ tx' = [v \in Workers |-> IF v = w THEN mine ELSE others(v)]
      /\ serving /\ tx[w].stage = "idle"
      /\ UNCHANGED <<network, peer, file, iface, serving, doubtful>>
  BY DEF Begin
<1>3. \A v \in Workers : tx[v] \in Handlers
  BY <1>1 DEF TypeOK
<1>4. tx'[w] = mine /\ \A v \in Workers \ {w} : tx'[v] = others(v)
  BY <1>2
<1>5. mine \in Handlers /\ \A v \in Workers : others(v) \in Handlers
  <2>1. alone \in BOOLEAN
    OBVIOUS
  <2> HIDE DEF alone
  <2>2. mine \in Handlers
    BY <2>1 DEF Handlers
  <2>3. \A v \in Workers : others(v) \in Handlers
    BY <1>3 DEF Handlers
  <2>4. QED
    BY <2>2, <2>3
<1>6. /\ mine.solo = alone /\ mine.stage = "begun" /\ mine.conf = h.conf
      /\ AfterOf(mine) = AfterOf(h) /\ Sound(mine)
  <2> HIDE DEF alone
  <2>1. /\ mine.solo = alone /\ mine.stage = "begun" /\ mine.conf = h.conf
        /\ mine.op = h.op /\ mine.tenant = h.tenant /\ mine.addr = h.addr
        /\ mine.cols = h.cols /\ mine.row = h.row /\ mine.net = h.net
    BY DEF Handlers
  <2> HIDE DEF mine
  <2>2. QED
    BY <2>1, AfterSame
<1>7. ASSUME NEW v \in Workers \ {w}
      PROVE  /\ others(v).solo = FALSE /\ others(v).stage = tx[v].stage
             /\ AfterOf(others(v)) = AfterOf(tx[v]) /\ (Sound(others(v)) <=> Sound(tx[v]))
  <2>1. /\ others(v).solo = FALSE /\ others(v).stage = tx[v].stage
        /\ others(v).conf = tx[v].conf
        /\ others(v).op = tx[v].op /\ others(v).tenant = tx[v].tenant
        /\ others(v).addr = tx[v].addr /\ others(v).cols = tx[v].cols
        /\ others(v).row = tx[v].row /\ others(v).net = tx[v].net
    BY <1>3 DEF Handlers
  <2> HIDE DEF others
  <2>2. QED
    BY <2>1, AfterSame
<1> HIDE DEF mine, others
<1>8. /\ After(w)' = h.conf /\ Sound(tx[w])'
      /\ \A v \in Workers \ {w} : After(v)' = After(v) /\ (Sound(tx[v])' <=> Sound(tx[v]))
  BY <1>2, <1>4, <1>6, <1>7, RowsSame DEF After
<1>9. TypeOK'
  BY <1>1, <1>2, <1>5 DEF TypeOK
<1>10. HandlersSound'
  BY <1>1, <1>2, <1>4, <1>6, <1>7, <1>8 DEF HandlersSound
<1>11. SoloAlone'
  BY <1>4, <1>6, <1>7 DEF SoloAlone
<1>12. SoloFresh'
  BY <1>4, <1>6, <1>7, <1>8 DEF SoloFresh
<1>13. RuntimeClean'
  <2>1. \A t : DatabaseSays(t)' = DatabaseSays(t)
    BY <1>2, RowsSame
  <2>2. \A v \in Workers : tx'[v].stage = "applied" <=> tx[v].stage = "applied"
    BY <1>2, <1>4, <1>6, <1>7
  <2>3. \A v \in Workers : tx[v].stage = "applied" => After(v)' = After(v)
    BY <1>2, <1>8
  <2>4. QED
    BY <1>1, <1>2, <2>1, <2>2, <2>3 DEF RuntimeClean
<1>14. QED
  BY <1>9, <1>10, <1>11, <1>12, <1>13 DEF IInv

\* Every call begins a handler of that kind.
LEMMA CallKeepsIInv ==
  ASSUME IInv, NEW w \in Workers, Call(w)
  PROVE  IInv'
<1>1. TypeOK
  BY DEF IInv
<1> DEFINE change(t, a, cols, row) ==
      [stage |-> "begun", op |-> "peer", tenant |-> t, addr |-> a, cols |-> cols,
       row |-> row, net |-> NoNetwork, solo |-> FALSE,
       conf |-> Render(t, network[t].settings,
                       [peer[t] EXCEPT ![a] = Changed(@, cols, row)])]
<1>2. ASSUME NEW t \in Tenants, NEW a \in Addresses,
             NEW cols \in SUBSET {"insert", "status", "key"}, NEW row \in PeerRows,
             BeginPeer(w, t, a, cols, row)
      PROVE  IInv'
  <2> DEFINE h == change(t, a, cols, row)
  <2>1. Configured(t) /\ Begin(w, h)
    BY <1>2 DEF BeginPeer
  <2>2. /\ h.op = "peer" /\ h.tenant = t /\ h.addr = a /\ h.cols = cols /\ h.row = row
        /\ h.stage = "begun"
        /\ h.conf = Render(t, network[t].settings,
                           [peer[t] EXCEPT ![a] = Changed(@, cols, row)])
    OBVIOUS
  <2>3. /\ peer[t] \in [Addresses -> PeerRows] /\ network[t].settings \in Settings
    BY <1>1, <2>1 DEF TypeOK, NetworkRows, Configured
  <2>4. [peer[t] EXCEPT ![a] = Changed(@, cols, row)] \in [Addresses -> PeerRows]
    BY <2>3, ChangedType
  <2>5. h.conf \in Configs
    BY <2>2, <2>3, <2>4, RenderType
  <2>6. NoNetwork \in NetworkRows
    BY DEF NoNetwork, NetworkRows
  <2>7. h \in Handlers
    BY <2>5, <2>6 DEF Handlers, Stages
  <2> HIDE DEF h
  <2>8. h.conf = AfterOf(h)
    BY <2>2 DEF AfterOf
  <2>9. Sound(h)
    BY <2>1, <2>2, <2>5 DEF Sound
  <2>10. QED
    BY <2>1, <2>2, <2>7, <2>8, <2>9, BeginKeepsIInv
<1> HIDE DEF change
<1>3. ASSUME NEW t \in Tenants, NEW s \in Settings, NEW n \in 1 .. MaxStamp,
             ConfigureNetwork(w, t, s, n)
      PROVE  IInv'
  <2> DEFINE h == [stage |-> "begun", op |-> "network", tenant |-> t, addr |-> Nothing,
                   cols |-> IF Configured(t) THEN {} ELSE {"insert"}, row |-> NoPeer,
                   net |-> [settings |-> s, stamp |-> n], solo |-> FALSE,
                   conf |-> Render(t, s, peer[t])]
  <2>1. Begin(w, h)
    BY <1>3 DEF ConfigureNetwork
  <2>2. /\ h.op = "network" /\ h.tenant = t /\ h.net.settings = s /\ h.stage = "begun"
        /\ h.conf = Render(t, s, peer[t])
    OBVIOUS
  <2>3. h.conf \in Configs
    BY <1>1, <2>2, RenderType DEF TypeOK
  <2>4. NoPeer \in PeerRows /\ [settings |-> s, stamp |-> n] \in NetworkRows
    BY StampAssumption DEF NoPeer, PeerRows, NetworkRows
  <2>5. h \in Handlers
    BY <2>3, <2>4 DEF Handlers, Stages
  <2> HIDE DEF h
  <2>6. h.conf = AfterOf(h)
    BY <2>2 DEF AfterOf
  <2>7. Sound(h)
    BY <2>2, <2>3 DEF Sound
  <2>8. QED
    BY <2>1, <2>2, <2>5, <2>6, <2>7, BeginKeepsIInv
<1>4. \A k \in Keys : [status |-> "on", key |-> k] \in PeerRows
  BY DEF PeerRows
<1>5. NoPeer \in PeerRows /\ [status |-> "off", key |-> NoKey] \in PeerRows
  BY DEF PeerRows, NoPeer
<1>6. CASE \E t \in Tenants, a \in Addresses, k \in Keys : CreatePeer(w, t, a, k)
  BY <1>2, <1>4, <1>6 DEF CreatePeer
<1>7. CASE \E t \in Tenants, a \in Addresses : UpdateRoutes(w, t, a)
  BY <1>2, <1>5, <1>7 DEF UpdateRoutes
<1>8. CASE \E t \in Tenants, a \in Addresses : RevokePeer(w, t, a)
  BY <1>2, <1>5, <1>8 DEF RevokePeer
<1>9. CASE \E t \in Tenants, a \in Addresses, k \in Keys : EnrollClient(w, t, a, k)
  <2>1. PICK t \in Tenants, a \in Addresses, k \in Keys : EnrollClient(w, t, a, k)
    BY <1>9
  <2> DEFINE cols == CASE peer[t][a].status = "absent" -> {"insert", "status", "key"}
                       [] peer[t][a].status = "on" -> {"key"}
                       [] peer[t][a].status = "off" -> {"status", "key"}
  <2>2. peer[t][a].status \in {"absent", "on", "off"}
    BY <1>1 DEF TypeOK, PeerRows
  <2>3. cols \in SUBSET {"insert", "status", "key"}
    BY <2>2
  <2>4. BeginPeer(w, t, a, cols, [status |-> "on", key |-> k])
    BY <2>1 DEF EnrollClient
  <2> HIDE DEF cols
  <2>5. QED
    BY <1>2, <1>4, <2>3, <2>4
<1>10. QED
  BY <1>3, <1>6, <1>7, <1>8, <1>9 DEF Call

----------------------------------------------------------------------------
(* A handler goes on.                                                      *)

\* A step that only moves w on, and neither applies a configuration nor brings the
\* interface up, keeps the invariant if it leaves w's own file in place.
LEMMA MoveKeepsIInv ==
  ASSUME IInv, NEW w \in Workers, NEW s \in Stages \ {"idle", "applied"}, Move(w, s),
         tx[w].stage \notin {"idle", "applied"},
         UNCHANGED <<network, peer, serving, doubtful>>,
         file' \in Configs \cup {Down}, iface' \in {iface, Down},
         s \in {"filed", "downed"} => file' = tx[w].conf \/ ~ tx[w].solo
  PROVE  IInv'
<1>1. TypeOK /\ HandlersSound /\ SoloAlone /\ SoloFresh /\ RuntimeClean
  BY DEF IInv
<1>2. /\ tx' \in [Workers -> Handlers]
      /\ tx'[w].stage = s /\ tx'[w].solo = tx[w].solo /\ tx'[w].conf = tx[w].conf
      /\ \A v \in Workers \ {w} : tx'[v] = tx[v]
      /\ \A v \in Workers : After(v)' = After(v) /\ (Sound(tx[v])' <=> Sound(tx[v]))
  BY <1>1, MoveFacts
<1>3. \A v \in Workers \ {w} : ~ tx[v].solo
  BY <1>1, RunningSpoils
<1>4. TypeOK'
  BY <1>1, <1>2 DEF TypeOK
<1>5. HandlersSound'
  BY <1>1, <1>2 DEF HandlersSound
<1>6. SoloAlone'
  BY <1>1, <1>2, <1>3 DEF SoloAlone
<1>7. SoloFresh'
  BY <1>1, <1>2, <1>3 DEF SoloFresh
<1>8. RuntimeClean'
  <2>1. \A t : DatabaseSays(t)' = DatabaseSays(t)
    BY RowsSame
  <2>2. \A v \in Workers : tx'[v].stage = "applied" <=> tx[v].stage = "applied"
    BY <1>2
  <2>3. QED
    BY <1>1, <1>2, <2>1, <2>2 DEF RuntimeClean
<1>9. QED
  BY <1>4, <1>5, <1>6, <1>7, <1>8 DEF IInv

\* wg-quick up: what it brings up is beyond doubt only if w had the server to itself,
\* and then it is w's own configuration.
LEMMA BringUpKeepsIInv ==
  ASSUME IInv, NEW w \in Workers, BringUp(w)
  PROVE  IInv'
<1>1. TypeOK /\ HandlersSound /\ SoloAlone /\ SoloFresh /\ RuntimeClean
  BY DEF IInv
<1>2. /\ tx[w].stage = "downed" /\ Move(w, "applied") /\ iface' = file /\ file # Down
      /\ doubtful' = (IF tx[w].solo THEN "no" ELSE "raced") /\ UNCHANGED <<network, peer, file, serving>>
  BY DEF BringUp
<1>3. /\ tx' \in [Workers -> Handlers]
      /\ tx'[w].stage = "applied" /\ tx'[w].solo = tx[w].solo /\ tx'[w].conf = tx[w].conf
      /\ \A v \in Workers \ {w} : tx'[v] = tx[v]
      /\ \A v \in Workers : After(v)' = After(v) /\ (Sound(tx[v])' <=> Sound(tx[v]))
  BY <1>1, <1>2, MoveFacts DEF Stages
<1>4. \A v \in Workers \ {w} : ~ tx[v].solo
  BY <1>1, <1>2, RunningSpoils
<1>5. TypeOK'
  <2>1. tx[w].solo \in BOOLEAN
    BY <1>1 DEF TypeOK, Handlers
  <2>2. doubtful' \in {"no", "failed", "raced"}
    BY <1>2
  <2>3. QED
    BY <1>1, <1>2, <1>3, <2>2 DEF TypeOK
<1>6. HandlersSound'
  BY <1>1, <1>2, <1>3 DEF HandlersSound
<1>7. SoloAlone'
  BY <1>1, <1>2, <1>3, <1>4 DEF SoloAlone
<1>8. SoloFresh'
  BY <1>3, <1>4 DEF SoloFresh
<1>9. RuntimeClean'
  <2>1. CASE tx[w].solo
    <3>1. file = After(w)
      BY <1>1, <1>2, <2>1 DEF SoloFresh
    <3>2. \A v \in Workers \ {w} : tx[v].stage = "idle"
      BY <1>1, <2>1 DEF SoloAlone
    <3>3. QED
      BY <1>2, <1>3, <3>1, <3>2 DEF RuntimeClean
  <2>2. CASE ~ tx[w].solo
    BY <1>2, <2>2 DEF RuntimeClean
  <2>3. QED
    BY <2>1, <2>2
<1>10. QED
  BY <1>5, <1>6, <1>7, <1>8, <1>9 DEF IInv

----------------------------------------------------------------------------
(* A handler ends.                                                         *)

\* A handler that fails before its commit leaves rows and interface as they are; if it
\* had applied its configuration, the interface is in doubt.
LEMMA LeaveKeepsIInv ==
  ASSUME IInv, NEW w \in Workers, tx[w].stage # "idle", tx' = [tx EXCEPT ![w] = Idle],
         UNCHANGED <<network, peer, iface, serving>>, file' \in Configs \cup {Down},
         doubtful' \in {"failed", "raced"} \/ (tx[w].stage # "applied" /\ doubtful' = doubtful)
  PROVE  IInv'
<1>1. TypeOK /\ HandlersSound /\ SoloAlone /\ SoloFresh /\ RuntimeClean
  BY DEF IInv
<1>2. /\ tx' \in [Workers -> Handlers]
      /\ tx'[w].stage = "idle" /\ tx'[w].solo = FALSE
      /\ \A v \in Workers \ {w} : tx'[v] = tx[v]
  BY <1>1, LeaveFacts
<1>3. \A v \in Workers : ~ tx'[v].solo
  BY <1>1, <1>2, RunningSpoils
<1>4. \A v \in Workers \ {w} : After(v)' = After(v) /\ (Sound(tx[v])' <=> Sound(tx[v]))
  BY <1>2, RowsSame DEF After
<1>5. TypeOK'
  BY <1>1, <1>2 DEF TypeOK
<1>6. HandlersSound'
  BY <1>1, <1>2, <1>4 DEF HandlersSound
<1>7. SoloAlone' /\ SoloFresh'
  BY <1>3 DEF SoloAlone, SoloFresh
<1>8. RuntimeClean'
  <2>1. CASE doubtful' \in {"failed", "raced"}
    BY <2>1 DEF RuntimeClean
  <2>2. CASE tx[w].stage # "applied" /\ doubtful' = doubtful
    <3>1. \A t : DatabaseSays(t)' = DatabaseSays(t)
      BY RowsSame
    <3>2. \A v \in Workers : tx'[v].stage = "applied" <=> tx[v].stage = "applied"
      BY <1>2, <2>2
    <3>3. QED
      BY <1>1, <1>4, <2>2, <3>1, <3>2 DEF RuntimeClean
  <2>3. QED
    BY <2>1, <2>2
<1>9. QED
  BY <1>5, <1>6, <1>7, <1>8 DEF IInv

\* A commit stores what the handler's configuration was rendered from.
LEMMA StoredFacts ==
  ASSUME TypeOK, NEW w \in Workers, Sound(tx[w]), Stored(w)
  PROVE  /\ network' \in [Tenants -> NetworkRows] /\ peer' \in [Tenants -> [Addresses -> PeerRows]]
         /\ \A t \in Tenants : Configured(t) => Configured(t)'
         /\ \A t : t = tx[w].tenant => DatabaseSays(t)' = After(w)
         /\ After(w) \in Configs /\ After(w) # Down /\ After(w).tenant = tx[w].tenant
<1> DEFINE h == tx[w]
           rows == [peer[h.tenant] EXCEPT ![h.addr] = Changed(@, h.cols, h.row)]
<1>1. /\ h \in Handlers /\ h.tenant \in Tenants
      /\ network \in [Tenants -> NetworkRows] /\ peer \in [Tenants -> [Addresses -> PeerRows]]
  BY DEF TypeOK, Sound
<1>2. /\ AfterOf(h) \in Configs /\ AfterOf(h) # Down /\ AfterOf(h).tenant = h.tenant
      /\ rows \in [Addresses -> PeerRows]
  BY <1>1, AfterType DEF Sound
<1>3. CASE h.op = "network"
  <2>1. network' = [network EXCEPT ![h.tenant] = h.net] /\ peer' = peer
    BY <1>3 DEF Stored
  <2>2. h.net \in NetworkRows /\ h.net.settings \in Settings
    BY <1>1, <1>3 DEF Sound, Handlers
  <2>3. network' \in [Tenants -> NetworkRows] /\ network'[h.tenant] = h.net
    BY <1>1, <2>1, <2>2
  <2>4. \A t \in Tenants : Configured(t) => Configured(t)'
    BY <1>1, <2>1, <2>2, ValuesAssumption DEF Configured
  <2>5. \A t : t = h.tenant => DatabaseSays(t)' = AfterOf(h)
    BY <1>3, <2>1, <2>3 DEF DatabaseSays, AfterOf
  <2>6. QED
    BY <1>1, <1>2, <2>1, <2>3, <2>4, <2>5 DEF After
<1>4. CASE h.op # "network"
  <2>1. network' = network /\ peer' = [peer EXCEPT ![h.tenant] = rows]
    BY <1>4 DEF Stored
  <2>2. peer' \in [Tenants -> [Addresses -> PeerRows]] /\ peer'[h.tenant] = rows
    BY <1>1, <1>2, <2>1
  <2>3. \A t : t = h.tenant => DatabaseSays(t)' = AfterOf(h)
    BY <1>4, <2>1, <2>2 DEF DatabaseSays, AfterOf
  <2>4. QED
    BY <1>1, <1>2, <2>1, <2>2, <2>3 DEF Configured, After
<1>5. QED
  BY <1>3, <1>4

\* A commit keeps the invariant.
LEMMA CommitKeepsIInv ==
  ASSUME IInv, NEW w \in Workers, Commit(w)
  PROVE  IInv'
<1>1. TypeOK /\ HandlersSound /\ SoloAlone /\ SoloFresh /\ RuntimeClean
  BY DEF IInv
<1>2. /\ tx[w].stage = "applied" /\ tx' = [tx EXCEPT ![w] = Idle] /\ Stored(w)
      /\ UNCHANGED <<file, iface, serving, doubtful>>
  BY DEF Commit
<1>3. Sound(tx[w])
  BY <1>1, <1>2 DEF HandlersSound
<1>4. /\ tx' \in [Workers -> Handlers]
      /\ tx'[w].stage = "idle" /\ tx'[w].solo = FALSE
      /\ \A v \in Workers \ {w} : tx'[v] = tx[v]
  BY <1>1, <1>2, LeaveFacts
<1>5. \A v \in Workers : ~ tx'[v].solo
  BY <1>1, <1>2, <1>4, RunningSpoils
<1>6. /\ network' \in [Tenants -> NetworkRows] /\ peer' \in [Tenants -> [Addresses -> PeerRows]]
      /\ \A t \in Tenants : Configured(t) => Configured(t)'
      /\ \A t : t = tx[w].tenant => DatabaseSays(t)' = After(w)
      /\ After(w) \in Configs /\ After(w) # Down /\ After(w).tenant = tx[w].tenant
  BY <1>1, <1>2, <1>3, StoredFacts
<1>7. TypeOK'
  BY <1>1, <1>2, <1>4, <1>6 DEF TypeOK
<1>8. HandlersSound'
  BY <1>1, <1>2, <1>4, <1>6 DEF HandlersSound, Sound
<1>9. SoloAlone' /\ SoloFresh'
  BY <1>5 DEF SoloAlone, SoloFresh
<1>10. RuntimeClean'
  <2>1. CASE doubtful' # "no" \/ iface' = Down
    BY <2>1 DEF RuntimeClean
  <2>2. CASE doubtful' = "no" /\ iface' # Down
    <3>1. iface = After(w) /\ \A v \in Workers \ {w} : tx[v].stage # "applied"
      BY <1>1, <1>2, <2>2 DEF RuntimeClean
    <3>2. \A v \in Workers : tx'[v].stage # "applied"
      BY <1>4, <3>1
    <3>3. \A t : t = iface'.tenant => iface' = DatabaseSays(t)'
      BY <1>2, <1>6, <3>1
    <3>4. iface' = DatabaseSays(iface.tenant)'
      BY <3>3 DEF DatabaseSays
    <3>5. QED
      BY <3>2, <3>4 DEF RuntimeClean
  <2>3. QED
    BY <2>1, <2>2
<1>11. QED
  BY <1>7, <1>8, <1>9, <1>10 DEF IInv

----------------------------------------------------------------------------
(* Restarts.                                                               *)

\* While the API does not serve, no handler runs; what a restart brings up is what the
\* database says.
LEMMA RestartKeepsIInv ==
  ASSUME IInv, Crash \/ Restore \/ RestoreFails \/ StartBare
  PROVE  IInv'
<1>1. TypeOK /\ HandlersSound /\ SoloAlone /\ SoloFresh /\ RuntimeClean
  BY DEF IInv
<1>2. CASE Crash
  <2>1. Idle \in Handlers /\ Idle.stage = "idle" /\ Idle.solo = FALSE
    BY DEF Idle, Handlers, Stages, NoPeer, PeerRows, NoNetwork, NetworkRows
  <2>2. tx' \in [Workers -> Handlers] /\ \A w \in Workers : tx'[w] = Idle
    BY <1>2, <2>1 DEF Crash
  <2>3. TypeOK'
    BY <1>1, <1>2, <2>2 DEF Crash, TypeOK
  <2>4. HandlersSound' /\ SoloAlone' /\ SoloFresh'
    BY <2>1, <2>2 DEF HandlersSound, SoloAlone, SoloFresh
  <2>5. RuntimeClean'
    BY <1>2 DEF Crash, RuntimeClean
  <2>6. QED
    BY <2>3, <2>4, <2>5 DEF IInv
<1>3. CASE Restore \/ RestoreFails \/ StartBare
  <2>1. ~ serving /\ UNCHANGED <<network, peer, tx, doubtful>>
    BY <1>3 DEF Restore, RestoreFails, StartBare
  <2>2. \A w \in Workers : tx[w].stage = "idle" /\ tx'[w] = tx[w]
    BY <1>1, <2>1 DEF HandlersSound
  <2>3. \A w \in Workers : ~ tx'[w].solo
    BY <1>1, <2>2 DEF SoloAlone
  <2>4. HandlersSound' /\ SoloAlone' /\ SoloFresh'
    BY <2>2, <2>3 DEF HandlersSound, SoloAlone, SoloFresh
  <2>5. \A t \in Tenants : Newest(t) => DatabaseSays(t) \in Configs /\ DatabaseSays(t).tenant = t
    BY <1>1, RenderType DEF TypeOK, NetworkRows, Newest, Configured, DatabaseSays
  <2>6. \A t : DatabaseSays(t)' = DatabaseSays(t)
    BY <2>1, RowsSame
  <2>7. CASE Restore
    <3>1. PICK t \in Tenants : Newest(t) /\ file' = DatabaseSays(t) /\ iface' = file' /\ serving'
      BY <2>7 DEF Restore, DatabaseSays
    <3>2. TypeOK'
      BY <1>1, <2>1, <2>5, <3>1 DEF TypeOK, Restore
    <3>3. RuntimeClean'
      BY <2>1, <2>2, <2>5, <2>6, <3>1 DEF RuntimeClean
    <3>4. QED
      BY <2>4, <3>2, <3>3 DEF IInv
  <2>8. CASE RestoreFails \/ StartBare
    <3>1. file' \in Configs \cup {Down}
      BY <1>1, <2>5, <2>8 DEF RestoreFails, StartBare, DatabaseSays, TypeOK
    <3>2. iface' = iface /\ serving' \in BOOLEAN
      BY <1>1, <2>8 DEF RestoreFails, StartBare, TypeOK
    <3>3. TypeOK'
      BY <1>1, <2>1, <3>1, <3>2 DEF TypeOK
    <3>4. RuntimeClean'
      BY <1>1, <2>1, <2>2, <2>6, <3>2 DEF RuntimeClean
    <3>5. QED
      BY <2>4, <3>3, <3>4 DEF IInv
  <2>9. QED
    BY <1>3, <2>7, <2>8
<1>4. QED
  BY <1>2, <1>3

----------------------------------------------------------------------------
(* The specification.                                                      *)

\* Every stage of a handler keeps the invariant.
LEMMA StepKeepsIInv ==
  ASSUME IInv, NEW w \in Workers, Step(w)
  PROVE  IInv'
<1>1. TypeOK /\ HandlersSound
  BY DEF IInv
<1>2. tx[w].stage # "idle" => tx[w].conf \in Configs
  BY <1>1 DEF HandlersSound, Sound
<1>3. CASE FlushFails(w) \/ WriteFails(w) \/ UpFails(w) \/ CommitFails(w)
  BY <1>1, <1>3, LeaveKeepsIInv DEF FlushFails, WriteFails, UpFails, CommitFails, TypeOK
<1>4. CASE Flush(w)
  <2>1. /\ tx[w].stage = "begun" /\ Move(w, "flushed")
        /\ UNCHANGED <<network, peer, file, iface, serving, doubtful>>
    BY <1>4 DEF Flush
  <2>2. QED
    BY <1>1, <2>1, MoveKeepsIInv DEF TypeOK, Stages
<1>5. CASE WriteFile(w)
  <2>1. /\ tx[w].stage = "flushed" /\ Move(w, "filed") /\ file' = tx[w].conf
        /\ UNCHANGED <<network, peer, iface, serving, doubtful>>
    BY <1>5 DEF WriteFile
  <2>2. QED
    BY <1>2, <2>1, MoveKeepsIInv DEF Stages
<1>6. CASE TakeDown(w)
  <2>1. /\ tx[w].stage = "filed" /\ Move(w, "downed") /\ iface' = Down
        /\ UNCHANGED <<network, peer, file, serving, doubtful>>
    BY <1>6 DEF TakeDown
  <2>2. tx[w].solo => file = tx[w].conf
    BY <2>1 DEF IInv, SoloFresh
  <2>3. QED
    BY <1>1, <2>1, <2>2, MoveKeepsIInv DEF TypeOK, Stages
<1>7. CASE BringUp(w) \/ Commit(w)
  BY <1>7, BringUpKeepsIInv, CommitKeepsIInv
<1>8. QED
  BY <1>3, <1>4, <1>5, <1>6, <1>7 DEF Step

\* The invariant holds throughout.
THEOREM Invariant == Spec => []IInv
<1>1. Init => IInv
  BY InitIInv
<1>2. IInv /\ [Next]_vars => IInv'
  <2> SUFFICES ASSUME IInv, [Next]_vars PROVE IInv'
    OBVIOUS
  <2>1. CASE \E w \in Workers : Call(w) \/ Step(w)
    BY <2>1, CallKeepsIInv, StepKeepsIInv
  <2>2. CASE Crash \/ Restore \/ RestoreFails \/ StartBare
    BY <2>2, RestartKeepsIInv
  <2>3. CASE UNCHANGED vars
    BY <2>3 DEF vars, IInv, TypeOK, HandlersSound, Sound, Configured, SoloAlone, SoloFresh,
                RuntimeClean, After, AfterOf, DatabaseSays
  <2>4. QED
    BY <2>1, <2>2, <2>3 DEF Next
<1>3. QED
  BY <1>1, <1>2, PTL DEF Spec

\* Rows, configurations and handlers keep their types, for any number of workers and
\* tenants and under every fault.
THEOREM TypeCorrect == Spec => []TypeOK
<1>1. IInv => TypeOK
  BY DEF IInv
<1>2. QED
  BY <1>1, Invariant, PTL

\* Outside doubt, the interface at rest runs exactly what the database says: the order
\* flush, render, apply, commit and the restoration at start are enough for that.
THEOREM RuntimeFollowsDatabase == Spec => []RuntimeIsDatabase
<1>1. IInv => RuntimeIsDatabase
  BY DEF IInv, RuntimeClean, RuntimeIsDatabase, Settled
<1>2. QED
  BY <1>1, Invariant, PTL

----------------------------------------------------------------------------
(* The keys of revoked peers.                                              *)

\* Configuration c serves no key that belongs to a revoked row.
Withheld(c) ==
  \A a \in Addresses : peer[c.tenant][a].status = "off" => c.served[a] # peer[c.tenant][a].key

\* Every row has a key.
Keyed == \A t \in Tenants, a \in Addresses : peer[t][a].status # "absent" => peer[t][a].key # NoKey

\* What handler h may do to its row, however the rows have changed since it read them: insert
\* one with a key, or change one that is there.
RowSound(h) ==
  /\ "key" \in h.cols => h.row.key # NoKey
  /\ "status" \in h.cols => h.row.status # "absent"
  /\ "insert" \in h.cols => {"status", "key"} \subseteq h.cols
  /\ "insert" \notin h.cols => peer[h.tenant][h.addr].status # "absent"

RowsSound ==
  \A w \in Workers : tx[w].stage # "idle" /\ tx[w].op # "network" => RowSound(tx[w])

\* A change that enables a row gives it a key it does not have.
NewlyKeyed(h) ==
  "insert" \notin h.cols /\ "status" \in h.cols /\ h.row.status = "on" =>
    "key" \in h.cols /\ h.row.key # peer[h.tenant][h.addr].key

\* A handler that has had the server to itself enables a revoked row only with a new key,
\* inserts only what is still absent, and alone decides what the interface runs.
SoloSound ==
  \A w \in Workers : tx[w].solo =>
    /\ tx[w].op # "network" =>
         /\ NewlyKeyed(tx[w])
         /\ Holds(w) /\ "insert" \in tx[w].cols => peer[tx[w].tenant][tx[w].addr].status = "absent"
    /\ tx[w].stage = "downed" => iface = Down
    /\ tx[w].stage = "applied" => iface = After(w)

\* An interface that is ahead of the database since a commit failed serves no revoked key, and
\* nothing can be committed before another one replaces it.
FailedWithholds ==
  doubtful = "failed" =>
    /\ \A w \in Workers : tx[w].stage # "applied"
    /\ iface # Down => Withheld(iface)

KeyInv == Keyed /\ RowsSound /\ SoloSound /\ FailedWithholds

\* The configuration of rows that have keys serves no key of a row that is off.
LEMMA RenderWithholds ==
  ASSUME NEW t, NEW s, NEW rows, NEW a \in Addresses,
         rows[a].status # "absent" => rows[a].key # NoKey, rows[a].status = "off"
  PROVE  Render(t, s, rows).served[a] # rows[a].key
BY DEF Render

\* What a handler has applied but not committed serves no revoked key either.
LEMMA AppliedWithholds ==
  ASSUME TypeOK, Keyed, NEW w \in Workers, Sound(tx[w]),
         tx[w].op # "network" =>
           /\ NewlyKeyed(tx[w])
           /\ "insert" \in tx[w].cols => peer[tx[w].tenant][tx[w].addr].status = "absent"
  PROVE  Withheld(After(w))
<1> DEFINE h == tx[w]
           old == peer[h.tenant]
<1>1. /\ h \in Handlers /\ h.tenant \in Tenants
      /\ old \in [Addresses -> PeerRows] /\ h.row \in PeerRows
  BY DEF TypeOK, Sound, Handlers
<1>2. After(w).tenant = h.tenant
  BY <1>1, AfterType DEF Sound, After
<1> SUFFICES ASSUME NEW a \in Addresses, old[a].status = "off"
             PROVE  After(w).served[a] # old[a].key
  BY <1>2 DEF Withheld
<1>3. old[a].key # NoKey
  BY <1>1 DEF Keyed
<1>4. CASE h.op = "network"
  BY <1>3, <1>4 DEF After, AfterOf, Render
<1>5. CASE h.op # "network" /\ a # h.addr
  BY <1>1, <1>3, <1>5 DEF After, AfterOf, Render
<1>6. CASE h.op # "network" /\ a = h.addr
  <2>1. /\ "insert" \notin h.cols
        /\ "status" \in h.cols /\ h.row.status = "on" =>
             "key" \in h.cols /\ h.row.key # old[a].key
    BY <1>6 DEF NewlyKeyed
  <2>2. After(w).served[a] = IF Changed(old[a], h.cols, h.row).status = "on"
                             THEN Changed(old[a], h.cols, h.row).key ELSE NoKey
    BY <1>1, <1>6 DEF After, AfterOf, Render
  <2>3. QED
    BY <1>3, <2>1, <2>2 DEF Changed
<1>7. QED
  BY <1>4, <1>5, <1>6

\* What a handler may do to its row depends on its change only.
LEMMA ChangeSame ==
  ASSUME NEW g, NEW h, g.tenant = h.tenant, g.addr = h.addr, g.cols = h.cols, g.row = h.row
  PROVE  (RowSound(g) <=> RowSound(h)) /\ (NewlyKeyed(g) <=> NewlyKeyed(h))
BY DEF RowSound, NewlyKeyed

----------------------------------------------------------------------------
(* Calls.                                                                  *)

\* A handler that is sound about its row begins.
LEMMA BeginKeepsKeyInv ==
  ASSUME IInv, KeyInv, NEW w \in Workers, NEW h \in Handlers, Begin(w, h),
         h.stage = "begun", h.op # "network" => RowSound(h) /\ NewlyKeyed(h)
  PROVE  KeyInv'
<1> DEFINE alone == \A u \in Workers \ {w} : tx[u].stage = "idle"
           mine == [h EXCEPT !.solo = alone]
           others(v) == [tx[v] EXCEPT !.solo = FALSE]
<1>1. /\ tx' = [v \in Workers |-> IF v = w THEN mine ELSE others(v)]
      /\ UNCHANGED <<network, peer, file, iface, serving, doubtful>>
      /\ tx[w].stage = "idle"
  BY DEF Begin
<1>2. \A v \in Workers : tx[v] \in Handlers
  BY DEF IInv, TypeOK
<1>3. tx'[w] = mine /\ \A v \in Workers \ {w} : tx'[v] = others(v)
  BY <1>1
<1>4. /\ mine.stage = "begun" /\ mine.op = h.op
      /\ (RowSound(mine) <=> RowSound(h)) /\ (NewlyKeyed(mine) <=> NewlyKeyed(h))
  <2> HIDE DEF alone
  <2>1. /\ mine.stage = "begun" /\ mine.op = h.op
        /\ mine.tenant = h.tenant /\ mine.addr = h.addr /\ mine.cols = h.cols
        /\ mine.row = h.row
    BY DEF Handlers
  <2> HIDE DEF mine
  <2>2. QED
    BY <2>1, ChangeSame
<1>5. ASSUME NEW v \in Workers \ {w}
      PROVE  /\ ~ others(v).solo /\ others(v).stage = tx[v].stage /\ others(v).op = tx[v].op
             /\ RowSound(others(v)) <=> RowSound(tx[v])
  <2>1. /\ ~ others(v).solo /\ others(v).stage = tx[v].stage /\ others(v).op = tx[v].op
        /\ others(v).tenant = tx[v].tenant /\ others(v).addr = tx[v].addr
        /\ others(v).cols = tx[v].cols /\ others(v).row = tx[v].row
    BY <1>2 DEF Handlers
  <2> HIDE DEF others
  <2>2. QED
    BY <2>1, ChangeSame
<1> HIDE DEF mine, others
<1>7. Keyed'
  BY <1>1 DEF KeyInv, Keyed
<1>8. RowsSound'
  BY <1>1, <1>3, <1>4, <1>5 DEF KeyInv, RowsSound, RowSound
<1>9. SoloSound'
  BY <1>1, <1>3, <1>4, <1>5 DEF SoloSound, NewlyKeyed, Holds
<1>10. FailedWithholds'
  BY <1>1, <1>3, <1>4, <1>5 DEF KeyInv, FailedWithholds, Withheld
<1>11. QED
  BY <1>7, <1>8, <1>9, <1>10 DEF KeyInv

\* Every call is sound about its row: it inserts one with a key, it changes one that is
\* there, and only a key no row has yet enables a revoked one.
LEMMA CallKeepsKeyInv ==
  ASSUME IInv, KeyInv, NEW w \in Workers, Call(w)
  PROVE  KeyInv'
<1>1. TypeOK
  BY DEF IInv
<1>2. ASSUME NEW t \in Tenants, NEW a \in Addresses,
             NEW cols \in SUBSET {"insert", "status", "key"}, NEW row \in PeerRows,
             BeginPeer(w, t, a, cols, row),
             "key" \in cols => row.key # NoKey,
             "status" \in cols => row.status # "absent",
             "insert" \in cols => {"status", "key"} \subseteq cols,
             "insert" \notin cols => peer[t][a].status # "absent",
             "insert" \notin cols /\ "status" \in cols /\ row.status = "on" =>
               "key" \in cols /\ row.key # peer[t][a].key
      PROVE  KeyInv'
  <2> DEFINE h ==
        [stage |-> "begun", op |-> "peer", tenant |-> t, addr |-> a, cols |-> cols,
         row |-> row, net |-> NoNetwork, solo |-> FALSE,
         conf |-> Render(t, network[t].settings, [peer[t] EXCEPT ![a] = Changed(@, cols, row)])]
  <2>1. Configured(t) /\ Begin(w, h)
    BY <1>2 DEF BeginPeer
  <2>2. /\ peer[t] \in [Addresses -> PeerRows] /\ network[t].settings \in Settings
    BY <1>1, <2>1 DEF TypeOK, NetworkRows, Configured
  <2>3. [peer[t] EXCEPT ![a] = Changed(@, cols, row)] \in [Addresses -> PeerRows]
    BY <2>2, ChangedType
  <2>4. Render(t, network[t].settings, [peer[t] EXCEPT ![a] = Changed(@, cols, row)]) \in Configs
    BY <2>2, <2>3, RenderType
  <2>5. NoNetwork \in NetworkRows
    BY DEF NoNetwork, NetworkRows
  <2>6. h \in Handlers /\ h.stage = "begun"
    BY <2>4, <2>5 DEF Handlers, Stages
  <2>7. RowSound(h) /\ NewlyKeyed(h)
    <3>1. h.tenant = t /\ h.addr = a /\ h.cols = cols /\ h.row = row
      OBVIOUS
    <3> HIDE DEF h
    <3>2. QED
      BY <1>2, <3>1 DEF RowSound, NewlyKeyed
  <2> HIDE DEF h
  <2>8. QED
    BY <2>1, <2>6, <2>7, BeginKeepsKeyInv
<1>3. ASSUME NEW t \in Tenants, NEW s \in Settings, NEW n \in 1 .. MaxStamp,
             ConfigureNetwork(w, t, s, n)
      PROVE  KeyInv'
  <2> DEFINE h == [stage |-> "begun", op |-> "network", tenant |-> t, addr |-> Nothing,
                   cols |-> IF Configured(t) THEN {} ELSE {"insert"}, row |-> NoPeer,
                   net |-> [settings |-> s, stamp |-> n], solo |-> FALSE,
                   conf |-> Render(t, s, peer[t])]
  <2>1. Begin(w, h)
    BY <1>3 DEF ConfigureNetwork
  <2>2. Render(t, s, peer[t]) \in Configs
    BY <1>1, RenderType DEF TypeOK
  <2>3. NoPeer \in PeerRows /\ [settings |-> s, stamp |-> n] \in NetworkRows
    BY StampAssumption DEF NoPeer, PeerRows, NetworkRows
  <2>4. h \in Handlers /\ h.stage = "begun" /\ h.op = "network"
    BY <2>2, <2>3 DEF Handlers, Stages
  <2> HIDE DEF h
  <2>5. QED
    BY <2>1, <2>4, BeginKeepsKeyInv
<1>4. \A k \in Keys : [status |-> "on", key |-> k] \in PeerRows /\ k # NoKey
  BY ValuesAssumption DEF PeerRows
<1>5. NoPeer \in PeerRows /\ [status |-> "off", key |-> NoKey] \in PeerRows
  BY DEF PeerRows, NoPeer
<1>6. ASSUME NEW t \in Tenants, NEW a \in Addresses, NEW k \in Keys, CreatePeer(w, t, a, k)
      PROVE  KeyInv'
  BY <1>2, <1>4, <1>6 DEF CreatePeer
<1>7. ASSUME NEW t \in Tenants, NEW a \in Addresses, UpdateRoutes(w, t, a)
      PROVE  KeyInv'
  BY <1>2, <1>5, <1>7 DEF UpdateRoutes
<1>8. ASSUME NEW t \in Tenants, NEW a \in Addresses, RevokePeer(w, t, a)
      PROVE  KeyInv'
  <2> DEFINE cols == IF peer[t][a].status = "on" THEN {"status"} ELSE {}
  <2>1. cols \in SUBSET {"insert", "status", "key"} /\ "key" \notin cols /\ "insert" \notin cols
    OBVIOUS
  <2>2. BeginPeer(w, t, a, cols, [status |-> "off", key |-> NoKey]) /\ peer[t][a].status # "absent"
    BY <1>8 DEF RevokePeer
  <2> HIDE DEF cols
  <2>3. QED
    BY <1>2, <1>5, <2>1, <2>2
<1>9. ASSUME NEW t \in Tenants, NEW a \in Addresses, NEW k \in Keys, EnrollClient(w, t, a, k)
      PROVE  KeyInv'
  <2> DEFINE cols == CASE peer[t][a].status = "absent" -> {"insert", "status", "key"}
                       [] peer[t][a].status = "on" -> {"key"}
                       [] peer[t][a].status = "off" -> {"status", "key"}
  <2>1. peer[t][a].status \in {"absent", "on", "off"}
    BY <1>1 DEF TypeOK, PeerRows
  <2>2. /\ cols \in SUBSET {"insert", "status", "key"} /\ "key" \in cols
        /\ "insert" \in cols => "status" \in cols
        /\ "insert" \notin cols => peer[t][a].status # "absent"
    BY <2>1
  <2>3. /\ BeginPeer(w, t, a, cols, [status |-> "on", key |-> k])
        /\ peer[t][a].key # k
    BY <1>9 DEF EnrollClient, Fresh
  <2> HIDE DEF cols
  <2>4. QED
    BY <1>2, <1>4, <2>2, <2>3
<1>10. QED
  BY <1>3, <1>6, <1>7, <1>8, <1>9 DEF Call

----------------------------------------------------------------------------
(* Stages, whether handlers overlap or not.                                *)

\* Flushing, writing the file and taking the interface down keep the invariant.
LEMMA MoveKeepsKeyInv ==
  ASSUME IInv, KeyInv, NEW w \in Workers, NEW s \in {"flushed", "filed", "downed"},
         Move(w, s), tx[w].stage \in {"begun", "flushed", "filed"},
         UNCHANGED <<network, peer, doubtful>>,
         s = "flushed" => Unique(w), s # "flushed" => Holds(w),
         iface' = IF s = "downed" THEN Down ELSE iface
  PROVE  KeyInv'
<1>1. TypeOK /\ SoloAlone
  BY DEF IInv
<1>2. /\ tx' \in [Workers -> Handlers]
      /\ tx'[w].stage = s /\ tx'[w].solo = tx[w].solo
      /\ \A v \in Workers \ {w} : tx'[v] = tx[v]
  BY <1>1, MoveFacts DEF Stages
<1>3. /\ tx'[w].op = tx[w].op /\ tx'[w].tenant = tx[w].tenant /\ tx'[w].addr = tx[w].addr
      /\ tx'[w].cols = tx[w].cols /\ tx'[w].row = tx[w].row
  BY <1>1 DEF Move, TypeOK, Handlers
<1>4. \A v \in Workers \ {w} : ~ tx'[v].solo
  BY <1>1, <1>2, RunningSpoils
<1>5. Keyed'
  BY DEF KeyInv, Keyed
<1>6. RowsSound'
  BY <1>2, <1>3 DEF KeyInv, RowsSound, RowSound
<1>7. SoloSound'
  <2> SUFFICES ASSUME tx[w].solo
               PROVE  /\ tx[w].op # "network" =>
                           /\ NewlyKeyed(tx[w])'
                           /\ "insert" \in tx[w].cols =>
                                peer[tx[w].tenant][tx[w].addr].status = "absent"
                      /\ s = "downed" => iface' = Down
    BY <1>2, <1>3, <1>4 DEF SoloSound
  <2>1. tx[w].op # "network" => NewlyKeyed(tx[w])'
    BY <1>3 DEF KeyInv, SoloSound, NewlyKeyed
  <2>2. tx[w].op # "network" /\ "insert" \in tx[w].cols =>
          peer[tx[w].tenant][tx[w].addr].status = "absent"
    BY DEF KeyInv, SoloSound, Unique
  <2>3. QED
    BY <2>1, <2>2
<1>8. FailedWithholds'
  BY <1>2 DEF KeyInv, FailedWithholds, Withheld
<1>9. QED
  BY <1>5, <1>6, <1>7, <1>8 DEF KeyInv

\* wg-quick up brings up what a handler that runs alone is about to commit.
LEMMA BringUpKeepsKeyInv ==
  ASSUME IInv, KeyInv, NEW w \in Workers, BringUp(w)
  PROVE  KeyInv'
<1>1. /\ TypeOK /\ SoloAlone /\ SoloFresh /\ tx[w].stage = "downed" /\ Move(w, "applied")
      /\ iface' = file /\ doubtful' # "failed" /\ UNCHANGED <<network, peer>>
  BY DEF IInv, BringUp
<1>2. /\ tx' \in [Workers -> Handlers]
      /\ tx'[w].stage = "applied" /\ tx'[w].solo = tx[w].solo
      /\ \A v \in Workers \ {w} : tx'[v] = tx[v]
      /\ After(w)' = After(w)
  BY <1>1, MoveFacts DEF Stages
<1>3. /\ tx'[w].op = tx[w].op /\ tx'[w].tenant = tx[w].tenant /\ tx'[w].addr = tx[w].addr
      /\ tx'[w].cols = tx[w].cols /\ tx'[w].row = tx[w].row
  BY <1>1 DEF Move, TypeOK, Handlers
<1>4. \A v \in Workers \ {w} : ~ tx'[v].solo
  BY <1>1, <1>2, RunningSpoils
<1>5. Keyed' /\ FailedWithholds'
  BY <1>1 DEF KeyInv, Keyed, FailedWithholds
<1>6. RowsSound'
  BY <1>1, <1>2, <1>3 DEF KeyInv, RowsSound, RowSound
<1>7. SoloSound'
  <2> SUFFICES ASSUME tx[w].solo
               PROVE  /\ tx[w].op # "network" =>
                           /\ NewlyKeyed(tx[w])'
                           /\ "insert" \in tx[w].cols =>
                                peer[tx[w].tenant][tx[w].addr].status = "absent"
                      /\ iface' = After(w)'
    BY <1>1, <1>2, <1>3, <1>4 DEF SoloSound
  <2>1. tx[w].op # "network" => NewlyKeyed(tx[w])'
    BY <1>1, <1>3 DEF KeyInv, SoloSound, NewlyKeyed
  <2>2. tx[w].op # "network" /\ "insert" \in tx[w].cols =>
          peer[tx[w].tenant][tx[w].addr].status = "absent"
    BY <1>1 DEF KeyInv, SoloSound, Holds
  <2>3. file = After(w)
    BY <1>1 DEF SoloFresh
  <2>4. QED
    BY <1>1, <1>2, <2>1, <2>2, <2>3
<1>8. QED
  BY <1>5, <1>6, <1>7 DEF KeyInv

\* A handler that fails leaves rows and interface as they are.  One whose commit fails, and
\* that ran alone, leaves an interface that serves no revoked key.
LEMMA LeaveKeepsKeyInv ==
  ASSUME IInv, KeyInv, NEW w \in Workers, tx[w].stage # "idle",
         tx' = [tx EXCEPT ![w] = Idle], UNCHANGED <<network, peer, iface>>,
         \/ doubtful' = doubtful
         \/ tx[w].stage = "applied" /\ doubtful' = IF tx[w].solo THEN "failed" ELSE "raced"
  PROVE  KeyInv'
<1>1. TypeOK /\ SoloAlone
  BY DEF IInv
<1>2. /\ tx'[w].stage = "idle" /\ tx'[w].solo = FALSE
      /\ \A v \in Workers \ {w} : tx'[v] = tx[v]
  BY <1>1, LeaveFacts
<1>3. \A v \in Workers : ~ tx'[v].solo
  BY <1>1, <1>2, RunningSpoils
<1>4. Keyed' /\ SoloSound'
  BY <1>3 DEF KeyInv, Keyed, SoloSound
<1>5. RowsSound'
  BY <1>2 DEF KeyInv, RowsSound, RowSound
<1>6. FailedWithholds'
  <2>1. CASE doubtful' = doubtful
    BY <1>2, <2>1 DEF KeyInv, FailedWithholds, Withheld
  <2>2. CASE tx[w].stage = "applied" /\ tx[w].solo
    <3>1. Sound(tx[w]) /\ iface = After(w)
      BY <2>2 DEF IInv, HandlersSound, KeyInv, SoloSound
    <3>2. Withheld(iface)
      BY <1>1, <2>2, <3>1, AppliedWithholds DEF KeyInv, SoloSound, Holds
    <3>3. \A v \in Workers : tx'[v].stage = "idle"
      BY <1>1, <1>2, <2>2 DEF SoloAlone
    <3>4. QED
      BY <3>2, <3>3 DEF FailedWithholds, Withheld
  <2>3. CASE doubtful' = "raced"
    BY <2>3 DEF FailedWithholds
  <2>4. QED
    BY <2>1, <2>2, <2>3
<1>7. QED
  BY <1>4, <1>5, <1>6 DEF KeyInv

\* A commit leaves every row a key, and takes no row away from a handler that changes one.
LEMMA CommitKeepsKeyInv ==
  ASSUME IInv, KeyInv, NEW w \in Workers, Commit(w)
  PROVE  KeyInv'
<1>1. /\ TypeOK /\ SoloAlone /\ tx[w].stage = "applied" /\ tx' = [tx EXCEPT ![w] = Idle]
      /\ Stored(w) /\ UNCHANGED <<file, iface, doubtful>>
  BY DEF IInv, Commit
<1> DEFINE h == tx[w]
           t == h.tenant
<1>2. Sound(h) /\ h \in Handlers /\ t \in Tenants
  BY <1>1 DEF IInv, HandlersSound, TypeOK, Sound
<1>3. /\ tx'[w].stage = "idle" /\ tx'[w].solo = FALSE
      /\ \A v \in Workers \ {w} : tx'[v] = tx[v]
  BY <1>1, LeaveFacts
<1>4. \A v \in Workers : ~ tx'[v].solo
  BY <1>1, <1>3, RunningSpoils
<1>5. ASSUME NEW u \in Tenants, NEW a \in Addresses, peer'[u][a] # peer[u][a]
      PROVE  /\ peer'[u][a] = Changed(peer[u][a], h.cols, h.row)
             /\ h.op # "network" /\ u = t /\ a = h.addr
  <2>1. h.op # "network"
    BY <1>1, <1>5 DEF Stored
  <2>2. peer' = [peer EXCEPT ![t][h.addr] = Changed(@, h.cols, h.row)]
    BY <1>1, <2>1 DEF Stored
  <2>3. peer \in [Tenants -> [Addresses -> PeerRows]]
    BY <1>1 DEF TypeOK
  <2> HIDE DEF t, h
  <2>4. QED
    BY <1>5, <2>1, <2>2, <2>3
<1>6. ASSUME NEW u \in Tenants, NEW a \in Addresses
      PROVE  /\ peer[u][a].status # "absent" => peer'[u][a].status # "absent"
             /\ peer'[u][a].status # "absent" => peer'[u][a].key # NoKey
  <2>1. CASE peer'[u][a] = peer[u][a]
    BY <2>1 DEF KeyInv, Keyed
  <2>2. CASE peer'[u][a] # peer[u][a]
    <3>1. /\ peer'[u][a] = Changed(peer[u][a], h.cols, h.row)
          /\ h.op # "network" /\ u = t /\ a = h.addr
      BY <1>5, <2>2
    <3>2. RowSound(h)
      BY <1>1, <3>1 DEF KeyInv, RowsSound
    <3>3. "insert" \notin h.cols => peer[u][a].key # NoKey
      BY <3>1, <3>2 DEF KeyInv, Keyed, RowSound
    <3>4. QED
      BY <3>1, <3>2, <3>3 DEF RowSound, Changed
  <2>3. QED
    BY <2>1, <2>2
<1>7. Keyed'
  BY <1>6 DEF Keyed
<1>8. RowsSound'
  <2> SUFFICES ASSUME NEW v \in Workers \ {w}, tx[v].stage # "idle", tx[v].op # "network"
               PROVE  RowSound(tx[v])'
    BY <1>3 DEF RowsSound
  <2>1. RowSound(tx[v]) /\ tx[v].tenant \in Tenants /\ tx[v].addr \in Addresses /\ tx'[v] = tx[v]
    BY <1>3 DEF KeyInv, RowsSound, IInv, HandlersSound, Sound
  <2>2. QED
    BY <1>6, <2>1 DEF RowSound
<1>9. SoloSound' /\ FailedWithholds'
  BY <1>1, <1>4 DEF KeyInv, SoloSound, FailedWithholds
<1>10. QED
  BY <1>7, <1>8, <1>9 DEF KeyInv

\* Every stage of a handler keeps the invariant.
LEMMA StepKeepsKeyInv ==
  ASSUME IInv, KeyInv, NEW w \in Workers, Step(w)
  PROVE  KeyInv'
<1>1. CASE FlushFails(w) \/ WriteFails(w) \/ UpFails(w) \/ CommitFails(w)
  BY <1>1, LeaveKeepsKeyInv DEF FlushFails, WriteFails, UpFails, CommitFails
<1>2. CASE Flush(w)
  BY <1>2, MoveKeepsKeyInv DEF Flush
<1>3. CASE WriteFile(w)
  BY <1>3, MoveKeepsKeyInv DEF WriteFile, Holds
<1>4. CASE TakeDown(w)
  BY <1>4, MoveKeepsKeyInv DEF TakeDown, Holds
<1>5. CASE BringUp(w) \/ Commit(w)
  BY <1>5, BringUpKeepsKeyInv, CommitKeepsKeyInv
<1>6. QED
  BY <1>1, <1>2, <1>3, <1>4, <1>5 DEF Step

\* A restart brings up what the database says, or nothing.
LEMMA RestartKeepsKeyInv ==
  ASSUME IInv, KeyInv, Crash \/ Restore \/ RestoreFails \/ StartBare
  PROVE  KeyInv'
<1>1. UNCHANGED peer /\ \A w \in Workers : tx'[w].stage = "idle" /\ ~ tx'[w].solo
  <2>1. CASE Crash
    BY <2>1 DEF Crash, Idle
  <2>2. CASE Restore \/ RestoreFails \/ StartBare
    BY <2>2 DEF IInv, HandlersSound, SoloAlone, Restore, RestoreFails, StartBare
  <2>3. QED
    BY <2>1, <2>2
<1>2. Keyed' /\ RowsSound' /\ SoloSound'
  BY <1>1 DEF KeyInv, Keyed, RowsSound, SoloSound
<1>3. doubtful' = "failed" /\ iface' # Down => Withheld(iface')
  <2>1. CASE Crash
    BY <2>1 DEF Crash
  <2>2. CASE Restore
    <3>1. PICK t \in Tenants : iface' = Render(t, network[t].settings, peer[t])
      BY <2>2 DEF Restore
    <3>2. iface'.tenant = t
      BY <3>1 DEF Render
    <3>3. \A a \in Addresses : peer[t][a].status = "off" => iface'.served[a] # peer[t][a].key
      BY <3>1, RenderWithholds DEF KeyInv, Keyed
    <3>4. QED
      BY <3>2, <3>3 DEF Withheld
  <2>3. CASE RestoreFails \/ StartBare
    BY <2>3 DEF RestoreFails, StartBare, KeyInv, FailedWithholds
  <2>4. QED
    BY <2>1, <2>2, <2>3
<1>4. FailedWithholds'
  BY <1>1, <1>3 DEF FailedWithholds, Withheld
<1>5. QED
  BY <1>2, <1>4 DEF KeyInv

LEMMA KeyInvariant == Spec => []KeyInv
<1>1. Init => KeyInv
  BY DEF Init, Idle, NoPeer, KeyInv, Keyed, RowsSound, SoloSound, FailedWithholds
<1>2. IInv /\ KeyInv /\ [Next]_vars => KeyInv'
  <2> SUFFICES ASSUME IInv, KeyInv, [Next]_vars PROVE KeyInv'
    OBVIOUS
  <2>1. CASE \E w \in Workers : Call(w) \/ Step(w)
    BY <2>1, CallKeepsKeyInv, StepKeepsKeyInv
  <2>2. CASE Crash \/ Restore \/ RestoreFails \/ StartBare
    BY <2>2, RestartKeepsKeyInv
  <2>3. CASE UNCHANGED vars
    BY <2>3 DEF vars, KeyInv, Keyed, RowsSound, RowSound, SoloSound, NewlyKeyed, Holds,
                FailedWithholds, Withheld, After, AfterOf
  <2>4. QED
    BY <2>1, <2>2, <2>3 DEF Next
<1>3. QED
  BY <1>1, <1>2, Invariant, PTL DEF Spec

\* The key of a revoked peer is not served at rest by an interface that no race has brought up,
\* for any number of handlers, tenants and peers: not after a commit that failed once the
\* configuration was applied, not after a restart, and not after a revoked address was enrolled
\* again in vain.
THEOREM RevocationStands == Spec => []RevocationHolds
<1>1. IInv /\ KeyInv => RevocationHolds
  <2> SUFFICES ASSUME IInv, KeyInv, doubtful # "raced", Settled, iface # Down
               PROVE  Withheld(iface)
    BY DEF RevocationHolds, RevokedNotServed, Withheld
  <2>1. CASE doubtful = "failed"
    BY <2>1 DEF KeyInv, FailedWithholds
  <2>2. CASE doubtful = "no"
    <3>1. iface = DatabaseSays(iface.tenant)
      BY <2>2 DEF IInv, RuntimeClean, Settled
    <3>2. iface.tenant \in Tenants
      BY DEF IInv, TypeOK, Configs
    <3>3. \A a \in Addresses : peer[iface.tenant][a].status = "off" =>
            DatabaseSays(iface.tenant).served[a] # peer[iface.tenant][a].key
      BY <3>2, RenderWithholds DEF DatabaseSays, KeyInv, Keyed
    <3>4. QED
      BY <3>1, <3>3 DEF Withheld
  <2>3. QED
    BY <2>1, <2>2 DEF IInv, TypeOK
<1>2. QED
  BY <1>1, Invariant, KeyInvariant, PTL

----------------------------------------------------------------------------
(* Handlers that never overlap.                                            *)

\* At most one handler runs, whichever worker it has.
Serial ==
  \A v, w \in Workers : tx[v].stage # "idle" /\ tx[w].stage # "idle" => v = w

\* Without overlap every handler has the server to itself, and nothing is raced.
RunsAlone ==
  /\ \A w \in Workers : tx[w].stage # "idle" => tx[w].solo
  /\ doubtful # "raced"

LEMMA CallRunsAlone ==
  ASSUME IInv, RunsAlone, Serial', NEW w \in Workers, Call(w)
  PROVE  RunsAlone' /\ doubtful' = doubtful
<1>1. PICK op, t, a, cols, row, net, conf :
        Begin(w, [stage |-> "begun", op |-> op, tenant |-> t, addr |-> a, cols |-> cols,
                  row |-> row, net |-> net, solo |-> FALSE, conf |-> conf])
  BY DEF Call, ConfigureNetwork, CreatePeer, UpdateRoutes, RevokePeer, EnrollClient, BeginPeer
<1> DEFINE h == [stage |-> "begun", op |-> op, tenant |-> t, addr |-> a, cols |-> cols,
                 row |-> row, net |-> net, solo |-> FALSE, conf |-> conf]
           alone == \A u \in Workers \ {w} : tx[u].stage = "idle"
           mine == [h EXCEPT !.solo = alone]
           others(v) == [tx[v] EXCEPT !.solo = FALSE]
<1>2. /\ tx' = [v \in Workers |-> IF v = w THEN mine ELSE others(v)]
      /\ doubtful' = doubtful
  BY <1>1 DEF Begin
<1>3. mine.stage = "begun" /\ mine.solo = alone
  <2> HIDE DEF alone
  <2>1. QED
    OBVIOUS
<1>4. \A v \in Workers \ {w} : others(v).stage = tx[v].stage
  BY DEF IInv, TypeOK, Handlers
<1>5. tx'[w] = mine /\ \A v \in Workers \ {w} : tx'[v] = others(v)
  BY <1>2
<1> HIDE DEF mine, others
<1>6. \A v \in Workers \ {w} : tx'[v].stage = "idle" /\ tx[v].stage = "idle"
  BY <1>3, <1>4, <1>5 DEF Serial
<1>7. QED
  BY <1>2, <1>3, <1>5, <1>6 DEF RunsAlone

LEMMA StepRunsAlone ==
  ASSUME IInv, RunsAlone, Serial, NEW w \in Workers, Step(w)
  PROVE  RunsAlone'
<1>1. TypeOK
  BY DEF IInv
<1>2. ASSUME NEW s \in Stages, tx' = [tx EXCEPT ![w].stage = s], tx[w].stage # "idle"
      PROVE  \A v \in Workers : tx'[v].stage # "idle" => tx'[v].solo
  BY <1>1, <1>2 DEF TypeOK, Handlers, RunsAlone
<1>3. ASSUME tx' = [tx EXCEPT ![w] = Idle]
      PROVE  \A v \in Workers : tx'[v].stage # "idle" => tx'[v].solo
  BY <1>1, <1>3 DEF TypeOK, RunsAlone, Idle
<1>4. CASE Flush(w) \/ WriteFile(w) \/ TakeDown(w)
  BY <1>2, <1>4 DEF Flush, WriteFile, TakeDown, Move, Stages, RunsAlone
<1>5. CASE BringUp(w)
  BY <1>2, <1>5 DEF BringUp, Move, Stages, RunsAlone
<1>6. CASE FlushFails(w) \/ WriteFails(w) \/ UpFails(w) \/ Commit(w)
  BY <1>3, <1>6 DEF FlushFails, WriteFails, UpFails, Commit, RunsAlone
<1>7. CASE CommitFails(w)
  BY <1>3, <1>7 DEF CommitFails, RunsAlone
<1>8. QED
  BY <1>4, <1>5, <1>6, <1>7 DEF Step

LEMMA RestartRunsAlone ==
  ASSUME IInv, RunsAlone, Crash \/ Restore \/ RestoreFails \/ StartBare
  PROVE  RunsAlone'
BY DEF Crash, Idle, Restore, RestoreFails, StartBare, RunsAlone

LEMMA SerialRunsAlone == Spec /\ []Serial => []RunsAlone
<1>1. Init => RunsAlone
  BY DEF Init, Idle, RunsAlone
<1>2. IInv /\ RunsAlone /\ Serial /\ Serial' /\ [Next]_vars => RunsAlone'
  <2> SUFFICES ASSUME IInv, RunsAlone, Serial, Serial', [Next]_vars PROVE RunsAlone'
    OBVIOUS
  <2>1. CASE \E w \in Workers : Call(w) \/ Step(w)
    BY <2>1, CallRunsAlone, StepRunsAlone
  <2>2. CASE Crash \/ Restore \/ RestoreFails \/ StartBare
    BY <2>2, RestartRunsAlone
  <2>3. CASE UNCHANGED vars
    BY <2>3 DEF vars, RunsAlone
  <2>4. QED
    BY <2>1, <2>2, <2>3 DEF Next
<1>3. QED
  BY <1>1, <1>2, Invariant, PTL DEF Spec

\* As long as handlers do not overlap, the key of a revoked peer is not served when none runs,
\* without exception.
THEOREM SerialRevocationHolds == Spec /\ []Serial => []RevokedNotServed
<1>1. RunsAlone /\ RevocationHolds => RevokedNotServed
  BY DEF RunsAlone, RevocationHolds
<1>2. QED
  BY <1>1, SerialRunsAlone, RevocationStands, PTL

----------------------------------------------------------------------------
(* What handlers that do not overlap keep when one kind of fault is away.  *)

\* As long as handlers do not overlap and every commit succeeds, the interface runs exactly
\* the peers of the database whenever no handler runs, whatever calls of wg-quick, writes or
\* processes have failed before: there is no doubt (sync_vpn before the commit).
THEOREM SerialRuntimeIsDatabase ==
  ASSUME "commit" \notin Faults
  PROVE  Spec /\ []Serial =>
           [](Settled /\ iface # Down => iface = DatabaseSays(iface.tenant))
<1>1. Init => doubtful = "no"
  BY DEF Init
<1>2. IInv /\ RunsAlone /\ Serial' /\ doubtful = "no" /\ [Next]_vars => (doubtful = "no")'
  <2> SUFFICES ASSUME IInv, RunsAlone, Serial', doubtful = "no", Next PROVE doubtful' = "no"
    BY DEF vars
  <2>1. ASSUME NEW w \in Workers, Call(w) PROVE doubtful' = "no"
    BY <2>1, CallRunsAlone
  <2>2. ASSUME NEW w \in Workers, BringUp(w) PROVE doubtful' = "no"
    BY <2>2 DEF BringUp, RunsAlone
  <2>3. ASSUME NEW w \in Workers, Step(w), ~ BringUp(w) PROVE doubtful' = "no"
    BY <2>3 DEF Step, Flush, FlushFails, WriteFile, WriteFails, TakeDown, UpFails, Commit,
                CommitFails
  <2>4. CASE Crash \/ Restore \/ RestoreFails \/ StartBare
    BY <2>4 DEF Crash, Restore, RestoreFails, StartBare
  <2>5. QED
    BY <2>1, <2>2, <2>3, <2>4 DEF Next
<1>3. RuntimeIsDatabase /\ doubtful = "no" =>
        (Settled /\ iface # Down => iface = DatabaseSays(iface.tenant))
  BY DEF RuntimeIsDatabase
<1>4. QED
  BY <1>1, <1>2, <1>3, Invariant, SerialRunsAlone, RuntimeFollowsDatabase, PTL DEF Spec

\* A configured workspace is served unless a handler is between wg-quick down and up.
Served ==
  serving /\ (\E t \in Tenants : Configured(t)) /\ (\A w \in Workers : tx[w].stage # "downed")
    => iface # Down

\* As long as handlers do not overlap and wg-quick up succeeds, a change that fails leaves the
\* workspace served: a refused write, a lost commit or a restart does not take the interface
\* away (docs/PROJECT_DIRECTION.md 137).
THEOREM SerialFailureKeepsService ==
  ASSUME "up" \notin Faults
  PROVE  Spec /\ []Serial => []FailureKeepsService
<1>1. Init => Served
  BY DEF Init, Served, Configured, NoNetwork
<1>2. IInv /\ KeyInv /\ RunsAlone /\ Served /\ [Next]_vars => Served'
  <2> SUFFICES ASSUME IInv, KeyInv, RunsAlone, Served, [Next]_vars PROVE Served'
    OBVIOUS
  <2>1. TypeOK
    BY DEF IInv
  <2>2. ASSUME NEW w \in Workers, Call(w) PROVE Served'
    <3>1. PICK h : Begin(w, h)
      BY <2>2 DEF Call, ConfigureNetwork, CreatePeer, UpdateRoutes, RevokePeer, EnrollClient,
                  BeginPeer
    <3>2. /\ UNCHANGED <<network, iface, serving>> /\ tx[w].stage = "idle"
          /\ \A v \in Workers \ {w} : tx'[v] = [tx[v] EXCEPT !.solo = FALSE]
      BY <3>1 DEF Begin
    <3>3. \A v \in Workers \ {w} : tx[v] \in Handlers
      BY <2>1 DEF TypeOK
    <3>4. \A v \in Workers \ {w} : tx'[v].stage = tx[v].stage
      BY <3>2, <3>3 DEF Handlers
    <3>5. QED
      BY <3>2, <3>4 DEF Served, Configured
  <2>3. ASSUME NEW w \in Workers, Flush(w) \/ WriteFile(w) \/ FlushFails(w) \/ WriteFails(w)
        PROVE  Served'
    <3>1. /\ UNCHANGED <<network, iface, serving>>
          /\ tx[w].stage \in {"begun", "flushed"}
          /\ \A v \in Workers \ {w} : tx'[v] = tx[v]
      BY <2>1, <2>3 DEF Flush, WriteFile, FlushFails, WriteFails, Move, TypeOK
    <3>2. QED
      BY <3>1 DEF Served, Configured
  <2>4. ASSUME NEW w \in Workers, TakeDown(w) PROVE Served'
    <3>1. tx'[w].stage = "downed"
      BY <2>1, <2>4 DEF TakeDown, Move, TypeOK, Handlers
    <3>2. QED
      BY <3>1 DEF Served
  <2>5. ASSUME NEW w \in Workers, BringUp(w) PROVE Served'
    BY <2>5 DEF BringUp, Served
  <2>6. ASSUME NEW w \in Workers, UpFails(w) PROVE FALSE
    <3>1. tx[w].stage = "downed" /\ (iface # Down \/ file = Down)
      BY <2>6 DEF UpFails
    <3>2. iface = Down
      BY <3>1 DEF RunsAlone, KeyInv, SoloSound
    <3>3. file = tx[w].conf /\ tx[w].conf \in Configs
      BY <3>1 DEF RunsAlone, IInv, SoloFresh, HandlersSound, Sound
    <3>4. QED
      BY <3>1, <3>2, <3>3, ValuesAssumption DEF Down, Configs
  <2>7. ASSUME NEW w \in Workers, Commit(w) \/ CommitFails(w) PROVE Served'
    <3>1. tx[w].stage = "applied" /\ iface' = iface
      BY <2>7 DEF Commit, CommitFails
    <3>2. iface = After(w) /\ Sound(tx[w]) /\ tx[w] \in Handlers
      BY <2>1, <3>1 DEF RunsAlone, KeyInv, SoloSound, IInv, HandlersSound, TypeOK
    <3>3. After(w) # Down
      BY <2>1, <3>2, AfterType DEF Sound, After
    <3>4. QED
      BY <3>1, <3>2, <3>3 DEF Served
  <2>8. CASE Crash \/ Restore \/ RestoreFails \/ StartBare
    <3>1. CASE Crash
      BY <3>1 DEF Crash, Served
    <3>2. CASE Restore
      <4>1. PICK t \in Tenants :
              Configured(t) /\ iface' = Render(t, network[t].settings, peer[t])
        BY <3>2 DEF Restore, Newest
      <4>2. network[t].settings \in Settings /\ peer[t] \in [Addresses -> PeerRows]
        BY <2>1, <4>1 DEF TypeOK, NetworkRows, Configured
      <4>3. QED
        BY <4>1, <4>2, RenderType DEF Served
    <3>3. CASE RestoreFails
      BY <3>3 DEF RestoreFails
    <3>4. CASE StartBare
      BY <3>4 DEF StartBare, Served, Configured
    <3>5. QED
      BY <2>8, <3>1, <3>2, <3>3, <3>4
  <2>9. CASE UNCHANGED vars
    BY <2>9 DEF vars, Served, Configured
  <2>10. QED
    BY <2>2, <2>3, <2>4, <2>5, <2>6, <2>7, <2>8, <2>9 DEF Next, Step
<1>3. Served => FailureKeepsService
  BY DEF Served, FailureKeepsService, Settled
<1>4. QED
  BY <1>1, <1>2, <1>3, Invariant, KeyInvariant, SerialRunsAlone, PTL DEF Spec
=============================================================================
