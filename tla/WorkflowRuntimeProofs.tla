------------------------ MODULE WorkflowRuntimeProofs ------------------------
(***************************************************************************)
(* Safety of WorkflowRuntime for any number of requests, items and events. *)
(***************************************************************************)
EXTENDS WorkflowRuntime, FiniteSetTheorems, TLAPS

-----------------------------------------------------------------------------
(***************************************************************************)
(* The invariant.  Its parts are about values, so that what holds of a run *)
(* that does not move can be carried from one state to the next.           *)
(***************************************************************************)
\* The managed events of log l after m, up to n.
ManagedIn(l, m, n) == {k \in 1 .. Len(l) : m < k /\ k <= n /\ l[k].type \in Managed}

\* The events the audit rows S are about.
EventsOf(S) == {a.event : a \in {b \in S : b.event # 0}}

RowsTrue(S, l) ==
    \A a \in S : a.event # 0 => a.event \in 1 .. Len(l) /\ a.workflow = l[a.event].workflow

KeysTrue(K, S) ==
    \A k \in K : k.category = "escalation" =>
        \E a \in S : a.type = "escalate" /\ a.workflow = k.workflow /\ a.escalations = k.n

Backed(i, w, l) ==
    i.status \in TerminalStatus =>
        /\ i.resolved
        /\ i.approval \in 1 .. Len(l)
        /\ l[i.approval].type = "ApprovalRecorded"
        /\ l[i.approval].workflow = w
        /\ l[i.approval].status = i.status

OwnOnce(l) == \A m, n \in 1 .. Len(l) : l[m].own /\ l[m] = l[n] => m = n

\* Which call can be at which stage.
CallInv(x) ==
    /\ x.stage \in {"sequence", "append"} => x.call \in Decision \cup {"start_review"}
    /\ x.stage \in {"reread", "upsert", "record", "notify"} => x.call \in Manual
    /\ x.stage = "fetch" => x.call # "read"
    /\ x.stage \in InRefresh \cup {"lock"} /\ x.then = "fetch" => x.call # "read"

\* The event a decision has appended.
Appended(x, l) ==
    x.event # 0 => /\ x.event \in 1 .. Len(l)
                   /\ l[x.event].type \in Managed
                   /\ l[x.event].workflow = x.workflow

EventInv(x, l, c) ==
    /\ Appended(x, l)
    /\ x.event # 0 => /\ x.stage \in InRefresh => x.event <= x.upto
                      /\ x.stage = "answered" => x.event <= c

\* What a refresh has read and drafted since the cursor was at c.
RefreshInv(x, l, c) ==
    /\ c <= x.pos /\ x.pos <= x.upto /\ x.upto <= Len(l)
    /\ EventsOf(x.rows) = ManagedIn(l, c, IF x.stage = "write" THEN x.pos - 1 ELSE x.pos)
    /\ RowsTrue(x.rows, l)
    /\ KeysTrue(x.keys, x.rows)
    /\ \A w \in Workflow : Backed(x.drafts[w], w, l)
    /\ x.stage = "write" => /\ x.pos \in 1 .. Len(l) /\ c < x.pos
                            /\ l[x.pos].type \in Managed
                            /\ x.at = l[x.pos].workflow
                            /\ Backed(x.seen, x.at, l)
    /\ x.stage \in {"sweep", "escalate"} => ManagedIn(l, x.pos, x.upto) = {}

RunInv(x, l, c, S) ==
    /\ CallInv(x)
    /\ EventInv(x, l, c)
    /\ x.stage \in InRefresh => RefreshInv(x, l, c)
    /\ x.stage \notin InRefresh => x.rows = {} /\ x.keys = {} /\ x.drafts = NoItems
    /\ x.stage = "upsert" => Backed(x.seen, x.workflow, l)
    /\ x.stage = "notify" /\ x.call = "escalate" => EscalateRow(x.workflow, x.read) \in S

Inv ==
    /\ TypeOK
    /\ cursor <= Len(log)
    /\ OwnOnce(log)
    /\ EventsOf(actions) = ManagedIn(log, 0, cursor)
    /\ RowsTrue(actions, log)
    /\ KeysTrue(notices, actions)
    /\ \A w \in Workflow : Backed(items[w], w, log)
    /\ \A q, r \in Requester : run[q].stage \in InRefresh /\ run[r].stage \in InRefresh => q = r
    /\ \A r \in Requester : RunInv(run[r], log, cursor, actions)

-----------------------------------------------------------------------------
(***************************************************************************)
(* What is kept when the log, the cursor and the audit grow.               *)
(***************************************************************************)
\* l is kept, or an event is added to it.
Extends(l, k) == k = l \/ \E e \in Event : k = Append(l, e)

LEMMA ExtendsKeeps ==
    ASSUME NEW l \in Seq(Event), NEW k, Extends(l, k)
    PROVE  /\ k \in Seq(Event) /\ Len(l) \in Nat /\ Len(k) \in Nat /\ Len(l) <= Len(k)
           /\ \A n \in 1 .. Len(l) : n \in 1 .. Len(k) /\ k[n] = l[n]
<1>1. CASE k = l
  BY <1>1
<1>2. CASE \E e \in Event : k = Append(l, e)
  BY <1>2
<1> QED BY <1>1, <1>2 DEF Extends

LEMMA BackedKeeps ==
    ASSUME NEW l \in Seq(Event), NEW k, Extends(l, k), NEW i, NEW w, Backed(i, w, l)
    PROVE  Backed(i, w, k)
BY ExtendsKeeps DEF Backed

LEMMA RowsTrueKeeps ==
    ASSUME NEW l \in Seq(Event), NEW k, Extends(l, k), NEW S, RowsTrue(S, l)
    PROVE  RowsTrue(S, k)
BY ExtendsKeeps DEF RowsTrue

LEMMA ManagedKeeps ==
    ASSUME NEW l \in Seq(Event), NEW k, Extends(l, k), NEW m \in Nat, NEW n \in Nat, n <= Len(l)
    PROVE  ManagedIn(k, m, n) = ManagedIn(l, m, n)
BY ExtendsKeeps DEF ManagedIn

LEMMA KeysTrueKeeps ==
    ASSUME NEW K, NEW S, NEW T, S \subseteq T, KeysTrue(K, S)
    PROVE  KeysTrue(K, T)
BY DEF KeysTrue

LEMMA RunInvKeeps ==
    ASSUME NEW x \in Run, NEW l \in Seq(Event), NEW k, Extends(l, k),
           NEW c \in Nat, NEW d \in Nat, c <= d, x.stage \in InRefresh => d = c,
           NEW S, NEW T, S \subseteq T, RunInv(x, l, c, S)
    PROVE  RunInv(x, k, d, T)
<1>0. x.pos \in Nat /\ x.upto \in Nat /\ x.event \in Nat
  BY DEF Run
<1>1. EventInv(x, k, d)
  <2>1. EventInv(x, l, c)
    BY DEF RunInv
  <2> QED BY <1>0, <2>1, ExtendsKeeps DEF EventInv, Appended
<1>2. ASSUME x.stage \in InRefresh PROVE RefreshInv(x, k, d)
  <2>1. RefreshInv(x, l, c) /\ d = c
    BY <1>2 DEF RunInv
  <2>2. x.upto <= Len(k) /\ Len(l) \in Nat
    BY <1>0, <2>1, ExtendsKeeps DEF RefreshInv
  <2> DEFINE p == IF x.stage = "write" THEN x.pos - 1 ELSE x.pos
  <2>3. p \in Nat /\ p <= Len(l)
    BY <1>0, <2>1, <2>2 DEF RefreshInv
  <2>4. ManagedIn(k, c, p) = ManagedIn(l, c, p) /\ ManagedIn(k, x.pos, x.upto) = ManagedIn(l, x.pos, x.upto)
    BY <1>0, <2>1, <2>3, ManagedKeeps DEF RefreshInv
  <2>5. RowsTrue(x.rows, k) /\ \A w \in Workflow : Backed(x.drafts[w], w, k)
    BY <2>1, RowsTrueKeeps, BackedKeeps DEF RefreshInv
  <2>6. x.stage = "write" => /\ x.pos \in 1 .. Len(k) /\ c < x.pos
                             /\ k[x.pos].type \in Managed
                             /\ x.at = k[x.pos].workflow
                             /\ Backed(x.seen, x.at, k)
    BY <2>1, ExtendsKeeps, BackedKeeps DEF RefreshInv
  <2> QED BY <2>1, <2>2, <2>4, <2>5, <2>6 DEF RefreshInv
<1>3. x.stage = "upsert" => Backed(x.seen, x.workflow, k)
  BY BackedKeeps DEF RunInv
<1> QED BY <1>1, <1>2, <1>3 DEF RunInv

-----------------------------------------------------------------------------
(***************************************************************************)
(* The initial states, and a step of one process.                          *)
(***************************************************************************)
LEMMA NoItemType == NoItem \in Item /\ NoItems \in [Workflow -> Item] /\ \A w, l : Backed(NoItem, w, l)
BY DEF NoItem, NoItems, Item, Status, TerminalStatus, Backed

LEMMA StageNames ==
    /\ \A s \in {"idle", "lock", "fetch", "sequence", "append", "reread", "upsert", "record",
                 "notify", "answered"} : s \in Stage /\ s \notin InRefresh
    /\ \A s \in {"apply", "write", "sweep", "escalate"} : s \in Stage /\ s \in InRefresh
BY DEF Stage, InRefresh

LEMMA IdleType ==
    /\ Idle \in Run
    /\ \A l, c, S : RunInv(Idle, l, c, S)
    /\ Idle.stage = "idle" /\ Idle.rows = {} /\ Idle.keys = {} /\ Idle.drafts = NoItems
    /\ Idle.event = 0 /\ Idle.call = "read" /\ Idle.then = "fetch" /\ Idle.workflow \in Workflow
<1>1. (CHOOSE w \in Workflow : TRUE) \in Workflow
  BY WorkflowAssumption
<1>2. Idle \in Run
  BY <1>1, NoItemType, StageNames DEF Idle, Run, Call, Nearness
<1>3. /\ Idle.stage = "idle" /\ Idle.rows = {} /\ Idle.keys = {} /\ Idle.drafts = NoItems
      /\ Idle.event = 0 /\ Idle.call = "read" /\ Idle.then = "fetch" /\ Idle.workflow \in Workflow
  BY <1>1 DEF Idle
<1>4. \A l, c, S : RunInv(Idle, l, c, S)
  BY <1>3, StageNames DEF RunInv, CallInv, EventInv, Appended
<1> QED BY <1>2, <1>3, <1>4

LEMMA InitInv == Init => Inv
<1> SUFFICES ASSUME Init PROVE Inv
  OBVIOUS
<1>1. log = <<>> /\ log \in Seq(Event) /\ Len(log) = 0
  BY DEF Init
<1>2. TypeOK
  BY <1>1, NoItemType, IdleType, WorkflowAssumption DEF Init, TypeOK, Nearness
<1>3. \A w \in Workflow : Backed(items[w], w, log)
  BY NoItemType DEF Init, NoItems
<1>4. EventsOf(actions) = ManagedIn(log, 0, cursor)
  BY <1>1 DEF Init, EventsOf, ManagedIn
<1>5. \A r \in Requester : run[r] = Idle
  BY DEF Init
<1>6. OwnOnce(log) /\ RowsTrue(actions, log) /\ KeysTrue(notices, actions)
  BY <1>1 DEF Init, OwnOnce, RowsTrue, KeysTrue
<1>7. \A r \in Requester : run[r].stage \notin InRefresh /\ RunInv(run[r], log, cursor, actions)
  BY <1>5, IdleType, StageNames
<1>8. cursor <= Len(log)
  BY <1>1 DEF Init
<1> QED BY <1>2, <1>3, <1>4, <1>6, <1>7, <1>8 DEF Inv

\* A step of run r, which refreshes afterwards only if nobody else does.
LEMMA MoveSafe ==
    ASSUME Inv, NEW r \in Requester, NEW new \in Run, run' = [run EXCEPT ![r] = new],
           new.stage \in InRefresh =>
              run[r].stage \in InRefresh \/ \A o \in Requester : run[o].stage \notin InRefresh,
           RunInv(new, log', cursor', actions'),
           Extends(log, log'), OwnOnce(log'),
           cursor' \in Nat, cursor <= cursor', cursor' <= Len(log'),
           cursor' = cursor \/ run[r].stage \in InRefresh,
           items' \in [Workflow -> Item], \A w \in Workflow : Backed(items'[w], w, log'),
           actions \subseteq actions', actions' \subseteq ActionRow,
           EventsOf(actions') = ManagedIn(log', 0, cursor'), RowsTrue(actions', log'),
           notices' \subseteq Notice, KeysTrue(notices', actions'),
           due' = due, calls' \in 0 .. MaxCalls, crashes' \in 0 .. MaxCrashes
    PROVE  Inv'
<1>1. log \in Seq(Event) /\ cursor \in Nat /\ run \in [Requester -> Run]
  BY DEF Inv, TypeOK
<1>2. log' \in Seq(Event) /\ Len(log) \in Nat /\ Len(log') \in Nat /\ Len(log) <= Len(log')
  BY <1>1, ExtendsKeeps
<1>3. run'[r] = new /\ run' \in [Requester -> Run] /\ \A q \in Requester \ {r} : run'[q] = run[q]
  BY <1>1
<1>4. TypeOK'
  BY <1>2, <1>3 DEF TypeOK, Inv
<1>5. ASSUME NEW q \in Requester PROVE RunInv(run[q], log, cursor, actions)'
  <2>1. CASE q = r
    BY <1>3, <2>1
  <2>2. CASE q # r
    <3>1. run[q] \in Run /\ RunInv(run[q], log, cursor, actions) /\ run'[q] = run[q]
      BY <1>1, <1>3, <2>2 DEF Inv
    <3>2. run[q].stage \in InRefresh => cursor' = cursor
      BY <2>2 DEF Inv
    <3>3. RunInv(run[q], log', cursor', actions')
      BY <1>1, <3>1, <3>2, RunInvKeeps
    <3> QED BY <3>1, <3>3
  <2> QED BY <2>1, <2>2
<1>6. \A p, q \in Requester : run'[p].stage \in InRefresh /\ run'[q].stage \in InRefresh => p = q
  BY <1>3 DEF Inv
<1> QED BY <1>4, <1>5, <1>6 DEF Inv

\* A step of run r that changes nothing else.
LEMMA LocalSafe ==
    ASSUME Inv, NEW r \in Requester, NEW new \in Run, run' = [run EXCEPT ![r] = new],
           new.stage \in InRefresh =>
              run[r].stage \in InRefresh \/ \A o \in Requester : run[o].stage \notin InRefresh,
           RunInv(new, log, cursor, actions),
           UNCHANGED <<log, cursor, items, actions, notices, due>>,
           calls' \in 0 .. MaxCalls, crashes' \in 0 .. MaxCrashes
    PROVE  Inv'
<1>1. /\ Extends(log, log') /\ OwnOnce(log') /\ RunInv(new, log', cursor', actions')
      /\ EventsOf(actions') = ManagedIn(log', 0, cursor') /\ RowsTrue(actions', log')
      /\ KeysTrue(notices', actions') /\ \A w \in Workflow : Backed(items'[w], w, log')
      /\ cursor' <= Len(log') /\ cursor <= cursor' /\ cursor' \in Nat
  BY DEF Inv, TypeOK, Extends
<1>2. items' \in [Workflow -> Item] /\ actions' \subseteq ActionRow /\ notices' \subseteq Notice
  BY DEF Inv, TypeOK
<1> QED BY <1>1, <1>2, MoveSafe

-----------------------------------------------------------------------------
(***************************************************************************)
(* A run with another value in one of its fields is a run.                 *)
(***************************************************************************)
LEMMA RunFields ==
    ASSUME NEW w \in Run
    PROVE  /\ \A x \in Stage : [w EXCEPT !.stage = x] \in Run
           /\ \A x \in Call : [w EXCEPT !.call = x] \in Run
           /\ \A x \in RequestId \cup {NoRequest} : [w EXCEPT !.request = x] \in Run
           /\ \A x \in {"fetch", "again", "answer"} : [w EXCEPT !.then = x] \in Run
           /\ \A x \in [Workflow -> Nearness] : [w EXCEPT !.now = x] \in Run
           /\ \A x \in Nat : [w EXCEPT !.upto = x] \in Run /\ [w EXCEPT !.pos = x] \in Run
           /\ \A x \in Nat : [w EXCEPT !.seq = x] \in Run /\ [w EXCEPT !.event = x] \in Run
           /\ \A x \in [Workflow -> Item] :
                  [w EXCEPT !.drafts = x] \in Run /\ [w EXCEPT !.sweep = x] \in Run
           /\ \A x \in SUBSET ActionRow : [w EXCEPT !.rows = x] \in Run
           /\ \A x \in SUBSET Notice : [w EXCEPT !.keys = x] \in Run
           /\ \A x \in Workflow :
                  [w EXCEPT !.at = x] \in Run /\ [w EXCEPT !.workflow = x] \in Run
           /\ \A x \in Item : [w EXCEPT !.seen = x] \in Run /\ [w EXCEPT !.read = x] \in Run
<1>1. /\ \A x \in Stage : [w EXCEPT !.stage = x] \in Run
      /\ \A x \in Call : [w EXCEPT !.call = x] \in Run
      /\ \A x \in RequestId \cup {NoRequest} : [w EXCEPT !.request = x] \in Run
      /\ \A x \in {"fetch", "again", "answer"} : [w EXCEPT !.then = x] \in Run
  BY DEF Run
<1>2. /\ \A x \in [Workflow -> Nearness] : [w EXCEPT !.now = x] \in Run
      /\ \A x \in [Workflow -> Item] :
             [w EXCEPT !.drafts = x] \in Run /\ [w EXCEPT !.sweep = x] \in Run
  BY DEF Run
<1>3. /\ \A x \in Nat : [w EXCEPT !.upto = x] \in Run /\ [w EXCEPT !.pos = x] \in Run
      /\ \A x \in Nat : [w EXCEPT !.seq = x] \in Run /\ [w EXCEPT !.event = x] \in Run
  BY DEF Run
<1>4. /\ \A x \in SUBSET ActionRow : [w EXCEPT !.rows = x] \in Run
      /\ \A x \in SUBSET Notice : [w EXCEPT !.keys = x] \in Run
  BY DEF Run
<1>5. /\ \A x \in Workflow :
             [w EXCEPT !.at = x] \in Run /\ [w EXCEPT !.workflow = x] \in Run
      /\ \A x \in Item : [w EXCEPT !.seen = x] \in Run /\ [w EXCEPT !.read = x] \in Run
  BY DEF Run
<1> QED BY <1>1, <1>2, <1>3, <1>4, <1>5

(***************************************************************************)
(* Every step keeps the invariant.                                         *)
(***************************************************************************)
LEMMA RunFacts ==
    ASSUME Inv, NEW r \in Requester
    PROVE  /\ run[r] \in Run /\ RunInv(run[r], log, cursor, actions)
           /\ run[r].pos \in Nat /\ run[r].upto \in Nat /\ run[r].workflow \in Workflow
           /\ run[r].seen \in Item /\ run[r].read \in Item /\ run[r].event \in Nat
           /\ run[r].at \in Workflow /\ run[r].drafts \in [Workflow -> Item]
           /\ run[r].sweep \in [Workflow -> Item] /\ run[r].now \in [Workflow -> Nearness]
           /\ run[r].rows \subseteq ActionRow /\ run[r].keys \subseteq Notice
           /\ run[r].call \in Call /\ run[r].request \in RequestId \cup {NoRequest}
           /\ log \in Seq(Event) /\ Len(log) \in Nat /\ cursor \in Nat
           /\ items \in [Workflow -> Item] /\ due \in [Workflow -> Nearness]
           /\ actions \subseteq ActionRow /\ notices \subseteq Notice
           /\ calls \in 0 .. MaxCalls /\ crashes \in 0 .. MaxCrashes
BY DEF Inv, TypeOK, Run

\* What StartRefresh makes of a process's variables.
LEMMA LockStage ==
    ASSUME NEW x \in Run, NEW then \in {"fetch", "again", "answer"},
           NEW d \in [Workflow -> Nearness], NEW l, NEW c, NEW S,
           x.rows = {}, x.keys = {}, x.drafts = NoItems, Appended(x, l),
           then = "fetch" => x.call # "read",
           NEW new, new = [[x EXCEPT !.then = then, !.now = d] EXCEPT !.stage = "lock"]
    PROVE  new \in Run /\ new.stage = "lock" /\ RunInv(new, l, c, S)
<1>1. /\ new \in Run /\ new.stage = "lock" /\ new.then = then /\ new.rows = {} /\ new.keys = {}
      /\ new.drafts = NoItems /\ new.call = x.call /\ new.event = x.event
      /\ new.workflow = x.workflow
  BY StageNames DEF Run
<1> QED BY <1>1, StageNames DEF RunInv, CallInv, EventInv, Appended

LEMMA BeginCallSafe ==
    ASSUME Inv, NEW r \in Requester, NEW c \in Call, NEW w \in Workflow,
           NEW q \in RequestId \cup {NoRequest}, BeginCall(r, c, w, q)
    PROVE  Inv'
<1> DEFINE local == [Idle EXCEPT !.call = c, !.workflow = w, !.request = q]
           then == IF c = "read" THEN "answer" ELSE "fetch"
           new == [[local EXCEPT !.then = then, !.now = due] EXCEPT !.stage = "lock"]
<1>1. /\ local \in Run /\ local.rows = {} /\ local.keys = {} /\ local.drafts = NoItems
      /\ local.event = 0 /\ local.call = c
  <2>1. local \in Run
    BY IdleType, RunFields
  <2>2. /\ local.rows = {} /\ local.keys = {} /\ local.drafts = NoItems
        /\ local.event = 0 /\ local.call = c
    BY IdleType DEF Run
  <2> QED BY <2>1, <2>2
<1>2. /\ run' = [run EXCEPT ![r] = new] /\ calls' = calls + 1 /\ calls < MaxCalls
      /\ UNCHANGED <<log, cursor, items, actions, notices, due, crashes>>
  BY DEF BeginCall, StartRefresh, Goto
<1>3. new \in Run /\ new.stage = "lock" /\ RunInv(new, log, cursor, actions)
  <2> HIDE DEF local
  <2>1. Appended(local, log)
    BY <1>1 DEF Appended
  <2>2. due \in [Workflow -> Nearness] /\ then \in {"fetch", "again", "answer"}
    BY RunFacts
  <2>3. then = "fetch" => local.call # "read"
    BY <1>1
  <2> HIDE DEF then
  <2> QED BY <1>1, <2>1, <2>2, <2>3, LockStage
<1>4. calls' \in 0 .. MaxCalls /\ crashes' \in 0 .. MaxCrashes
  BY <1>2, RunFacts, WorkflowAssumption
<1> HIDE DEF new
<1> QED BY <1>2, <1>3, <1>4, LocalSafe, StageNames

LEMMA ReturnSafe ==
    ASSUME Inv, NEW r \in Requester, Return(r), NEW K \in SUBSET Notice, NEW S \in SUBSET ActionRow,
           UNCHANGED <<log, cursor, items, due, calls>>, crashes' \in 0 .. MaxCrashes,
           actions' = actions \cup S, \A a \in S : a.event = 0,
           notices' = notices \cup K, KeysTrue(K, actions')
    PROVE  Inv'
<1>1. EventsOf(actions') = EventsOf(actions)
  BY DEF EventsOf
<1>2. RowsTrue(actions', log) /\ KeysTrue(notices', actions')
  BY DEF RowsTrue, KeysTrue, Inv
<1>3. actions' \subseteq ActionRow /\ notices' \subseteq Notice /\ calls' \in 0 .. MaxCalls
  BY RunFacts
<1>4. /\ Extends(log, log') /\ OwnOnce(log') /\ EventsOf(actions') = ManagedIn(log', 0, cursor')
      /\ \A w \in Workflow : Backed(items'[w], w, log') /\ items' \in [Workflow -> Item]
      /\ cursor' <= Len(log') /\ cursor <= cursor' /\ cursor' \in Nat
  BY <1>1, RunFacts DEF Inv, Extends
<1> QED BY <1>2, <1>3, <1>4, MoveSafe, IdleType, StageNames DEF Return

\* Other producers and the clock leave the runs alone.
LEMMA OutsideSafe ==
    ASSUME Inv, Extends(log, log'), OwnOnce(log'), due' \in [Workflow -> Nearness],
           UNCHANGED <<cursor, items, actions, notices, run, calls, crashes>>
    PROVE  Inv'
<1>1. log \in Seq(Event) /\ cursor \in Nat /\ run \in [Requester -> Run]
  BY DEF Inv, TypeOK
<1>2. log' \in Seq(Event) /\ cursor <= Len(log') /\ ManagedIn(log', 0, cursor) = ManagedIn(log, 0, cursor)
  BY <1>1, ExtendsKeeps, ManagedKeeps DEF Inv
<1>3. RowsTrue(actions, log') /\ \A w \in Workflow : Backed(items[w], w, log')
  BY <1>1, RowsTrueKeeps, BackedKeeps DEF Inv
<1>4. \A r \in Requester : RunInv(run[r], log', cursor, actions)
  BY <1>1, RunInvKeeps DEF Inv
<1>5. TypeOK'
  BY <1>2 DEF TypeOK, Inv
<1> QED BY <1>2, <1>3, <1>4, <1>5 DEF Inv

LEMMA AppendExternalSafe ==
    ASSUME Inv, NEW e \in External, AppendExternal(e)
    PROVE  Inv'
<1>1. e \in Event /\ ~e.own
  BY WorkflowAssumption
<1>2. log \in Seq(Event) /\ log' = Append(log, e) /\ due' = due
      /\ UNCHANGED <<cursor, items, actions, notices, run, calls, crashes>>
  BY DEF AppendExternal, Inv, TypeOK
<1>3. Extends(log, log')
  BY <1>1, <1>2 DEF Extends
<1>4. OwnOnce(log')
  <2>1. /\ Len(log) \in Nat /\ Len(log') = Len(log) + 1 /\ log'[Len(log) + 1] = e
        /\ \A n \in 1 .. Len(log) : log'[n] = log[n]
    BY <1>1, <1>2
  <2>2. \A m, n \in 1 .. Len(log) : log[m].own /\ log[m] = log[n] => m = n
    BY DEF Inv, OwnOnce
  <2> SUFFICES ASSUME NEW m \in 1 .. Len(log'), NEW n \in 1 .. Len(log'),
                      log'[m].own, log'[m] = log'[n]
               PROVE  m = n
    BY DEF OwnOnce
  <2>3. m \in 1 .. Len(log) /\ n \in 1 .. Len(log)
    BY <1>1, <2>1
  <2> QED BY <2>1, <2>2, <2>3
<1> QED BY <1>2, <1>3, <1>4, OutsideSafe DEF Inv, TypeOK

LEMMA TimePassesSafe ==
    ASSUME Inv, NEW w \in Workflow, TimePasses(w)
    PROVE  Inv'
<1>1. due \in [Workflow -> Nearness]
  BY DEF Inv, TypeOK
<1>2. due' \in [Workflow -> Nearness]
  BY <1>1 DEF TimePasses, Nearness
<1> QED BY <1>2, OutsideSafe DEF TimePasses, Extends, Inv

LEMMA LockRuntimeSafe ==
    ASSUME Inv, NEW r \in Requester, LockRuntime(r)
    PROVE  Inv'
<1> DEFINE new == [[run[r] EXCEPT !.upto = Len(log), !.pos = cursor] EXCEPT !.stage = "apply"]
<1>1. /\ run' = [run EXCEPT ![r] = new] /\ run[r].stage = "lock"
      /\ \A o \in Requester : run[o].stage \notin InRefresh
      /\ UNCHANGED <<log, cursor, items, actions, notices, due, calls, crashes>>
  BY DEF LockRuntime, Goto
<1>2. /\ new \in Run /\ new.stage = "apply" /\ new.upto = Len(log) /\ new.pos = cursor
      /\ new.rows = run[r].rows /\ new.keys = run[r].keys /\ new.drafts = run[r].drafts
      /\ new.call = run[r].call /\ new.event = run[r].event /\ new.workflow = run[r].workflow
      /\ new.then = run[r].then
  <2>1. new \in Run
    BY StageNames, RunFacts, RunFields
  <2>2. /\ new.stage = "apply" /\ new.upto = Len(log) /\ new.pos = cursor
        /\ new.rows = run[r].rows /\ new.keys = run[r].keys
        /\ new.drafts = run[r].drafts /\ new.call = run[r].call
        /\ new.event = run[r].event /\ new.workflow = run[r].workflow
        /\ new.then = run[r].then
    BY RunFacts DEF Run
  <2> QED BY <2>1, <2>2
<1> HIDE DEF new
<1>3. run[r].rows = {} /\ run[r].keys = {} /\ run[r].drafts = NoItems
  BY <1>1, RunFacts, StageNames DEF RunInv
<1>4. CallInv(new) /\ EventInv(new, log, cursor)
  BY <1>1, <1>2, RunFacts, StageNames DEF RunInv, CallInv, EventInv, Appended
<1>5. EventsOf({}) = {} /\ ManagedIn(log, cursor, cursor) = {}
  BY RunFacts DEF EventsOf, ManagedIn
<1>6. \A w \in Workflow : Backed(new.drafts[w], w, log)
  BY <1>2, <1>3, NoItemType DEF NoItems
<1>7. RefreshInv(new, log, cursor)
  <2>1. RowsTrue(new.rows, log) /\ KeysTrue(new.keys, new.rows)
    BY <1>2, <1>3 DEF RowsTrue, KeysTrue
  <2>2. cursor <= Len(log)
    BY DEF Inv
  <2>3. new.stage \notin {"write", "sweep", "escalate"}
    BY <1>2
  <2>4. cursor \in Nat /\ Len(log) \in Nat
    BY RunFacts
  <2>5. EventsOf(new.rows) = ManagedIn(log, cursor, new.pos)
    BY <1>2, <1>3, <1>5
  <2>6. cursor <= new.pos /\ new.pos <= new.upto /\ new.upto <= Len(log)
    BY <1>2, <2>2, <2>4
  <2> QED BY <1>6, <2>1, <2>3, <2>5, <2>6 DEF RefreshInv
<1>8. RunInv(new, log, cursor, actions)
  BY <1>2, <1>4, <1>7, StageNames DEF RunInv
<1> QED BY <1>1, <1>2, <1>8, RunFacts, LocalSafe

\* The row that a refresh reads is as well backed as the rows it is read from.
LEMMA SeenBacked ==
    ASSUME Inv, NEW r \in Requester, run[r].stage \in InRefresh, NEW w \in Workflow
    PROVE  Seen(r, w) \in Item /\ Backed(Seen(r, w), w, log)
<1>1. RefreshInv(run[r], log, cursor)
  BY RunFacts DEF RunInv
<1> QED BY <1>1, RunFacts DEF Seen, RefreshInv, Inv

LEMMA ReadItemSafe ==
    ASSUME Inv, NEW r \in Requester, ReadItem(r)
    PROVE  Inv'
<1>1. PICK n \in 1 .. Len(log) :
        /\ IsNext(r, n)
        /\ Goto(r, "write", [run[r] EXCEPT !.pos = n, !.at = log[n].workflow,
                                           !.seen = Seen(r, log[n].workflow)])
  BY DEF ReadItem
<1> DEFINE w == log[n].workflow
           new == [[run[r] EXCEPT !.pos = n, !.at = w, !.seen = Seen(r, w)] EXCEPT !.stage = "write"]
<1>2. /\ run' = [run EXCEPT ![r] = new] /\ run[r].stage = "apply"
      /\ UNCHANGED <<log, cursor, items, actions, notices, due, calls, crashes>>
  BY <1>1 DEF ReadItem, Goto
<1>3. w \in Workflow /\ n \in Nat /\ Len(log) \in Nat
  <2>1. log[n] \in Event /\ n \in Nat /\ Len(log) \in Nat
    BY RunFacts
  <2> QED BY <2>1 DEF Event
<1> HIDE DEF w
<1>4. Seen(r, w) \in Item /\ Backed(Seen(r, w), w, log)
  BY <1>2, <1>3, SeenBacked, StageNames
<1>5. /\ new \in Run /\ new.stage = "write" /\ new.upto = run[r].upto /\ new.pos = n
      /\ new.rows = run[r].rows /\ new.keys = run[r].keys /\ new.drafts = run[r].drafts
      /\ new.call = run[r].call /\ new.event = run[r].event /\ new.workflow = run[r].workflow
      /\ new.then = run[r].then /\ new.at = w /\ new.seen = Seen(r, w)
  <2>1. new \in Run
    BY <1>3, <1>4, StageNames, RunFacts, RunFields
  <2>2. /\ new.stage = "write" /\ new.upto = run[r].upto /\ new.pos = n
        /\ new.rows = run[r].rows /\ new.keys = run[r].keys
        /\ new.drafts = run[r].drafts /\ new.call = run[r].call
        /\ new.event = run[r].event /\ new.workflow = run[r].workflow
        /\ new.then = run[r].then /\ new.at = w /\ new.seen = Seen(r, w)
    BY <1>3, <1>4, RunFacts DEF Run
  <2> QED BY <2>1, <2>2
<1> HIDE DEF new
<1>6. RefreshInv(run[r], log, cursor)
  BY <1>2, RunFacts, StageNames DEF RunInv
<1>7. CallInv(new) /\ EventInv(new, log, cursor)
  BY <1>2, <1>5, RunFacts, StageNames DEF RunInv, CallInv, EventInv, Appended
<1>8. /\ run[r].pos < n /\ n <= run[r].upto /\ log[n].type \in Managed
      /\ \A m \in run[r].pos + 1 .. run[r].upto : log[m].type \in Managed => n <= m
  BY <1>1, RunFacts DEF IsNext, Pending
<1>9. ManagedIn(log, cursor, n - 1) = ManagedIn(log, cursor, run[r].pos)
  <2>1. \A m \in 1 .. Len(log) : m <= n - 1 /\ log[m].type \in Managed => m <= run[r].pos
    BY <1>1, <1>8, RunFacts
  <2>2. \A m \in 1 .. Len(log) : m <= run[r].pos => m <= n - 1
    BY <1>1, <1>8, RunFacts
  <2> QED BY <2>1, <2>2 DEF ManagedIn
<1>10. RefreshInv(new, log, cursor)
  <2>1. /\ cursor <= run[r].pos /\ run[r].upto <= Len(log)
        /\ EventsOf(run[r].rows) = ManagedIn(log, cursor, run[r].pos)
        /\ RowsTrue(run[r].rows, log) /\ KeysTrue(run[r].keys, run[r].rows)
        /\ \A v \in Workflow : Backed(run[r].drafts[v], v, log)
    BY <1>2, <1>6, StageNames DEF RefreshInv
  <2>2. cursor < n /\ n \in 1 .. Len(log) /\ n <= run[r].upto
    BY <1>3, <1>8, <2>1, RunFacts
  <2>3. EventsOf(new.rows) = ManagedIn(log, cursor, n - 1)
    BY <1>5, <1>9, <2>1
  <2>4. new.at = log[n].workflow
    BY <1>5 DEF w
  <2>5. /\ new.drafts = run[r].drafts /\ new.rows = run[r].rows /\ new.keys = run[r].keys
        /\ new.pos = n /\ new.upto = run[r].upto /\ new.stage = "write"
        /\ Backed(new.seen, new.at, log)
    BY <1>4, <1>5
  <2>6. new.pos \in 1 .. Len(log) /\ cursor <= new.pos /\ cursor < new.pos /\ new.pos <= new.upto
        /\ new.upto <= Len(log)
    BY <2>1, <2>2, <2>5, RunFacts
  <2> QED BY <1>8, <2>1, <2>3, <2>4, <2>5, <2>6 DEF RefreshInv
<1>11. RunInv(new, log, cursor, actions)
  BY <1>5, <1>7, <1>10, StageNames DEF RunInv
<1> QED BY <1>2, <1>5, <1>11, RunFacts, LocalSafe, StageNames

LEMMA ItemAfterBacked ==
    ASSUME log \in Seq(Event), NEW n \in 1 .. Len(log), log[n].type \in Managed,
           NEW i \in Item, NEW w, w = log[n].workflow, Backed(i, w, log)
    PROVE  ItemAfter(i, n) \in Item /\ Backed(ItemAfter(i, n), w, log)
<1>1. /\ log[n] \in Event /\ n \in Nat /\ log[n].status \in Status
      /\ "requested" \in Status /\ "requested" \notin TerminalStatus
  <2>1. log[n] \in Event /\ n \in Nat
    OBVIOUS
  <2> QED BY <2>1 DEF Event, Status, OpenStatus, TerminalStatus
<1>2. CASE log[n].type = "ApprovalRecorded"
  <2> DEFINE j == Decided(i, n)
  <2>1. j \in Item /\ j.status = log[n].status /\ j.resolved = TRUE /\ j.approval = n
    BY <1>1 DEF Decided, Item
  <2> HIDE DEF j
  <2>2. Backed(j, w, log)
    BY <1>2, <2>1 DEF Backed
  <2> QED BY <1>2, <2>1, <2>2 DEF ItemAfter, j
<1>3. CASE log[n].type # "ApprovalRecorded"
  <2> DEFINE k == (log[n].type = "WorkflowReviewRequested")
             j == Requested(i, k)
  <2>0. k \in BOOLEAN /\ i.resolved \in BOOLEAN /\ i.status \in Status
    BY DEF Item
  <2> HIDE DEF k
  <2>1. /\ j.status = (IF i.status \in TerminalStatus THEN i.status ELSE "requested")
        /\ j.approval = i.approval /\ j \in Item
    BY <1>1, <2>0 DEF Requested, Item
  <2>2. i.status \in TerminalStatus /\ i.resolved => j.resolved
    BY <2>0 DEF Requested, Item
  <2> HIDE DEF j
  <2>3. Backed(j, w, log)
    BY <1>1, <2>1, <2>2 DEF Backed
  <2> QED BY <1>3, <2>1, <2>3 DEF ItemAfter, j, k
<1> QED BY <1>2, <1>3

LEMMA WriteItemSafe ==
    ASSUME Inv, NEW r \in Requester, WriteItem(r)
    PROVE  Inv'
<1> DEFINE n == run[r].pos
           w == run[r].at
           d == [run[r].drafts EXCEPT ![w] = ItemAfter(run[r].seen, n)]
           R == run[r].rows \cup {SourceRow(n)}
           K == run[r].keys \cup {NoticeOf(n)}
           new == [[run[r] EXCEPT !.drafts = d, !.rows = R, !.keys = K] EXCEPT !.stage = "apply"]
<1>1. /\ run' = [run EXCEPT ![r] = new] /\ run[r].stage = "write"
      /\ UNCHANGED <<log, cursor, items, actions, notices, due, calls, crashes>>
  BY DEF WriteItem, Goto
<1>2. RefreshInv(run[r], log, cursor)
  BY <1>1, RunFacts, StageNames DEF RunInv
<1>3. /\ n \in 1 .. Len(log) /\ cursor < n /\ log[n].type \in Managed /\ w = log[n].workflow
      /\ Backed(run[r].seen, w, log) /\ w \in Workflow /\ log[n] \in Event
  BY <1>1, <1>2, RunFacts DEF RefreshInv
<1>4. ItemAfter(run[r].seen, n) \in Item /\ Backed(ItemAfter(run[r].seen, n), w, log)
  BY <1>3, RunFacts, ItemAfterBacked
<1>5. d \in [Workflow -> Item] /\ \A v \in Workflow : Backed(d[v], v, log)
  BY <1>2, <1>3, <1>4, RunFacts DEF RefreshInv
<1> DEFINE a == SourceRow(n)
           k == NoticeOf(n)
<1>6. a \in ActionRow /\ a.event = n /\ a.workflow = log[n].workflow
  BY <1>3 DEF SourceRow, ActionRow, Manual
<1>7. k \in Notice /\ k.category # "escalation"
  BY <1>3 DEF NoticeOf, Notice
<1> HIDE DEF a, k
<1>8. R = run[r].rows \cup {a} /\ K = run[r].keys \cup {k}
  BY DEF a, k
<1> HIDE DEF d, R, K
<1>9. R \subseteq ActionRow /\ K \subseteq Notice
  BY <1>6, <1>7, <1>8, RunFacts
<1>10. /\ new \in Run /\ new.stage = "apply" /\ new.upto = run[r].upto /\ new.pos = n
       /\ new.rows = R /\ new.keys = K /\ new.drafts = d
       /\ new.call = run[r].call /\ new.event = run[r].event /\ new.workflow = run[r].workflow
       /\ new.then = run[r].then
  <2>1. new \in Run
    BY <1>5, <1>9, StageNames, RunFacts, RunFields
  <2>2. /\ new.stage = "apply" /\ new.upto = run[r].upto /\ new.pos = n
        /\ new.rows = R /\ new.keys = K /\ new.drafts = d
        /\ new.call = run[r].call /\ new.event = run[r].event
        /\ new.workflow = run[r].workflow /\ new.then = run[r].then
    BY <1>5, <1>9, RunFacts DEF Run
  <2> QED BY <2>1, <2>2
<1> HIDE DEF new
<1>11. CallInv(new) /\ EventInv(new, log, cursor)
  BY <1>1, <1>10, RunFacts, StageNames DEF RunInv, CallInv, EventInv, Appended
<1>12. EventsOf(R) = ManagedIn(log, cursor, n)
  <2>1. EventsOf(run[r].rows) = ManagedIn(log, cursor, n - 1)
    BY <1>1, <1>2 DEF RefreshInv
  <2>2. EventsOf(R) = EventsOf(run[r].rows) \cup {n}
    BY <1>3, <1>6, <1>8 DEF EventsOf
  <2>3. ManagedIn(log, cursor, n) = ManagedIn(log, cursor, n - 1) \cup {n}
    BY <1>3, RunFacts DEF ManagedIn
  <2> QED BY <2>1, <2>2, <2>3
<1>13. RowsTrue(R, log) /\ KeysTrue(K, R)
  BY <1>2, <1>3, <1>6, <1>7, <1>8 DEF RowsTrue, KeysTrue, RefreshInv
<1>14. cursor <= n /\ n <= run[r].upto /\ run[r].upto <= Len(log)
  BY <1>2 DEF RefreshInv
<1>15. RefreshInv(new, log, cursor)
  <2>1. new.stage \notin {"write", "sweep", "escalate"}
    BY <1>10
  <2> HIDE DEF n, w
  <2> QED BY <1>5, <1>10, <1>12, <1>13, <1>14, <2>1 DEF RefreshInv
<1>16. RunInv(new, log, cursor, actions)
  BY <1>10, <1>11, <1>15, StageNames DEF RunInv
<1> QED BY <1>1, <1>10, <1>16, RunFacts, LocalSafe, StageNames

\* A step of the sweep changes what it has to look at and its drafts.
LEMMA SweepStep ==
    ASSUME Inv, NEW r \in Requester, NEW new \in Run,
           run[r].stage \in {"apply", "sweep", "escalate"}, new.stage \in {"sweep", "escalate"},
           run[r].stage = "apply" => Pending(r) = {},
           new.upto = run[r].upto, new.pos = run[r].pos, new.call = run[r].call,
           new.event = run[r].event, new.workflow = run[r].workflow, new.then = run[r].then,
           EventsOf(new.rows) = EventsOf(run[r].rows), RowsTrue(new.rows, log),
           KeysTrue(new.keys, new.rows), \A w \in Workflow : Backed(new.drafts[w], w, log),
           run' = [run EXCEPT ![r] = new],
           UNCHANGED <<log, cursor, items, actions, notices, due, calls, crashes>>
    PROVE  Inv'
<1>1. RefreshInv(run[r], log, cursor) /\ run[r].stage \in InRefresh /\ new.stage \in InRefresh
  BY RunFacts, StageNames DEF RunInv
<1>2. CallInv(new) /\ EventInv(new, log, cursor)
  BY <1>1, RunFacts, StageNames DEF RunInv, CallInv, EventInv, Appended
<1>3. ManagedIn(log, run[r].pos, run[r].upto) = {}
  <2>1. CASE run[r].stage = "apply"
    BY <2>1, <1>1, RunFacts DEF ManagedIn, Pending
  <2> QED BY <1>1, <2>1 DEF RefreshInv
<1>4. RefreshInv(new, log, cursor)
  BY <1>1, <1>3 DEF RefreshInv
<1>5. RunInv(new, log, cursor, actions)
  BY <1>1, <1>2, <1>4, StageNames DEF RunInv
<1> QED BY <1>1, <1>5, RunFacts, LocalSafe

LEMMA BeginSweepSafe ==
    ASSUME Inv, NEW r \in Requester, BeginSweep(r)
    PROVE  Inv'
<1> DEFINE open == [w \in Workflow |-> IF IsOpen(Seen(r, w)) THEN Seen(r, w) ELSE NoItem]
           new == [[run[r] EXCEPT !.sweep = open] EXCEPT !.stage = "sweep"]
<1>1. /\ run' = [run EXCEPT ![r] = new] /\ run[r].stage = "apply" /\ Pending(r) = {}
      /\ UNCHANGED <<log, cursor, items, actions, notices, due, calls, crashes>>
  BY DEF BeginSweep, Goto
<1>2. RefreshInv(run[r], log, cursor)
  BY <1>1, RunFacts, StageNames DEF RunInv
<1>3. open \in [Workflow -> Item]
  BY <1>1, SeenBacked, NoItemType, StageNames
<1> HIDE DEF open
<1>4. /\ new \in Run /\ new.stage = "sweep" /\ new.upto = run[r].upto /\ new.pos = run[r].pos
      /\ new.rows = run[r].rows /\ new.keys = run[r].keys /\ new.drafts = run[r].drafts
      /\ new.call = run[r].call /\ new.event = run[r].event /\ new.workflow = run[r].workflow
      /\ new.then = run[r].then
  <2>1. new \in Run
    BY <1>3, StageNames, RunFacts, RunFields
  <2>2. /\ new.stage = "sweep" /\ new.upto = run[r].upto /\ new.pos = run[r].pos
        /\ new.rows = run[r].rows /\ new.keys = run[r].keys
        /\ new.drafts = run[r].drafts /\ new.call = run[r].call
        /\ new.event = run[r].event /\ new.workflow = run[r].workflow
        /\ new.then = run[r].then
    BY <1>3, RunFacts DEF Run
  <2> QED BY <2>1, <2>2
<1> HIDE DEF new
<1>5. RowsTrue(new.rows, log) /\ KeysTrue(new.keys, new.rows)
      /\ \A w \in Workflow : Backed(new.drafts[w], w, log)
  BY <1>2, <1>4 DEF RefreshInv
<1> QED BY <1>1, <1>4, <1>5, SweepStep

LEMMA WarnDeadlineSafe ==
    ASSUME Inv, NEW r \in Requester, NEW w \in Workflow, WarnDeadline(r, w)
    PROVE  Inv'
<1> DEFINE warn == {k \in {[category |-> "deadline_risk", workflow |-> w, n |-> 0]} :
                      run[r].now[w] = "soon"}
           K == run[r].keys \cup warn
           left == [run[r].sweep EXCEPT ![w] = NoItem]
           new == [[run[r] EXCEPT !.sweep = left, !.keys = K] EXCEPT !.stage = "sweep"]
<1>1. /\ run' = [run EXCEPT ![r] = new] /\ run[r].stage = "sweep"
      /\ UNCHANGED <<log, cursor, items, actions, notices, due, calls, crashes>>
  BY DEF WarnDeadline, Goto
<1>2. RefreshInv(run[r], log, cursor)
  BY <1>1, RunFacts, StageNames DEF RunInv
<1>3. left \in [Workflow -> Item] /\ K \subseteq Notice /\ \A k \in warn : k.category # "escalation"
  BY RunFacts, NoItemType DEF Notice
<1>4. KeysTrue(K, run[r].rows)
  BY <1>2, <1>3 DEF KeysTrue, RefreshInv
<1> HIDE DEF left, K
<1>5. /\ new \in Run /\ new.stage = "sweep" /\ new.upto = run[r].upto /\ new.pos = run[r].pos
      /\ new.rows = run[r].rows /\ new.keys = K /\ new.drafts = run[r].drafts
      /\ new.call = run[r].call /\ new.event = run[r].event /\ new.workflow = run[r].workflow
      /\ new.then = run[r].then
  <2>1. new \in Run
    BY <1>3, StageNames, RunFacts, RunFields
  <2>2. /\ new.stage = "sweep" /\ new.upto = run[r].upto /\ new.pos = run[r].pos
        /\ new.rows = run[r].rows /\ new.keys = K /\ new.drafts = run[r].drafts
        /\ new.call = run[r].call /\ new.event = run[r].event
        /\ new.workflow = run[r].workflow /\ new.then = run[r].then
    BY <1>3, RunFacts DEF Run
  <2> QED BY <2>1, <2>2
<1> HIDE DEF new
<1>6. RowsTrue(new.rows, log) /\ KeysTrue(new.keys, new.rows)
      /\ \A v \in Workflow : Backed(new.drafts[v], v, log)
  BY <1>2, <1>4, <1>5 DEF RefreshInv
<1> QED BY <1>1, <1>5, <1>6, SweepStep

LEMMA ReadOverdueSafe ==
    ASSUME Inv, NEW r \in Requester, NEW w \in Workflow, ReadOverdue(r, w)
    PROVE  Inv'
<1> DEFINE new == [[run[r] EXCEPT !.at = w, !.seen = Seen(r, w)] EXCEPT !.stage = "escalate"]
<1>1. /\ run' = [run EXCEPT ![r] = new] /\ run[r].stage = "sweep"
      /\ UNCHANGED <<log, cursor, items, actions, notices, due, calls, crashes>>
  BY DEF ReadOverdue, Goto
<1>2. RefreshInv(run[r], log, cursor) /\ Seen(r, w) \in Item
  BY <1>1, RunFacts, StageNames, SeenBacked DEF RunInv
<1>3. /\ new \in Run /\ new.stage = "escalate" /\ new.upto = run[r].upto /\ new.pos = run[r].pos
      /\ new.rows = run[r].rows /\ new.keys = run[r].keys /\ new.drafts = run[r].drafts
      /\ new.call = run[r].call /\ new.event = run[r].event /\ new.workflow = run[r].workflow
      /\ new.then = run[r].then
  <2>1. new \in Run
    BY <1>2, StageNames, RunFacts, RunFields
  <2>2. /\ new.stage = "escalate" /\ new.upto = run[r].upto
        /\ new.pos = run[r].pos /\ new.rows = run[r].rows
        /\ new.keys = run[r].keys /\ new.drafts = run[r].drafts
        /\ new.call = run[r].call /\ new.event = run[r].event
        /\ new.workflow = run[r].workflow /\ new.then = run[r].then
    BY <1>2, RunFacts DEF Run
  <2> QED BY <2>1, <2>2
<1> HIDE DEF new
<1>4. RowsTrue(new.rows, log) /\ KeysTrue(new.keys, new.rows)
      /\ \A v \in Workflow : Backed(new.drafts[v], v, log)
  BY <1>2, <1>3 DEF RefreshInv
<1> QED BY <1>1, <1>3, <1>4, SweepStep

LEMMA EscalatedType ==
    ASSUME NEW listed \in Item, NEW item \in Item, NEW w \in Workflow
    PROVE  /\ Escalated(listed, item) \in Item
           /\ \A l : Backed(Escalated(listed, item), w, l)
           /\ EscalateRow(w, listed) \in ActionRow /\ EscalateRow(w, listed).event = 0
           /\ EscalationNotice(w, listed) \in Notice
           /\ \A S : EscalateRow(w, listed) \in S => KeysTrue({EscalationNotice(w, listed)}, S)
<1>1. listed.escalations + 1 \in Nat
  BY DEF Item
<1> DEFINE i == Escalated(listed, item)
<1>2. i \in Item /\ i.status = "escalated"
  BY <1>1 DEF Escalated, Item, Status, OpenStatus
<1> HIDE DEF i
<1>3. \A l : Backed(i, w, l)
  BY <1>2 DEF Backed, TerminalStatus
<1>4. EscalateRow(w, listed) \in ActionRow /\ EscalateRow(w, listed).event = 0
  BY <1>1 DEF EscalateRow, ActionRow, Manual
<1>5. EscalationNotice(w, listed) \in Notice
  BY <1>1 DEF EscalationNotice, Notice
<1>6. \A S : EscalateRow(w, listed) \in S => KeysTrue({EscalationNotice(w, listed)}, S)
  BY DEF EscalateRow, EscalationNotice, KeysTrue
<1> QED BY <1>2, <1>3, <1>4, <1>5, <1>6 DEF i

LEMMA EscalateOverdueSafe ==
    ASSUME Inv, NEW r \in Requester, EscalateOverdue(r)
    PROVE  Inv'
<1> DEFINE w == run[r].at
           listed == run[r].sweep[w]
           item == Escalated(listed, run[r].seen)
           row == EscalateRow(w, listed)
           key == EscalationNotice(w, listed)
           D == [run[r].drafts EXCEPT ![w] = item]
           left == [run[r].sweep EXCEPT ![w] = NoItem]
           R == run[r].rows \cup {row}
           K == run[r].keys \cup {key}
           new == [[run[r] EXCEPT !.drafts = D, !.sweep = left, !.rows = R, !.keys = K]
                      EXCEPT !.stage = "sweep"]
<1>1. /\ run' = [run EXCEPT ![r] = new] /\ run[r].stage = "escalate"
      /\ UNCHANGED <<log, cursor, items, actions, notices, due, calls, crashes>>
  BY DEF EscalateOverdue, Goto
<1>2. RefreshInv(run[r], log, cursor)
  BY <1>1, RunFacts, StageNames DEF RunInv
<1>3. w \in Workflow /\ listed \in Item /\ run[r].seen \in Item
  BY RunFacts
<1> HIDE DEF w, listed
<1>4. /\ item \in Item /\ Backed(item, w, log) /\ row \in ActionRow /\ row.event = 0
      /\ key \in Notice /\ KeysTrue({key}, R)
  <2>1. row \in R
    OBVIOUS
  <2> HIDE DEF R
  <2>2. /\ item \in Item /\ \A l : Backed(item, w, l)
        /\ row \in ActionRow /\ row.event = 0 /\ key \in Notice
        /\ \A S : row \in S => KeysTrue({key}, S)
    BY <1>3, EscalatedType
  <2> HIDE DEF item, row, key
  <2> QED BY <2>1, <2>2
<1> HIDE DEF item, row, key
<1>5. /\ D \in [Workflow -> Item] /\ left \in [Workflow -> Item]
      /\ \A v \in Workflow : Backed(D[v], v, log)
  BY <1>2, <1>3, <1>4, RunFacts, NoItemType DEF RefreshInv
<1>6. R \subseteq ActionRow /\ K \subseteq Notice
  BY <1>4, RunFacts
<1>7. EventsOf(R) = EventsOf(run[r].rows)
  BY <1>4 DEF EventsOf
<1>8. RowsTrue(R, log)
  BY <1>2, <1>4 DEF RowsTrue, RefreshInv
<1>9. KeysTrue(K, R)
  BY <1>2, <1>4 DEF KeysTrue, RefreshInv
<1> HIDE DEF D, left, R, K
<1>10. /\ new \in Run /\ new.stage = "sweep" /\ new.upto = run[r].upto /\ new.pos = run[r].pos
       /\ new.rows = R /\ new.keys = K /\ new.drafts = D
       /\ new.call = run[r].call /\ new.event = run[r].event /\ new.workflow = run[r].workflow
       /\ new.then = run[r].then
  <2>1. new \in Run
    BY <1>5, <1>6, StageNames, RunFacts, RunFields
  <2>2. /\ new.stage = "sweep" /\ new.upto = run[r].upto /\ new.pos = run[r].pos
        /\ new.rows = R /\ new.keys = K /\ new.drafts = D
        /\ new.call = run[r].call /\ new.event = run[r].event
        /\ new.workflow = run[r].workflow /\ new.then = run[r].then
    BY <1>5, <1>6, RunFacts DEF Run
  <2> QED BY <2>1, <2>2
<1> HIDE DEF new
<1> QED BY <1>1, <1>5, <1>7, <1>8, <1>9, <1>10, SweepStep

\* The variables of a process after its refresh has committed.
LEMMA CommittedRun ==
    ASSUME Inv, NEW r \in Requester, CommitRefresh(r), NEW S
    PROVE  \E new \in Run : /\ run' = [run EXCEPT ![r] = new]
                            /\ new.stage \notin InRefresh
                            /\ RunInv(new, log, run[r].pos, S)
<1> DEFINE local == [Idle EXCEPT !.call = run[r].call, !.workflow = run[r].workflow,
                                 !.request = run[r].request, !.event = run[r].event]
<1>1. /\ run[r].stage = "sweep"
      /\ CASE run[r].then = "fetch" -> Goto(r, "fetch", local)
           [] run[r].then = "again" -> StartRefresh(r, "answer", local)
           [] run[r].then = "answer" -> Goto(r, "answered", [local EXCEPT !.now = run[r].now])
  BY DEF CommitRefresh
<1>2. /\ RefreshInv(run[r], log, cursor) /\ EventInv(run[r], log, cursor) /\ CallInv(run[r])
      /\ run[r].stage \in InRefresh
  BY <1>1, RunFacts, StageNames DEF RunInv
<1>3. /\ local \in Run /\ local.rows = {} /\ local.keys = {} /\ local.drafts = NoItems
      /\ local.event = run[r].event /\ local.call = run[r].call
      /\ local.workflow = run[r].workflow /\ local.stage = "idle"
  <2>1. local \in Run
    BY RunFacts, IdleType, RunFields
  <2>2. /\ local.rows = {} /\ local.keys = {} /\ local.drafts = NoItems
        /\ local.event = run[r].event /\ local.call = run[r].call
        /\ local.workflow = run[r].workflow /\ local.stage = "idle"
    BY RunFacts, IdleType DEF Run
  <2> QED BY <2>1, <2>2
<1> HIDE DEF local
<1>4. Appended(local, log)
  BY <1>2, <1>3 DEF EventInv, Appended
<1>5. run[r].then \in {"fetch", "again", "answer"}
  BY RunFacts DEF Run
<1>6. CASE run[r].then = "fetch"
  <2> DEFINE new == [local EXCEPT !.stage = "fetch"]
  <2>1. run' = [run EXCEPT ![r] = new]
    BY <1>1, <1>6 DEF Goto
  <2>2. /\ new \in Run /\ new.stage = "fetch" /\ new.rows = {} /\ new.keys = {}
        /\ new.drafts = NoItems /\ new.event = run[r].event /\ new.call = run[r].call
        /\ new.workflow = run[r].workflow
    BY <1>3, StageNames DEF Run
  <2> HIDE DEF new
  <2>3. new.call # "read"
    BY <1>2, <1>6, <2>2 DEF CallInv
  <2>4. RunInv(new, log, run[r].pos, S)
    BY <1>3, <1>4, <2>2, <2>3, StageNames DEF RunInv, CallInv, EventInv, Appended
  <2> QED BY <2>1, <2>2, <2>4, StageNames
<1>7. CASE run[r].then = "again"
  <2> DEFINE new == [[local EXCEPT !.then = "answer", !.now = due] EXCEPT !.stage = "lock"]
  <2>1. run' = [run EXCEPT ![r] = new]
    BY <1>1, <1>7 DEF Goto, StartRefresh
  <2>2. due \in [Workflow -> Nearness]
    BY RunFacts
  <2>3. new \in Run /\ new.stage = "lock" /\ RunInv(new, log, run[r].pos, S)
    BY <1>3, <1>4, <2>2, LockStage
  <2> HIDE DEF new
  <2> QED BY <2>1, <2>3, StageNames
<1>8. CASE run[r].then = "answer"
  <2> DEFINE new == [[local EXCEPT !.now = run[r].now] EXCEPT !.stage = "answered"]
  <2>1. run' = [run EXCEPT ![r] = new]
    BY <1>1, <1>8 DEF Goto
  <2>2. /\ new \in Run /\ new.stage = "answered" /\ new.rows = {} /\ new.keys = {}
        /\ new.drafts = NoItems /\ new.event = run[r].event /\ new.call = run[r].call
        /\ new.workflow = run[r].workflow
    <3>1. new \in Run
      BY <1>3, RunFacts, StageNames, RunFields
    <3>2. /\ new.stage = "answered" /\ new.rows = {} /\ new.keys = {}
          /\ new.drafts = NoItems /\ new.event = run[r].event
          /\ new.call = run[r].call /\ new.workflow = run[r].workflow
      BY <1>3, RunFacts DEF Run
    <3> QED BY <3>1, <3>2
  <2> HIDE DEF new
  <2>3. run[r].event # 0 => run[r].event <= run[r].pos
    <3>1. run[r].event # 0 => /\ run[r].event <= run[r].upto /\ run[r].event \in 1 .. Len(log)
                              /\ log[run[r].event].type \in Managed
      BY <1>2 DEF EventInv, Appended
    <3>2. ManagedIn(log, run[r].pos, run[r].upto) = {}
      BY <1>1, <1>2 DEF RefreshInv
    <3> QED BY <3>1, <3>2, RunFacts DEF ManagedIn
  <2>4. RunInv(new, log, run[r].pos, S)
    BY <1>3, <1>4, <2>2, <2>3, StageNames DEF RunInv, CallInv, EventInv, Appended
  <2> QED BY <2>1, <2>2, <2>4, StageNames
<1> QED BY <1>5, <1>6, <1>7, <1>8

LEMMA CommitRefreshSafe ==
    ASSUME Inv, NEW r \in Requester, CommitRefresh(r)
    PROVE  Inv'
<1>1. /\ run[r].stage = "sweep" /\ run[r].sweep = NoItems
      /\ items' = [w \in Workflow |-> Seen(r, w)] /\ cursor' = run[r].pos
      /\ actions' = actions \cup run[r].rows /\ notices' = notices \cup run[r].keys
      /\ UNCHANGED <<log, due, calls, crashes>>
  BY DEF CommitRefresh
<1>2. RefreshInv(run[r], log, cursor) /\ run[r].stage \in InRefresh
  BY <1>1, RunFacts, StageNames DEF RunInv
<1>3. PICK new \in Run : /\ run' = [run EXCEPT ![r] = new]
                         /\ new.stage \notin InRefresh
                         /\ RunInv(new, log, run[r].pos, actions')
  BY CommittedRun
<1>4. items' \in [Workflow -> Item] /\ \A w \in Workflow : Backed(items'[w], w, log')
  BY <1>1, <1>2, SeenBacked
<1>5. EventsOf(actions') = ManagedIn(log', 0, cursor')
  <2>1. EventsOf(run[r].rows) = ManagedIn(log, cursor, run[r].pos) /\ cursor <= run[r].pos
    BY <1>1, <1>2 DEF RefreshInv
  <2>2. EventsOf(actions) = ManagedIn(log, 0, cursor)
    BY DEF Inv
  <2>3. EventsOf(actions') = EventsOf(actions) \cup EventsOf(run[r].rows)
    BY <1>1 DEF EventsOf
  <2>4. ManagedIn(log, 0, run[r].pos) = ManagedIn(log, 0, cursor) \cup ManagedIn(log, cursor, run[r].pos)
    BY <2>1, RunFacts DEF ManagedIn
  <2> QED BY <1>1, <2>1, <2>2, <2>3, <2>4
<1>6. RowsTrue(actions', log') /\ KeysTrue(notices', actions')
  BY <1>1, <1>2 DEF RefreshInv, RowsTrue, KeysTrue, Inv
<1>7. cursor' \in Nat /\ cursor <= cursor' /\ cursor' <= Len(log') /\ Extends(log, log') /\ OwnOnce(log')
  <2>1. cursor <= run[r].pos /\ run[r].pos <= run[r].upto /\ run[r].upto <= Len(log)
    BY <1>2 DEF RefreshInv
  <2>2. run[r].pos <= Len(log)
    BY <2>1, RunFacts
  <2> QED BY <1>1, <2>1, <2>2, RunFacts DEF Extends, Inv
<1>8. actions' \subseteq ActionRow /\ notices' \subseteq Notice /\ calls' \in 0 .. MaxCalls
      /\ crashes' \in 0 .. MaxCrashes /\ actions \subseteq actions' /\ due' = due
  BY <1>1, RunFacts
<1>9. RunInv(new, log', cursor', actions')
  BY <1>1, <1>3
<1> QED BY <1>2, <1>3, <1>4, <1>5, <1>6, <1>7, <1>8, <1>9, MoveSafe

(***************************************************************************)
(* The statements of an action.                                            *)
(***************************************************************************)
LEMMA FetchSafe ==
    ASSUME Inv, NEW r \in Requester, Fetch(r)
    PROVE  Inv'
<1> DEFINE item == items[run[r].workflow]
           s == IF run[r].call \in Manual THEN "reread" ELSE "sequence"
           new == [[run[r] EXCEPT !.read = item] EXCEPT !.stage = s]
<1>1. /\ run' = [run EXCEPT ![r] = new] /\ run[r].stage = "fetch"
      /\ UNCHANGED <<log, cursor, items, actions, notices, due, calls, crashes>>
  BY DEF Fetch, Goto
<1>2. item \in Item /\ s \in {"reread", "sequence"} /\ s \in Stage
  BY RunFacts, StageNames
<1>3. /\ run[r].rows = {} /\ run[r].keys = {} /\ run[r].drafts = NoItems /\ run[r].call # "read"
      /\ Appended(run[r], log)
  BY <1>1, RunFacts, StageNames DEF RunInv, CallInv, EventInv
<1>4. (s = "reread" => run[r].call \in Manual)
      /\ (s = "sequence" => run[r].call \in Decision \cup {"start_review"})
  BY <1>3, RunFacts DEF Call
<1> HIDE DEF item, s
<1>5. /\ new \in Run /\ new.stage = s /\ new.rows = {} /\ new.keys = {} /\ new.drafts = NoItems
      /\ new.call = run[r].call /\ new.event = run[r].event /\ new.workflow = run[r].workflow
  <2>1. new \in Run
    BY <1>2, <1>3, RunFacts, RunFields
  <2>2. /\ new.stage = s /\ new.rows = {} /\ new.keys = {} /\ new.drafts = NoItems
        /\ new.call = run[r].call /\ new.event = run[r].event
        /\ new.workflow = run[r].workflow
    BY <1>2, <1>3, RunFacts DEF Run
  <2> QED BY <2>1, <2>2
<1> HIDE DEF new
<1>6. RunInv(new, log, cursor, actions)
  BY <1>2, <1>3, <1>4, <1>5, StageNames DEF RunInv, CallInv, EventInv, Appended
<1> QED BY <1>1, <1>2, <1>5, <1>6, RunFacts, LocalSafe, StageNames

LEMMA ReadSequenceSafe ==
    ASSUME Inv, NEW r \in Requester, ReadSequence(r)
    PROVE  Inv'
<1> DEFINE new == [[run[r] EXCEPT !.seq = Len(log)] EXCEPT !.stage = "append"]
<1>1. /\ run' = [run EXCEPT ![r] = new] /\ run[r].stage = "sequence"
      /\ UNCHANGED <<log, cursor, items, actions, notices, due, calls, crashes>>
  BY DEF ReadSequence, Goto
<1>2. /\ run[r].rows = {} /\ run[r].keys = {} /\ run[r].drafts = NoItems
      /\ run[r].call \in Decision \cup {"start_review"} /\ Appended(run[r], log)
  BY <1>1, RunFacts, StageNames DEF RunInv, CallInv, EventInv
<1>3. /\ new \in Run /\ new.stage = "append" /\ new.rows = {} /\ new.keys = {}
      /\ new.drafts = NoItems /\ new.call = run[r].call /\ new.event = run[r].event
      /\ new.workflow = run[r].workflow
  <2>1. new \in Run
    BY <1>2, RunFacts, StageNames, RunFields
  <2>2. /\ new.stage = "append" /\ new.rows = {} /\ new.keys = {}
        /\ new.drafts = NoItems /\ new.call = run[r].call
        /\ new.event = run[r].event /\ new.workflow = run[r].workflow
    BY <1>2, RunFacts DEF Run
  <2> QED BY <2>1, <2>2
<1> HIDE DEF new
<1>4. RunInv(new, log, cursor, actions)
  BY <1>2, <1>3, StageNames DEF RunInv, CallInv, EventInv, Appended
<1> QED BY <1>1, <1>3, <1>4, RunFacts, LocalSafe, StageNames

LEMMA OwnEventType ==
    ASSUME Inv, NEW r \in Requester, run[r].stage = "append"
    PROVE  /\ OwnEvent(r) \in Event /\ OwnEvent(r).own /\ OwnEvent(r).type \in Managed
           /\ OwnEvent(r).workflow = run[r].workflow
<1>1. run[r].call \in {"approve", "reject", "override", "start_review"}
  BY RunFacts, StageNames DEF RunInv, CallInv, Decision
<1>2. StatusOf(run[r].call) \in TerminalStatus \cup {"none"}
  BY <1>1 DEF StatusOf, TerminalStatus
<1> QED BY <1>2, RunFacts DEF OwnEvent, Event, Managed

LEMMA AppendOwnSafe ==
    ASSUME Inv, NEW r \in Requester, AppendOwn(r)
    PROVE  Inv'
<1> DEFINE e == OwnEvent(r)
           x == [run[r] EXCEPT !.event = Len(log) + 1]
           then == IF run[r].call = "start_review" THEN "again" ELSE "answer"
           new == [[x EXCEPT !.then = then, !.now = due] EXCEPT !.stage = "lock"]
<1>1. /\ run[r].stage = "append" /\ ~KeyTaken(e) /\ log' = Append(log, e)
      /\ run' = [run EXCEPT ![r] = new]
      /\ UNCHANGED <<cursor, items, actions, notices, due, calls, crashes>>
  BY DEF AppendOwn, Storable, StartRefresh, Goto
<1>2. e \in Event /\ e.own /\ e.type \in Managed /\ e.workflow = run[r].workflow
  BY <1>1, OwnEventType
<1>3. \A n \in 1 .. Len(log) : log[n] # e
  BY <1>1 DEF KeyTaken
<1> HIDE DEF e
<1>4. log \in Seq(Event) /\ Len(log) \in Nat /\ Extends(log, log')
  BY <1>1, <1>2, RunFacts DEF Extends
<1>5. /\ Len(log') = Len(log) + 1 /\ log'[Len(log) + 1] = e
      /\ \A n \in 1 .. Len(log) : log'[n] = log[n]
  BY <1>1, <1>2, <1>4
<1>6. OwnOnce(log')
  <2>1. \A m, n \in 1 .. Len(log) : log[m].own /\ log[m] = log[n] => m = n
    BY DEF Inv, OwnOnce
  <2> SUFFICES ASSUME NEW m \in 1 .. Len(log'), NEW n \in 1 .. Len(log'),
                      log'[m].own, log'[m] = log'[n]
               PROVE  m = n
    BY DEF OwnOnce
  <2> QED BY <1>3, <1>4, <1>5, <2>1
<1>7. /\ x \in Run /\ x.rows = {} /\ x.keys = {} /\ x.drafts = NoItems
      /\ x.event = Len(log) + 1 /\ x.workflow = run[r].workflow
  <2>1. run[r].rows = {} /\ run[r].keys = {} /\ run[r].drafts = NoItems
    BY <1>1, RunFacts, StageNames DEF RunInv
  <2>2. run[r] \in Run /\ Len(log) + 1 \in Nat
    BY <1>4, RunFacts
  <2> QED BY <2>1, <2>2 DEF Run
<1> HIDE DEF x
<1>8. Appended(x, log')
  BY <1>2, <1>4, <1>5, <1>7 DEF Appended
<1>9. then \in {"fetch", "again", "answer"} /\ then # "fetch" /\ due \in [Workflow -> Nearness]
  BY RunFacts
<1> HIDE DEF then
<1>10. new \in Run /\ new.stage = "lock" /\ RunInv(new, log', cursor, actions)
  BY <1>7, <1>8, <1>9, LockStage
<1> HIDE DEF new
<1>11. /\ cursor <= Len(log') /\ ManagedIn(log', 0, cursor) = ManagedIn(log, 0, cursor)
       /\ RowsTrue(actions, log') /\ \A w \in Workflow : Backed(items[w], w, log')
  BY <1>4, <1>5, RunFacts, ManagedKeeps, RowsTrueKeeps, BackedKeeps DEF Inv
<1>12. /\ EventsOf(actions') = ManagedIn(log', 0, cursor') /\ RowsTrue(actions', log')
       /\ KeysTrue(notices', actions') /\ \A w \in Workflow : Backed(items'[w], w, log')
  BY <1>1, <1>11 DEF Inv
<1>13. /\ cursor' \in Nat /\ cursor <= cursor' /\ cursor' = cursor
       /\ items' \in [Workflow -> Item] /\ actions \subseteq actions'
       /\ actions' \subseteq ActionRow /\ notices' \subseteq Notice
       /\ calls' \in 0 .. MaxCalls /\ crashes' \in 0 .. MaxCrashes
  BY <1>1, RunFacts
<1>14. RunInv(new, log', cursor', actions') /\ cursor' <= Len(log')
  BY <1>1, <1>10, <1>11
<1>15. run' = [run EXCEPT ![r] = new] /\ due' = due
  BY <1>1
<1> QED BY <1>4, <1>6, <1>10, <1>12, <1>13, <1>14, <1>15, MoveSafe, StageNames

LEMMA RejectAppendSafe ==
    ASSUME Inv, NEW r \in Requester, RejectAppend(r)
    PROVE  Inv'
<1> DEFINE K == {[category |-> "failure", workflow |-> run[r].workflow, n |-> 0] :
                   c \in {run[r].call} \cap Decision}
<1>1. Return(r) /\ notices' = notices \cup K
      /\ UNCHANGED <<log, cursor, items, actions, due, calls, crashes>>
  BY DEF RejectAppend
<1>2. K \in SUBSET Notice /\ \A k \in K : k.category # "escalation"
  BY RunFacts DEF Notice
<1> HIDE DEF K
<1>3. KeysTrue(K, actions') /\ crashes' \in 0 .. MaxCrashes /\ actions' = actions \cup {}
  BY <1>1, <1>2, RunFacts DEF KeysTrue
<1>4. {} \in SUBSET ActionRow /\ \A a \in {} : a.event = 0
  OBVIOUS
<1> QED BY <1>1, <1>2, <1>3, <1>4, ReturnSafe

LEMMA RereadSafe ==
    ASSUME Inv, NEW r \in Requester, Reread(r)
    PROVE  Inv'
<1> DEFINE item == items[run[r].workflow]
           new == [[run[r] EXCEPT !.seen = item] EXCEPT !.stage = "upsert"]
<1>1. /\ run' = [run EXCEPT ![r] = new] /\ run[r].stage = "reread"
      /\ UNCHANGED <<log, cursor, items, actions, notices, due, calls, crashes>>
  BY DEF Reread, Goto
<1>2. item \in Item /\ Backed(item, run[r].workflow, log)
  BY RunFacts DEF Inv
<1>3. /\ run[r].rows = {} /\ run[r].keys = {} /\ run[r].drafts = NoItems
      /\ run[r].call \in Manual /\ Appended(run[r], log)
  BY <1>1, RunFacts, StageNames DEF RunInv, CallInv, EventInv
<1> HIDE DEF item
<1>4. /\ new \in Run /\ new.stage = "upsert" /\ new.rows = {} /\ new.keys = {}
      /\ new.drafts = NoItems /\ new.call = run[r].call /\ new.event = run[r].event
      /\ new.workflow = run[r].workflow /\ new.seen = item
  <2>1. new \in Run
    BY <1>2, <1>3, RunFacts, StageNames, RunFields
  <2>2. /\ new.stage = "upsert" /\ new.rows = {} /\ new.keys = {}
        /\ new.drafts = NoItems /\ new.call = run[r].call
        /\ new.event = run[r].event /\ new.workflow = run[r].workflow
        /\ new.seen = item
    BY <1>2, <1>3, RunFacts DEF Run
  <2> QED BY <2>1, <2>2
<1> HIDE DEF new
<1>5. RunInv(new, log, cursor, actions)
  BY <1>2, <1>3, <1>4, StageNames DEF RunInv, CallInv, EventInv, Appended
<1> QED BY <1>1, <1>4, <1>5, RunFacts, LocalSafe, StageNames

LEMMA MergedBacked ==
    ASSUME Inv, NEW r \in Requester, run[r].stage = "upsert"
    PROVE  Merged(r) \in Item /\ Backed(Merged(r), run[r].workflow, log)
<1>1. run[r].call \in Manual /\ Backed(run[r].seen, run[r].workflow, log)
  BY RunFacts, StageNames DEF RunInv, CallInv
<1>2. run[r].seen \in Item /\ run[r].read \in Item /\ run[r].workflow \in Workflow
  BY RunFacts
<1>3. CASE run[r].call = "request_change"
  <2> DEFINE i == [run[r].seen EXCEPT !.status = "changes_requested", !.resolved = FALSE]
  <2>1. i \in Item /\ i.status = "changes_requested"
    BY <1>2 DEF Item, Status, OpenStatus
  <2>2. Merged(r) = i
    BY <1>3 DEF Merged
  <2> HIDE DEF i
  <2> QED BY <2>1, <2>2 DEF Backed, TerminalStatus
<1>4. CASE run[r].call = "escalate"
  <2>1. Merged(r) = Escalated(run[r].read, run[r].seen)
    BY <1>4 DEF Merged
  <2> DEFINE i == Escalated(run[r].read, run[r].seen)
  <2>2. i \in Item /\ \A l : Backed(i, run[r].workflow, l)
    BY <1>2, EscalatedType
  <2> HIDE DEF i
  <2>3. Merged(r) = i
    BY <2>1 DEF i
  <2> QED BY <2>2, <2>3
<1>5. CASE run[r].call \in {"reassign", "comment"}
  BY <1>1, <1>2, <1>5 DEF Merged
<1> QED BY <1>1, <1>3, <1>4, <1>5 DEF Manual

LEMMA UpsertSafe ==
    ASSUME Inv, NEW r \in Requester, Upsert(r)
    PROVE  Inv'
<1> DEFINE w == run[r].workflow
           new == [run[r] EXCEPT !.stage = "record"]
<1>1. /\ run' = [run EXCEPT ![r] = new] /\ run[r].stage = "upsert"
      /\ items' = [items EXCEPT ![w] = Merged(r)]
      /\ UNCHANGED <<log, cursor, actions, notices, due, calls, crashes>>
  BY DEF Upsert, Goto
<1>2. items' \in [Workflow -> Item] /\ \A v \in Workflow : Backed(items'[v], v, log')
  BY <1>1, MergedBacked, RunFacts DEF Inv
<1>3. /\ run[r].rows = {} /\ run[r].keys = {} /\ run[r].drafts = NoItems
      /\ run[r].call \in Manual /\ Appended(run[r], log)
  BY <1>1, RunFacts, StageNames DEF RunInv, CallInv, EventInv
<1>4. /\ new \in Run /\ new.stage = "record" /\ new.rows = {} /\ new.keys = {}
      /\ new.drafts = NoItems /\ new.call = run[r].call /\ new.event = run[r].event
      /\ new.workflow = run[r].workflow
  <2>1. new \in Run
    BY <1>3, RunFacts, StageNames, RunFields
  <2>2. /\ new.stage = "record" /\ new.rows = {} /\ new.keys = {}
        /\ new.drafts = NoItems /\ new.call = run[r].call
        /\ new.event = run[r].event /\ new.workflow = run[r].workflow
    BY <1>3, RunFacts DEF Run
  <2> QED BY <2>1, <2>2
<1> HIDE DEF new
<1>5. RunInv(new, log, cursor, actions)
  BY <1>3, <1>4, StageNames DEF RunInv, CallInv, EventInv, Appended
<1>6. /\ Extends(log, log') /\ OwnOnce(log') /\ RunInv(new, log', cursor', actions')
      /\ EventsOf(actions') = ManagedIn(log', 0, cursor') /\ RowsTrue(actions', log')
      /\ KeysTrue(notices', actions') /\ cursor' <= Len(log')
  BY <1>1, <1>5 DEF Inv, Extends
<1>7. /\ cursor' \in Nat /\ cursor <= cursor' /\ cursor' = cursor /\ actions \subseteq actions'
      /\ actions' \subseteq ActionRow /\ notices' \subseteq Notice
      /\ calls' \in 0 .. MaxCalls /\ crashes' \in 0 .. MaxCrashes /\ due' = due
  BY <1>1, RunFacts
<1> QED BY <1>1, <1>2, <1>4, <1>6, <1>7, MoveSafe, StageNames

LEMMA ManualRowType ==
    ASSUME Inv, NEW r \in Requester, run[r].call \in Manual
    PROVE  ManualRow(r) \in ActionRow /\ ManualRow(r).event = 0
<1>1. run[r].read \in Item /\ run[r].workflow \in Workflow
  BY RunFacts
<1>2. CASE run[r].call = "escalate"
  BY <1>1, <1>2, EscalatedType DEF ManualRow
<1>3. CASE run[r].call # "escalate"
  BY <1>1, <1>3 DEF ManualRow, ActionRow
<1> QED BY <1>2, <1>3

LEMMA RecordSafe ==
    ASSUME Inv, NEW r \in Requester, Record(r)
    PROVE  Inv'
<1> DEFINE S == {ManualRow(r)}
<1>1. /\ run[r].stage = "record" /\ actions' = actions \cup S
      /\ UNCHANGED <<log, cursor, items, notices, due, calls, crashes>>
      /\ IF run[r].call \in {"escalate", "reassign"} THEN Goto(r, "notify", run[r]) ELSE Return(r)
  BY DEF Record
<1>2. /\ run[r].rows = {} /\ run[r].keys = {} /\ run[r].drafts = NoItems
      /\ run[r].call \in Manual /\ Appended(run[r], log)
  BY <1>1, RunFacts, StageNames DEF RunInv, CallInv, EventInv
<1>3. S \in SUBSET ActionRow /\ \A a \in S : a.event = 0
  BY <1>2, ManualRowType
<1>4. run[r].call = "escalate" => EscalateRow(run[r].workflow, run[r].read) \in S
  BY DEF ManualRow
<1> HIDE DEF S
<1>5. CASE run[r].call \in {"escalate", "reassign"}
  <2> DEFINE new == [run[r] EXCEPT !.stage = "notify"]
  <2>1. run' = [run EXCEPT ![r] = new]
    BY <1>1, <1>5 DEF Goto
  <2>2. /\ new \in Run /\ new.stage = "notify" /\ new.rows = {} /\ new.keys = {}
        /\ new.drafts = NoItems /\ new.call = run[r].call /\ new.event = run[r].event
        /\ new.workflow = run[r].workflow /\ new.read = run[r].read
    <3>1. new \in Run
      BY <1>2, RunFacts, StageNames, RunFields
    <3>2. /\ new.stage = "notify" /\ new.rows = {} /\ new.keys = {}
          /\ new.drafts = NoItems /\ new.call = run[r].call
          /\ new.event = run[r].event /\ new.workflow = run[r].workflow
          /\ new.read = run[r].read
      BY <1>2, RunFacts DEF Run
    <3> QED BY <3>1, <3>2
  <2> HIDE DEF new
  <2>3. EventsOf(actions') = EventsOf(actions)
    BY <1>1, <1>3 DEF EventsOf
  <2>4. RunInv(new, log, cursor, actions')
    BY <1>1, <1>2, <1>4, <2>2, StageNames DEF RunInv, CallInv, EventInv, Appended
  <2>5. RowsTrue(actions', log') /\ KeysTrue(notices', actions')
    BY <1>1, <1>3 DEF RowsTrue, KeysTrue, Inv
  <2>6. /\ Extends(log, log') /\ OwnOnce(log') /\ RunInv(new, log', cursor', actions')
        /\ EventsOf(actions') = ManagedIn(log', 0, cursor') /\ cursor' <= Len(log')
        /\ \A w \in Workflow : Backed(items'[w], w, log')
    BY <1>1, <2>3, <2>4 DEF Inv, Extends
  <2>7. /\ cursor' \in Nat /\ cursor <= cursor' /\ cursor' = cursor /\ actions \subseteq actions'
        /\ actions' \subseteq ActionRow /\ notices' \subseteq Notice
        /\ items' \in [Workflow -> Item]
        /\ calls' \in 0 .. MaxCalls /\ crashes' \in 0 .. MaxCrashes /\ due' = due
    BY <1>1, <1>3, RunFacts
  <2> QED BY <2>1, <2>2, <2>5, <2>6, <2>7, MoveSafe, StageNames
<1>6. CASE run[r].call \notin {"escalate", "reassign"}
  <2>1. {} \in SUBSET Notice /\ KeysTrue({}, actions') /\ notices' = notices \cup {}
    BY <1>1 DEF KeysTrue
  <2>2. crashes' \in 0 .. MaxCrashes
    BY <1>1, RunFacts
  <2> QED BY <1>1, <1>3, <1>6, <2>1, <2>2, ReturnSafe
<1> QED BY <1>5, <1>6

LEMMA NotifySafe ==
    ASSUME Inv, NEW r \in Requester, Notify(r)
    PROVE  Inv'
<1> DEFINE k == IF run[r].call = "escalate" THEN EscalationNotice(run[r].workflow, run[r].read)
                ELSE [category |-> "assignment", workflow |-> run[r].workflow, n |-> 1]
<1>1. /\ run[r].stage = "notify" /\ Return(r) /\ notices' = notices \cup {k}
      /\ UNCHANGED <<log, cursor, items, actions, due, calls, crashes>>
  BY DEF Notify
<1>2. /\ run[r].read \in Item /\ run[r].workflow \in Workflow
      /\ run[r].call = "escalate" => EscalateRow(run[r].workflow, run[r].read) \in actions
  BY <1>1, RunFacts DEF RunInv
<1>3. {k} \in SUBSET Notice /\ KeysTrue({k}, actions')
  <2>1. CASE run[r].call = "escalate"
    <3>1. k = EscalationNotice(run[r].workflow, run[r].read)
      BY <2>1
    <3>2. k \in Notice /\ \A S : EscalateRow(run[r].workflow, run[r].read) \in S => KeysTrue({k}, S)
      BY <1>2, <3>1, EscalatedType
    <3> QED BY <1>1, <1>2, <2>1, <3>2
  <2>2. CASE run[r].call # "escalate"
    BY <1>2, <2>2 DEF Notice, KeysTrue
  <2> QED BY <2>1, <2>2
<1> HIDE DEF k
<1>4. {} \in SUBSET ActionRow /\ (\A a \in {} : a.event = 0) /\ actions' = actions \cup {}
  BY <1>1
<1>5. crashes' \in 0 .. MaxCrashes
  BY <1>1, RunFacts
<1> QED BY <1>1, <1>3, <1>4, <1>5, ReturnSafe

\* A process that ends without a further write.
LEMMA EndSafe ==
    ASSUME Inv, NEW r \in Requester, Refuse(r) \/ Answer(r) \/ Crash(r)
    PROVE  Inv'
<1>1. Return(r) /\ UNCHANGED <<log, cursor, items, actions, notices, due, calls>>
  BY DEF Refuse, Answer, Crash
<1>2. crashes' \in 0 .. MaxCrashes
  BY RunFacts, WorkflowAssumption DEF Refuse, Answer, Crash
<1>3. /\ {} \in SUBSET ActionRow /\ (\A a \in {} : a.event = 0) /\ actions' = actions \cup {}
      /\ {} \in SUBSET Notice /\ KeysTrue({}, actions') /\ notices' = notices \cup {}
  BY <1>1 DEF KeysTrue
<1> QED BY <1>1, <1>2, <1>3, ReturnSafe

LEMMA NextInv == Inv /\ [Next]_vars => Inv'
<1> SUFFICES ASSUME Inv, [Next]_vars PROVE Inv'
  OBVIOUS
<1>1. ASSUME NEW e \in External, AppendExternal(e) PROVE Inv'
  BY <1>1, AppendExternalSafe
<1>2. ASSUME NEW w \in Workflow, TimePasses(w) PROVE Inv'
  BY <1>2, TimePassesSafe
<1>3. ASSUME NEW r \in Requester, NEW c \in Call, NEW w \in Workflow,
             NEW q \in RequestId \cup {NoRequest}, BeginCall(r, c, w, q)
      PROVE  Inv'
  BY <1>3, BeginCallSafe
<1>4. ASSUME NEW r \in Requester, Refresh(r) PROVE Inv'
  <2>1. ASSUME NEW w \in Workflow, WarnDeadline(r, w) \/ ReadOverdue(r, w) PROVE Inv'
    BY <2>1, WarnDeadlineSafe, ReadOverdueSafe
  <2> QED BY <1>4, <2>1, LockRuntimeSafe, ReadItemSafe, WriteItemSafe, BeginSweepSafe,
             EscalateOverdueSafe, CommitRefreshSafe DEF Refresh
<1>5. ASSUME NEW r \in Requester, Act(r) PROVE Inv'
  BY <1>5, FetchSafe, ReadSequenceSafe, AppendOwnSafe, RejectAppendSafe, RereadSafe, UpsertSafe,
     RecordSafe, NotifySafe, EndSafe DEF Act
<1>6. ASSUME NEW r \in Requester, Crash(r) PROVE Inv'
  BY <1>6, EndSafe
<1>7. CASE UNCHANGED vars
  <2>1. UNCHANGED <<log, cursor, items, actions, notices, due, run, calls, crashes>>
    BY <1>7 DEF vars
  <2> QED BY <2>1, OutsideSafe DEF Inv, TypeOK, Extends
<1> QED BY <1>1, <1>2, <1>3, <1>4, <1>5, <1>6, <1>7 DEF Next

-----------------------------------------------------------------------------
LEMMA Invariant == Spec => []Inv
BY InitInv, NextInv, PTL DEF Spec

\* Every variable keeps its type, whatever calls overlap and die.
THEOREM TypeCorrect == Spec => []TypeOK
<1>1. Inv => TypeOK
  BY DEF Inv
<1> QED BY <1>1, Invariant, PTL

\* The cursor, the items and the audit move together: exactly the managed
\* events up to last_log_seq have an audit row (refresh_runtime_transaction!).
THEOREM RefreshIsWhole == Spec => []AppliedUpToCursor
<1>1. Inv => AppliedUpToCursor
  <2> SUFFICES ASSUME Inv PROVE AppliedUpToCursor
    OBVIOUS
  <2>1. EventsOf(actions) = ManagedIn(log, 0, cursor)
    BY DEF Inv
  <2>2. EventsOf(actions) = {a.event : a \in {b \in actions : b.event # 0}}
    BY DEF EventsOf
  <2>3. ManagedIn(log, 0, cursor) = {n \in 1 .. Len(log) : n <= cursor /\ log[n].type \in Managed}
    <3>1. log \in Seq(Event)
      BY DEF Inv, TypeOK
    <3> QED BY <3>1 DEF ManagedIn
  <2> QED BY <2>1, <2>2, <2>3 DEF AppliedUpToCursor
<1> QED BY <1>1, Invariant, PTL

\* A closed item has resolved_at and the approval that closed it, also after
\* an action wrote its row back from an older read (update_workflow_item!).
THEOREM DecisionsAreBacked == Spec => []ClosedIsBacked
<1>1. Inv => ClosedIsBacked
  BY DEF Inv, Backed, ClosedIsBacked
<1> QED BY <1>1, Invariant, PTL

\* A decision that is answered is applied (the refresh after the append in
\* act_on_workflow).
THEOREM AnsweredDecisionIsApplied == Spec => []AnsweredIsApplied
<1>1. Inv => AnsweredIsApplied
  <2> SUFFICES ASSUME Inv, NEW r \in Requester, run[r].stage = "answered", run[r].event # 0
               PROVE  /\ run[r].event <= cursor
                      /\ \E a \in actions : a.event = run[r].event /\ a.workflow = run[r].workflow
    BY DEF AnsweredIsApplied
  <2> DEFINE n == run[r].event
  <2>1. /\ n \in 1 .. Len(log) /\ log[n].type \in Managed
        /\ log[n].workflow = run[r].workflow /\ n <= cursor
    BY RunFacts DEF RunInv, EventInv, Appended
  <2>2. n \in ManagedIn(log, 0, cursor)
    BY <2>1, RunFacts DEF ManagedIn
  <2>3. PICK a \in actions : a.event = n /\ n # 0
    BY <2>2 DEF Inv, EventsOf
  <2>4. a.workflow = log[n].workflow
    BY <2>3 DEF Inv, RowsTrue
  <2> QED BY <2>1, <2>3, <2>4
<1> QED BY <1>1, Invariant, PTL

\* A request that is sent again records its decision once
\* (approval_idempotency_key).
THEOREM RetryRecordsOnce == Spec => []OneDecisionPerRequest
<1>1. Inv => OneDecisionPerRequest
  BY DEF Inv, OwnOnce, OneDecisionPerRequest
<1> QED BY <1>1, Invariant, PTL

\* Nobody is notified of an escalation that the audit does not have, wherever
\* a request dies (escalate_workflow!).
THEOREM NoticesAreAudited == Spec => []NotifiedIsRecorded
<1>1. Inv => NotifiedIsRecorded
  BY DEF Inv, KeysTrue, NotifiedIsRecorded
<1> QED BY <1>1, Invariant, PTL

-----------------------------------------------------------------------------
(***************************************************************************)
(* What overlapping calls can do to a row.  Beside Inv it takes that calls *)
(* validated what they are about to write, that a sweep lists open items,  *)
(* and that approvals decide something.                                    *)
(***************************************************************************)
Decides(l) == \A n \in 1 .. Len(l) : l[n].type = "ApprovalRecorded" => l[n].status \in TerminalStatus

Validated(x) ==
    /\ x.stage \in {"reread", "upsert"} /\ x.read.status \in TerminalStatus => x.call = "comment"
    /\ x.stage \in {"sweep", "escalate"} =>
          \A w \in Workflow : x.sweep[w] # NoItem => IsOpen(x.sweep[w])
    /\ x.stage = "escalate" => x.sweep[x.at] # NoItem

Valid == Decides(log) /\ \A r \in Requester : Validated(run[r])

\* A stage about which Validated says nothing.
LEMMA QuietStage ==
    ASSUME NEW x, x.stage \notin {"reread", "upsert", "sweep", "escalate"}
    PROVE  Validated(x)
BY DEF Validated

LEMMA InitValid == Init => Valid
<1> SUFFICES ASSUME Init PROVE Valid
  OBVIOUS
<1>1. Decides(log)
  BY DEF Init, Decides
<1>2. \A r \in Requester : run[r] = Idle
  BY DEF Init
<1> QED BY <1>1, <1>2, IdleType, QuietStage DEF Valid

LEMMA MoveValid ==
    ASSUME Inv, Valid, NEW r \in Requester, NEW new, run' = [run EXCEPT ![r] = new],
           Validated(new), Decides(log')
    PROVE  Valid'
<1>1. run \in [Requester -> Run]
  BY DEF Inv, TypeOK
<1> QED BY <1>1 DEF Valid

\* What a step makes of a process's variables has their type.
LEMMA NewRunType ==
    ASSUME Inv, Inv', NEW r \in Requester, NEW new, run' = [run EXCEPT ![r] = new]
    PROVE  new \in Run
BY DEF Inv, TypeOK

\* r goes on at a stage about which Validated says nothing.
LEMMA QuietMove ==
    ASSUME Inv, Valid, NEW r \in Requester, NEW s \in Stage, NEW x \in Run, Goto(r, s, x),
           s \notin {"reread", "upsert", "sweep", "escalate"}, Decides(log')
    PROVE  Valid'
<1> DEFINE new == [x EXCEPT !.stage = s]
<1>1. new.stage = s
  BY DEF Run
<1>2. run' = [run EXCEPT ![r] = new]
  BY DEF Goto
<1> HIDE DEF new
<1> QED BY <1>1, <1>2, QuietStage, MoveValid

LEMMA ReturnValid ==
    ASSUME Inv, Valid, NEW r \in Requester, Return(r), UNCHANGED log
    PROVE  Valid'
<1>1. Validated(Idle)
  BY IdleType, QuietStage
<1> QED BY <1>1, MoveValid DEF Return, Valid

LEMMA DecidesKeeps ==
    ASSUME NEW l \in Seq(Event), NEW e \in Event, Decides(l),
           e.type = "ApprovalRecorded" => e.status \in TerminalStatus
    PROVE  Decides(Append(l, e))
BY DEF Decides

LEMMA AppendExternalValid ==
    ASSUME Inv, Valid, NEW e \in External, AppendExternal(e)
    PROVE  Valid'
<1>1. e \in Event /\ (e.type = "ApprovalRecorded" => e.status # "none")
  BY WorkflowAssumption
<1>2. e.type = "ApprovalRecorded" => e.status \in TerminalStatus
  BY <1>1 DEF Event
<1>3. log \in Seq(Event) /\ Decides(log)
  BY DEF Inv, TypeOK, Valid
<1>4. Decides(Append(log, e))
  BY <1>1, <1>2, <1>3, DecidesKeeps
<1> QED BY <1>4 DEF AppendExternal, Valid

LEMMA AppendOwnValid ==
    ASSUME Inv, Valid, NEW r \in Requester, AppendOwn(r)
    PROVE  Valid'
<1> DEFINE e == OwnEvent(r)
           then == IF run[r].call = "start_review" THEN "again" ELSE "answer"
           x == [[run[r] EXCEPT !.event = Len(log) + 1] EXCEPT !.then = then, !.now = due]
<1>1. Goto(r, "lock", x) /\ run[r].stage = "append" /\ log' = Append(log, e)
  BY DEF AppendOwn, StartRefresh
<1>2. Len(log) + 1 \in Nat
  BY RunFacts
<1>3. x \in Run
  BY <1>2, RunFacts, RunFields
<1> HIDE DEF x
<1>4. run[r].call \in {"approve", "reject", "override", "start_review"}
  BY <1>1, RunFacts, StageNames DEF RunInv, CallInv, Decision
<1>5. e \in Event
  BY <1>1, OwnEventType
<1>6. e.type = "ApprovalRecorded" => e.status \in TerminalStatus
  BY <1>4 DEF OwnEvent, StatusOf, TerminalStatus
<1> HIDE DEF e
<1>7. log \in Seq(Event) /\ Decides(log)
  BY RunFacts DEF Valid
<1>8. Decides(log')
  BY <1>1, <1>5, <1>6, <1>7, DecidesKeeps
<1> QED BY <1>1, <1>3, <1>8, QuietMove, StageNames

LEMMA BeginSweepValid ==
    ASSUME Inv, Valid, NEW r \in Requester, BeginSweep(r)
    PROVE  Valid'
<1> DEFINE open == [w \in Workflow |-> IF IsOpen(Seen(r, w)) THEN Seen(r, w) ELSE NoItem]
           new == [[run[r] EXCEPT !.sweep = open] EXCEPT !.stage = "sweep"]
<1>1. run' = [run EXCEPT ![r] = new] /\ UNCHANGED log
  BY DEF BeginSweep, Goto
<1>2. \A w \in Workflow : open[w] # NoItem => IsOpen(open[w])
  OBVIOUS
<1> HIDE DEF open
<1>3. new.stage = "sweep" /\ new.sweep = open
  BY RunFacts DEF Run
<1> HIDE DEF new
<1>4. Validated(new)
  BY <1>2, <1>3 DEF Validated
<1> QED BY <1>1, <1>4, MoveValid DEF Valid

\* A step of the sweep that looks at one item.
LEMMA SweepValid ==
    ASSUME Inv, Valid, NEW r \in Requester, run[r].stage \in {"sweep", "escalate"},
           NEW w \in Workflow, NEW new, run' = [run EXCEPT ![r] = new], new.stage = "sweep",
           new.sweep = [run[r].sweep EXCEPT ![w] = NoItem], UNCHANGED log
    PROVE  Valid'
<1>1. \A v \in Workflow : new.sweep[v] = IF v = w THEN NoItem ELSE run[r].sweep[v]
  BY RunFacts
<1>2. Validated(run[r])
  BY DEF Valid
<1>3. Validated(new)
  BY <1>1, <1>2 DEF Validated
<1> QED BY <1>3, MoveValid DEF Valid

LEMMA WarnDeadlineValid ==
    ASSUME Inv, Valid, NEW r \in Requester, NEW w \in Workflow, WarnDeadline(r, w)
    PROVE  Valid'
<1> DEFINE K == run[r].keys \cup {k \in {[category |-> "deadline_risk", workflow |-> w, n |-> 0]} :
                                    run[r].now[w] = "soon"}
           left == [run[r].sweep EXCEPT ![w] = NoItem]
           new == [[run[r] EXCEPT !.sweep = left, !.keys = K] EXCEPT !.stage = "sweep"]
<1>1. run' = [run EXCEPT ![r] = new] /\ run[r].stage = "sweep" /\ UNCHANGED log
  BY DEF WarnDeadline, Goto
<1> HIDE DEF K, left
<1>2. new.stage = "sweep" /\ new.sweep = left
  BY RunFacts DEF Run
<1> HIDE DEF new
<1> QED BY <1>1, <1>2, SweepValid DEF left

LEMMA EscalateOverdueValid ==
    ASSUME Inv, Valid, NEW r \in Requester, EscalateOverdue(r)
    PROVE  Valid'
<1> DEFINE w == run[r].at
           listed == run[r].sweep[w]
           D == [run[r].drafts EXCEPT ![w] = Escalated(listed, run[r].seen)]
           left == [run[r].sweep EXCEPT ![w] = NoItem]
           R == run[r].rows \cup {EscalateRow(w, listed)}
           K == run[r].keys \cup {EscalationNotice(w, listed)}
           new == [[run[r] EXCEPT !.drafts = D, !.sweep = left, !.rows = R, !.keys = K]
                      EXCEPT !.stage = "sweep"]
<1>1. run' = [run EXCEPT ![r] = new] /\ run[r].stage = "escalate" /\ UNCHANGED log
  BY DEF EscalateOverdue, Goto
<1> HIDE DEF D, left, R, K
<1>2. new.stage = "sweep" /\ new.sweep = left
  BY RunFacts DEF Run
<1> HIDE DEF new
<1> QED BY <1>1, <1>2, SweepValid, RunFacts DEF left

LEMMA ReadOverdueValid ==
    ASSUME Inv, Valid, NEW r \in Requester, NEW w \in Workflow, ReadOverdue(r, w)
    PROVE  Valid'
<1> DEFINE new == [[run[r] EXCEPT !.at = w, !.seen = Seen(r, w)] EXCEPT !.stage = "escalate"]
<1>1. /\ run' = [run EXCEPT ![r] = new] /\ run[r].stage = "sweep" /\ UNCHANGED log
      /\ run[r].sweep[w] # NoItem
  BY DEF ReadOverdue, Goto
<1>2. new.stage = "escalate" /\ new.sweep = run[r].sweep /\ new.at = w
  BY RunFacts DEF Run
<1> HIDE DEF new
<1>3. Validated(run[r])
  BY DEF Valid
<1>4. Validated(new)
  BY <1>1, <1>2, <1>3 DEF Validated
<1> QED BY <1>1, <1>4, MoveValid DEF Valid

LEMMA FetchValid ==
    ASSUME Inv, Valid, NEW r \in Requester, Fetch(r)
    PROVE  Valid'
<1> DEFINE item == items[run[r].workflow]
           s == IF run[r].call \in Manual THEN "reread" ELSE "sequence"
           new == [[run[r] EXCEPT !.read = item] EXCEPT !.stage = s]
<1>1. run' = [run EXCEPT ![r] = new] /\ Accepted(r, item) /\ UNCHANGED log
  BY DEF Fetch, Goto
<1>2. new.stage = s /\ new.read = item /\ new.call = run[r].call
  BY RunFacts DEF Run
<1> HIDE DEF new
<1>3. s = "reread" /\ item.status \in TerminalStatus => run[r].call = "comment"
  BY <1>1 DEF Accepted, ValidTransition, Manual
<1>4. Validated(new)
  BY <1>2, <1>3 DEF Validated
<1> QED BY <1>1, <1>4, MoveValid DEF Valid

LEMMA RereadValid ==
    ASSUME Inv, Valid, NEW r \in Requester, Reread(r)
    PROVE  Valid'
<1> DEFINE new == [[run[r] EXCEPT !.seen = items[run[r].workflow]] EXCEPT !.stage = "upsert"]
<1>1. run' = [run EXCEPT ![r] = new] /\ run[r].stage = "reread" /\ UNCHANGED log
  BY DEF Reread, Goto
<1>2. new.stage = "upsert" /\ new.read = run[r].read /\ new.call = run[r].call
  BY RunFacts DEF Run
<1> HIDE DEF new
<1>3. Validated(run[r])
  BY DEF Valid
<1>4. Validated(new)
  BY <1>1, <1>2, <1>3 DEF Validated
<1> QED BY <1>1, <1>4, MoveValid DEF Valid

LEMMA QuietGoto ==
    ASSUME Inv, Valid, Inv', NEW r \in Requester, NEW x, UNCHANGED log,
           NEW s \in {"apply", "write", "fetch", "lock", "answered", "append", "record", "notify"},
           Goto(r, s, x)
    PROVE  Valid'
<1> DEFINE new == [x EXCEPT !.stage = s]
<1>1. run' = [run EXCEPT ![r] = new]
  BY DEF Goto
<1>2. new \in Run
  BY <1>1, NewRunType
<1>3. new.stage = s
  BY <1>2 DEF Run
<1> HIDE DEF new
<1>4. Validated(new)
  BY <1>3, QuietStage
<1> QED BY <1>1, <1>4, MoveValid DEF Valid

\* How a refresh begins to write an item, and how it ends.
LEMMA ReadItemGoes ==
    ASSUME Inv, NEW r \in Requester, ReadItem(r)
    PROVE  /\ \E x : Goto(r, "write", x) /\ x.drafts = run[r].drafts
           /\ UNCHANGED <<items, log>>
<1>1. PICK n \in 1 .. Len(log) :
        /\ IsNext(r, n)
        /\ Goto(r, "write", [run[r] EXCEPT !.pos = n, !.at = log[n].workflow,
                                           !.seen = Seen(r, log[n].workflow)])
  BY DEF ReadItem
<1> DEFINE x == [run[r] EXCEPT !.pos = n, !.at = log[n].workflow, !.seen = Seen(r, log[n].workflow)]
<1>2. Goto(r, "write", x) /\ UNCHANGED <<items, log>>
  BY <1>1 DEF ReadItem, Goto
<1>3. x.drafts = run[r].drafts
  BY RunFacts DEF Run
<1> HIDE DEF x
<1> QED BY <1>2, <1>3

LEMMA CommitRefreshGoes ==
    ASSUME Inv, NEW r \in Requester, CommitRefresh(r)
    PROVE  \E x : \E s \in {"fetch", "lock", "answered"} : Goto(r, s, x)
<1>1. run[r].then \in {"fetch", "again", "answer"}
  BY RunFacts DEF Run
<1> QED BY <1>1 DEF CommitRefresh, StartRefresh

LEMMA QuietStepsValid ==
    ASSUME Inv, Valid, Inv', NEW r \in Requester
    PROVE  /\ LockRuntime(r) \/ WriteItem(r) \/ ReadSequence(r) \/ Upsert(r) => Valid'
           /\ ReadItem(r) => Valid'
           /\ CommitRefresh(r) => Valid'
           /\ Record(r) => Valid'
           /\ Refuse(r) \/ RejectAppend(r) \/ Notify(r) \/ Answer(r) \/ Crash(r) => Valid'
<1>1. ASSUME LockRuntime(r) \/ WriteItem(r) \/ ReadSequence(r) \/ Upsert(r) PROVE Valid'
  BY <1>1, QuietGoto DEF LockRuntime, WriteItem, ReadSequence, Upsert
<1>2. ASSUME ReadItem(r) PROVE Valid'
  BY <1>2, ReadItemGoes, QuietGoto
<1>3. ASSUME CommitRefresh(r) PROVE Valid'
  <2>1. log' = log
    BY <1>3 DEF CommitRefresh
  <2> QED BY <1>3, <2>1, CommitRefreshGoes, QuietGoto
<1>4. ASSUME Record(r) PROVE Valid'
  <2>1. log' = log /\ (Goto(r, "notify", run[r]) \/ Return(r))
    BY <1>4 DEF Record
  <2> QED BY <2>1, QuietGoto, ReturnValid
<1>5. ASSUME Refuse(r) \/ RejectAppend(r) \/ Notify(r) \/ Answer(r) \/ Crash(r) PROVE Valid'
  BY <1>5, ReturnValid DEF Refuse, RejectAppend, Notify, Answer, Crash
<1> QED BY <1>1, <1>2, <1>3, <1>4, <1>5

LEMMA NextValid == Inv /\ Valid /\ [Next]_vars => Valid'
<1> SUFFICES ASSUME Inv, Valid, [Next]_vars PROVE Valid'
  OBVIOUS
<1>0. Inv'
  BY NextInv
<1>1. ASSUME NEW r \in Requester, NEW c \in Call, NEW w \in Workflow,
             NEW q \in RequestId \cup {NoRequest}, BeginCall(r, c, w, q)
      PROVE  Valid'
  <2> DEFINE local == [Idle EXCEPT !.call = c, !.workflow = w, !.request = q]
             then == IF c = "read" THEN "answer" ELSE "fetch"
             x == [local EXCEPT !.then = then, !.now = due]
  <2>1. Goto(r, "lock", x) /\ UNCHANGED log
    BY <1>1 DEF BeginCall, StartRefresh
  <2>2. local \in Run
    BY IdleType, RunFields
  <2> HIDE DEF local
  <2>3. x \in Run
    BY <2>2, RunFacts, RunFields
  <2> HIDE DEF x
  <2> QED BY <2>1, <2>3, QuietMove, StageNames DEF Valid
<1>2. ASSUME NEW w \in Workflow, TimePasses(w) PROVE Valid'
  BY <1>2 DEF TimePasses, Valid
<1>3. ASSUME NEW r \in Requester, Refresh(r) \/ Act(r) \/ Crash(r) PROVE Valid'
  <2>1. ASSUME NEW w \in Workflow, WarnDeadline(r, w) \/ ReadOverdue(r, w) PROVE Valid'
    BY <2>1, WarnDeadlineValid, ReadOverdueValid
  <2>2. CASE BeginSweep(r) \/ EscalateOverdue(r) \/ Fetch(r) \/ Reread(r) \/ AppendOwn(r)
    BY <2>2, BeginSweepValid, EscalateOverdueValid, FetchValid, RereadValid, AppendOwnValid
  <2> QED BY <1>0, <1>3, <2>1, <2>2, QuietStepsValid DEF Refresh, Act
<1>4. CASE UNCHANGED vars
  <2>1. UNCHANGED <<log, run>>
    BY <1>4 DEF vars
  <2> QED BY <2>1 DEF Valid
<1> QED BY <1>1, <1>2, <1>3, <1>4, AppendExternalValid DEF Next

LEMMA ValidInvariant == Spec => [](Inv /\ Valid)
BY InitInv, InitValid, NextInv, NextValid, PTL DEF Spec

-----------------------------------------------------------------------------
\* Only a refresh has drafts, and one at a time.
NewestInv ==
    /\ \A r \in Requester, w \in Workflow :
          run[r].stage \in InRefresh => Newest(w) = Seen(r, w)
    /\ (\A o \in Requester : run[o].stage \notin InRefresh)
          => \A w \in Workflow : Newest(w) = items[w]

LEMMA NewestIs == Inv => NewestInv
<1> SUFFICES ASSUME Inv PROVE NewestInv
  OBVIOUS
<1>1. \A o \in Requester, w \in Workflow : run[o].drafts[w] # NoItem => run[o].stage \in InRefresh
  BY RunFacts DEF RunInv, NoItems
<1>2. ASSUME NEW r \in Requester, NEW w \in Workflow, run[r].stage \in InRefresh
      PROVE  Newest(w) = Seen(r, w)
  <2>1. \A o \in Requester : run[o].drafts[w] # NoItem => o = r
    BY <1>1, <1>2 DEF Inv
  <2>2. CASE run[r].drafts[w] = NoItem
    <3>1. Drafted(w) = {}
      BY <2>1, <2>2 DEF Drafted
    <3> QED BY <2>2, <3>1 DEF Newest, Seen
  <2>3. CASE run[r].drafts[w] # NoItem
    <3>1. Drafted(w) = {run[r].drafts[w]}
      BY <2>1, <2>3 DEF Drafted
    <3> QED BY <2>3, <3>1 DEF Newest, Seen
  <2> QED BY <2>2, <2>3
<1>3. ASSUME \A o \in Requester : run[o].stage \notin InRefresh, NEW w \in Workflow
      PROVE  Newest(w) = items[w]
  <2>1. Drafted(w) = {}
    BY <1>1, <1>3 DEF Drafted
  <2> QED BY <2>1 DEF Newest
<1> QED BY <1>2, <1>3 DEF NewestInv

LEMMA NewestNext == Inv' => NewestInv'
BY NewestIs, PTL

\* What a step of r that writes no draft and ends no refresh leaves alone.
LEMMA DraftsStay ==
    ASSUME NEW w \in Workflow, \A o \in Requester : run'[o].drafts[w] = run[o].drafts[w]
    PROVE  /\ Drafted(w)' = Drafted(w)
           /\ items'[w] = items[w] => Newest(w)' = Newest(w)
<1>1. Drafted(w)' = Drafted(w)
  BY DEF Drafted
<1> QED BY <1>1 DEF Newest

LEMMA ItemAfterStays ==
    ASSUME log \in Seq(Event), Decides(log), NEW n \in 1 .. Len(log), NEW i \in Item,
           i.status \in TerminalStatus
    PROVE  ItemAfter(i, n).status \in TerminalStatus
<1>1. CASE log[n].type = "ApprovalRecorded"
  <2> DEFINE j == Decided(i, n)
  <2>1. j.status = log[n].status /\ log[n].status \in TerminalStatus
    BY <1>1 DEF Decided, Item, Decides
  <2> HIDE DEF j
  <2> QED BY <1>1, <2>1 DEF ItemAfter, j
<1>2. CASE log[n].type # "ApprovalRecorded"
  <2> DEFINE k == (log[n].type = "WorkflowReviewRequested")
             j == Requested(i, k)
  <2> HIDE DEF k
  <2>1. j.status = i.status
    BY DEF Requested, Item
  <2> HIDE DEF j
  <2> QED BY <1>2, <2>1 DEF ItemAfter, j, k
<1> QED BY <1>1, <1>2

\* A step reopens w, and neither wrote it from a row that had changed nor died.
Reopened(w) ==
    /\ Newest(w).status \in TerminalStatus /\ Newest(w)'.status \notin TerminalStatus
    /\ \A r \in Requester : /\ ~(StaleWrite(r, w) /\ run'[r] # run[r])
                            /\ ~(Crash(r) /\ run[r].drafts[w] # NoItem)

LEMMA WriteItemKeeps ==
    ASSUME Inv, Valid, NEW r \in Requester, WriteItem(r), NEW w \in Workflow
    PROVE  ~Reopened(w)
<1> DEFINE n == run[r].pos
           at == run[r].at
           item == ItemAfter(run[r].seen, n)
           d == [run[r].drafts EXCEPT ![at] = item]
           R == run[r].rows \cup {SourceRow(n)}
           K == run[r].keys \cup {NoticeOf(n)}
           new == [[run[r] EXCEPT !.drafts = d, !.rows = R, !.keys = K] EXCEPT !.stage = "apply"]
<1>0. Inv'
  BY NextInv DEF Next, Refresh
<1>1. run' = [run EXCEPT ![r] = new] /\ run[r].stage = "write" /\ items' = items
  BY DEF WriteItem, Goto
<1>2. RefreshInv(run[r], log, cursor) /\ Decides(log)
  BY <1>1, RunFacts, StageNames DEF RunInv, Valid
<1>3. n \in 1 .. Len(log) /\ at \in Workflow /\ run[r].seen \in Item /\ run[r].drafts \in [Workflow -> Item]
  BY <1>1, <1>2, RunFacts DEF RefreshInv
<1>4. run[r].seen.status \in TerminalStatus => item.status \in TerminalStatus
  BY <1>2, <1>3, RunFacts, ItemAfterStays
<1>5. d[w] = IF w = at THEN item ELSE run[r].drafts[w]
  BY <1>3
<1> HIDE DEF d, R, K, item
<1>6. new.stage = "apply" /\ new.drafts = d
  BY RunFacts DEF Run
<1> HIDE DEF new
<1>7. run'[r] = new /\ run'[r] # run[r]
  BY <1>1, <1>6, RunFacts DEF Inv, TypeOK
<1>8. Newest(w) = Seen(r, w)
  BY <1>1, NewestIs, StageNames DEF NewestInv
<1>9. Newest(w)' = IF d[w] # NoItem THEN d[w] ELSE items[w]
  BY <1>0, <1>1, <1>6, <1>7, NewestNext, StageNames DEF NewestInv, Seen
<1>10. CASE w # at
  BY <1>5, <1>8, <1>9, <1>10 DEF Seen, Reopened
<1>11. CASE w = at
  <2> SUFFICES ASSUME Reopened(w) PROVE FALSE
    OBVIOUS
  <2>1. run[r].seen = Newest(w)
    BY <1>1, <1>7, <1>11 DEF Reopened, StaleWrite
  <2>2. item.status \in TerminalStatus
    BY <1>4, <2>1 DEF Reopened
  <2>3. item # NoItem
    BY <2>2 DEF NoItem, TerminalStatus
  <2> QED BY <1>5, <1>9, <1>11, <2>2, <2>3 DEF Reopened
<1> QED BY <1>10, <1>11

LEMMA EscalateOverdueKeeps ==
    ASSUME Inv, Valid, NEW r \in Requester, EscalateOverdue(r), NEW w \in Workflow
    PROVE  ~Reopened(w)
<1> DEFINE at == run[r].at
           listed == run[r].sweep[at]
           item == Escalated(listed, run[r].seen)
           D == [run[r].drafts EXCEPT ![at] = item]
           left == [run[r].sweep EXCEPT ![at] = NoItem]
           R == run[r].rows \cup {EscalateRow(at, listed)}
           K == run[r].keys \cup {EscalationNotice(at, listed)}
           new == [[run[r] EXCEPT !.drafts = D, !.sweep = left, !.rows = R, !.keys = K]
                      EXCEPT !.stage = "sweep"]
<1>0. Inv'
  BY NextInv DEF Next, Refresh
<1>1. run' = [run EXCEPT ![r] = new] /\ run[r].stage = "escalate" /\ items' = items
  BY DEF EscalateOverdue, Goto
<1>2. at \in Workflow /\ listed # NoItem /\ IsOpen(listed)
  BY <1>1, RunFacts DEF Valid, Validated
<1>3. D[w] = IF w = at THEN item ELSE run[r].drafts[w]
  BY <1>2, RunFacts
<1> HIDE DEF D, left, R, K
<1>4. new.stage = "sweep" /\ new.drafts = D
  BY RunFacts DEF Run
<1> HIDE DEF new
<1>5. run'[r] = new /\ run'[r] # run[r]
  BY <1>1, <1>4, RunFacts DEF Inv, TypeOK
<1>6. Newest(w) = Seen(r, w)
  BY <1>1, NewestIs, StageNames DEF NewestInv
<1>7. Newest(w)' = IF D[w] # NoItem THEN D[w] ELSE items[w]
  BY <1>0, <1>1, <1>4, <1>5, NewestNext, StageNames DEF NewestInv, Seen
<1>8. CASE w # at
  BY <1>3, <1>6, <1>7, <1>8 DEF Seen, Reopened
<1>9. CASE w = at
  <2> SUFFICES ASSUME Reopened(w) PROVE FALSE
    OBVIOUS
  <2>1. listed = Newest(w)
    BY <1>1, <1>5, <1>9 DEF Reopened, StaleWrite
  <2> QED BY <1>2, <2>1 DEF Reopened, IsOpen, OpenStatus, TerminalStatus
<1> QED BY <1>8, <1>9

LEMMA CommitRefreshKeeps ==
    ASSUME Inv, NEW r \in Requester, CommitRefresh(r), NEW w \in Workflow
    PROVE  Newest(w)' = Newest(w) /\ items'[w] = Seen(r, w)
<1>0. Inv'
  BY NextInv DEF Next, Refresh
<1>1. run[r].stage = "sweep" /\ items'[w] = Seen(r, w)
  BY DEF CommitRefresh
<1>3. PICK s, x : s \in {"fetch", "lock", "answered"} /\ Goto(r, s, x)
  BY CommitRefreshGoes
<1> DEFINE new == [x EXCEPT !.stage = s]
<1>4. run' = [run EXCEPT ![r] = new]
  BY <1>3 DEF Goto
<1>5. new \in Run
  BY <1>0, <1>4, NewRunType
<1>6. new.stage = s
  BY <1>5 DEF Run
<1> HIDE DEF new
<1>7. \A o \in Requester : run'[o].stage \notin InRefresh
  BY <1>1, <1>3, <1>4, <1>6, StageNames DEF Inv, TypeOK
<1>8. Newest(w)' = items'[w]
  BY <1>0, <1>7, NewestNext DEF NewestInv
<1>9. Newest(w) = Seen(r, w)
  BY <1>1, NewestIs, StageNames DEF NewestInv
<1> QED BY <1>1, <1>8, <1>9

LEMMA UpsertKeeps ==
    ASSUME Inv, Valid, NEW r \in Requester, Upsert(r), NEW w \in Workflow
    PROVE  ~Reopened(w)
<1> DEFINE at == run[r].workflow
           item == Merged(r)
           new == [run[r] EXCEPT !.stage = "record"]
<1>1. /\ run[r].stage = "upsert" /\ RowIsFree(at) /\ items' = [items EXCEPT ![at] = item]
      /\ run' = [run EXCEPT ![r] = new]
  BY DEF Upsert, Goto
<1>2. new.drafts = run[r].drafts /\ new.stage = "record"
  BY RunFacts DEF Run
<1> HIDE DEF new
<1>3. run'[r] = new /\ run'[r] # run[r] /\ \A o \in Requester : run'[o].drafts = run[o].drafts
  BY <1>1, <1>2, RunFacts DEF Inv, TypeOK
<1>4. at \in Workflow /\ items'[w] = IF w = at THEN item ELSE items[w]
  BY <1>1, RunFacts
<1>5. CASE w # at
  BY <1>3, <1>4, <1>5, DraftsStay DEF Reopened
<1>6. CASE w = at
  <2> SUFFICES ASSUME Reopened(w) PROVE FALSE
    OBVIOUS
  <2>1. run[r].read = Newest(w) /\ run[r].seen = Newest(w)
    BY <1>1, <1>3, <1>6 DEF Reopened, StaleWrite
  <2>2. run[r].call = "comment"
    BY <1>1, <2>1 DEF Reopened, Valid, Validated
  <2>3. item = Newest(w)
    BY <2>1, <2>2 DEF Merged
  <2>4. Drafted(w) = {}
    BY <1>1, <1>6 DEF Drafted, RowIsFree
  <2>5. Drafted(w)' = {}
    BY <1>3, <2>4, DraftsStay
  <2>6. Newest(w)' = items'[w]
    BY <2>5 DEF Newest
  <2> QED BY <1>4, <1>6, <2>3, <2>6 DEF Reopened
<1> QED BY <1>5, <1>6

\* A step that leaves the items alone, and the drafts of the process that moves.
LEMMA LocalKeeps ==
    ASSUME Inv, NEW r \in Requester, NEW s, NEW x, Goto(r, s, x), x.drafts = run[r].drafts,
           Inv', UNCHANGED items, NEW w \in Workflow
    PROVE  ~Reopened(w)
<1> DEFINE new == [x EXCEPT !.stage = s]
<1>1. run' = [run EXCEPT ![r] = new]
  BY DEF Goto
<1>2. new \in Run
  BY <1>1, NewRunType
<1>3. new.drafts = x.drafts
  BY <1>2 DEF Run
<1> HIDE DEF new
<1>4. \A o \in Requester : run'[o].drafts = run[o].drafts
  BY <1>1, <1>3 DEF Inv, TypeOK
<1> QED BY <1>4, DraftsStay DEF Reopened

LEMMA ReturnKeeps ==
    ASSUME Inv, NEW r \in Requester, run[r].stage \notin InRefresh \/ Crash(r), Return(r),
           UNCHANGED items, NEW w \in Workflow
    PROVE  ~Reopened(w)
<1>1. \A o \in Requester : run'[o] = IF o = r THEN Idle ELSE run[o]
  BY DEF Return, Inv, TypeOK
<1>2. run[r].drafts[w] # NoItem => Crash(r)
  BY RunFacts DEF RunInv, NoItems
<1>3. Idle.drafts[w] = NoItem
  BY IdleType DEF NoItems
<1>4. CASE run[r].drafts[w] = NoItem
  BY <1>1, <1>3, <1>4, DraftsStay DEF Reopened
<1>5. CASE Crash(r) /\ run[r].drafts[w] # NoItem
  BY <1>5 DEF Reopened
<1> QED BY <1>2, <1>4, <1>5

LEMMA StepKeeps ==
    ASSUME Inv, Valid, Next, NEW w \in Workflow
    PROVE  ~Reopened(w)
<1>0. Inv'
  BY NextInv
<1>1. CASE UNCHANGED <<items, run>>
  BY <1>1, DraftsStay DEF Reopened
<1>2. ASSUME NEW r \in Requester, NEW c \in Call, NEW v \in Workflow,
             NEW q \in RequestId \cup {NoRequest}, BeginCall(r, c, v, q)
      PROVE  ~Reopened(w)
  <2> DEFINE local == [Idle EXCEPT !.call = c, !.workflow = v, !.request = q]
             then == IF c = "read" THEN "answer" ELSE "fetch"
             x == [local EXCEPT !.then = then, !.now = due]
  <2>1. Goto(r, "lock", x) /\ UNCHANGED items /\ run[r].stage = "idle"
    BY <1>2 DEF BeginCall, StartRefresh
  <2>2. x.drafts = NoItems
    BY IdleType DEF Run
  <2> HIDE DEF x
  <2>3. run[r].drafts = NoItems
    BY <2>1, RunFacts, StageNames DEF RunInv
  <2> QED BY <1>0, <2>1, <2>2, <2>3, LocalKeeps
<1>3. ASSUME NEW r \in Requester, Refresh(r) PROVE ~Reopened(w)
  <2>1. CASE WriteItem(r) \/ EscalateOverdue(r)
    BY <2>1, WriteItemKeeps, EscalateOverdueKeeps
  <2>2. CASE CommitRefresh(r)
    BY <2>2, CommitRefreshKeeps DEF Reopened
  <2>3. CASE LockRuntime(r)
    <3> DEFINE x == [run[r] EXCEPT !.upto = Len(log), !.pos = cursor]
    <3>1. Goto(r, "apply", x) /\ UNCHANGED items
      BY <2>3 DEF LockRuntime
    <3>2. x.drafts = run[r].drafts
      BY RunFacts DEF Run
    <3> HIDE DEF x
    <3> QED BY <1>0, <3>1, <3>2, LocalKeeps
  <2>4. CASE ReadItem(r)
    BY <1>0, <2>4, ReadItemGoes, LocalKeeps
  <2>5. CASE BeginSweep(r)
    <3> DEFINE open == [v \in Workflow |-> IF IsOpen(Seen(r, v)) THEN Seen(r, v) ELSE NoItem]
               x == [run[r] EXCEPT !.sweep = open]
    <3>1. Goto(r, "sweep", x) /\ UNCHANGED items
      BY <2>5 DEF BeginSweep
    <3> HIDE DEF open
    <3>2. x.drafts = run[r].drafts
      BY RunFacts DEF Run
    <3> HIDE DEF x
    <3> QED BY <1>0, <3>1, <3>2, LocalKeeps
  <2>6. ASSUME NEW v \in Workflow, WarnDeadline(r, v) PROVE ~Reopened(w)
    <3> DEFINE K == run[r].keys \cup {k \in {[category |-> "deadline_risk", workflow |-> v, n |-> 0]} :
                                        run[r].now[v] = "soon"}
               left == [run[r].sweep EXCEPT ![v] = NoItem]
               x == [run[r] EXCEPT !.sweep = left, !.keys = K]
    <3>1. Goto(r, "sweep", x) /\ UNCHANGED items
      BY <2>6 DEF WarnDeadline
    <3> HIDE DEF K, left
    <3>2. x.drafts = run[r].drafts
      BY RunFacts DEF Run
    <3> HIDE DEF x
    <3> QED BY <1>0, <3>1, <3>2, LocalKeeps
  <2>7. ASSUME NEW v \in Workflow, ReadOverdue(r, v) PROVE ~Reopened(w)
    <3> DEFINE x == [run[r] EXCEPT !.at = v, !.seen = Seen(r, v)]
    <3>1. Goto(r, "escalate", x) /\ UNCHANGED items
      BY <2>7 DEF ReadOverdue
    <3>2. x.drafts = run[r].drafts
      BY RunFacts DEF Run
    <3> HIDE DEF x
    <3> QED BY <1>0, <3>1, <3>2, LocalKeeps
  <2> QED BY <1>3, <2>1, <2>2, <2>3, <2>4, <2>5, <2>6, <2>7 DEF Refresh
<1>4. ASSUME NEW r \in Requester, Act(r) PROVE ~Reopened(w)
  <2>1. CASE Upsert(r)
    BY <2>1, UpsertKeeps
  <2>2. CASE Fetch(r)
    <3> DEFINE s == IF run[r].call \in Manual THEN "reread" ELSE "sequence"
               x == [run[r] EXCEPT !.read = items[run[r].workflow]]
    <3>1. Goto(r, s, x) /\ UNCHANGED items
      BY <2>2 DEF Fetch
    <3>2. x.drafts = run[r].drafts
      BY RunFacts DEF Run
    <3> HIDE DEF x, s
    <3> QED BY <1>0, <3>1, <3>2, LocalKeeps
  <2>3. CASE ReadSequence(r)
    <3> DEFINE x == [run[r] EXCEPT !.seq = Len(log)]
    <3>1. Goto(r, "append", x) /\ UNCHANGED items
      BY <2>3 DEF ReadSequence
    <3>2. x.drafts = run[r].drafts
      BY RunFacts DEF Run
    <3> HIDE DEF x
    <3> QED BY <1>0, <3>1, <3>2, LocalKeeps
  <2>4. CASE AppendOwn(r)
    <3> DEFINE then == IF run[r].call = "start_review" THEN "again" ELSE "answer"
               x == [[run[r] EXCEPT !.event = Len(log) + 1] EXCEPT !.then = then, !.now = due]
    <3>1. Goto(r, "lock", x) /\ UNCHANGED items
      BY <2>4 DEF AppendOwn, StartRefresh
    <3>2. x.drafts = run[r].drafts
      BY RunFacts DEF Run
    <3> HIDE DEF x
    <3> QED BY <1>0, <3>1, <3>2, LocalKeeps
  <2>5. CASE Reread(r)
    <3> DEFINE x == [run[r] EXCEPT !.seen = items[run[r].workflow]]
    <3>1. Goto(r, "upsert", x) /\ UNCHANGED items
      BY <2>5 DEF Reread
    <3>2. x.drafts = run[r].drafts
      BY RunFacts DEF Run
    <3> HIDE DEF x
    <3> QED BY <1>0, <3>1, <3>2, LocalKeeps
  <2>6. CASE Record(r)
    <3>1. run[r].stage = "record" /\ UNCHANGED items /\ (Goto(r, "notify", run[r]) \/ Return(r))
      BY <2>6 DEF Record
    <3> QED BY <1>0, <3>1, LocalKeeps, ReturnKeeps, StageNames
  <2>7. CASE Refuse(r) \/ RejectAppend(r) \/ Notify(r) \/ Answer(r)
    <3>1. run[r].stage \in {"fetch", "append", "notify", "answered"} /\ UNCHANGED items /\ Return(r)
      BY <2>7 DEF Refuse, RejectAppend, Notify, Answer
    <3> QED BY <3>1, ReturnKeeps, StageNames
  <2> QED BY <1>4, <2>1, <2>2, <2>3, <2>4, <2>5, <2>6, <2>7 DEF Act
<1>5. ASSUME NEW r \in Requester, Crash(r) PROVE ~Reopened(w)
  BY <1>5, ReturnKeeps DEF Crash
<1>6. ASSUME NEW e \in External, AppendExternal(e) PROVE ~Reopened(w)
  BY <1>1, <1>6 DEF AppendExternal
<1>7. ASSUME NEW v \in Workflow, TimePasses(v) PROVE ~Reopened(w)
  BY <1>1, <1>7 DEF TimePasses
<1> QED BY <1>2, <1>3, <1>4, <1>5, <1>6, <1>7 DEF Next

\* A decision is undone only by a call that writes the item from a row that has
\* changed since it was validated or read, whatever overlaps and dies
\* (validate_transition, update_workflow_item!).
THEOREM StaleWritesReopen == Spec => OnlyStaleWritesReopen
<1> DEFINE Kept == \A w \in Workflow :
             Newest(w).status \in TerminalStatus /\ Newest(w)'.status \notin TerminalStatus
               => \E r \in Requester : \/ StaleWrite(r, w) /\ run'[r] # run[r]
                                       \/ Crash(r) /\ run[r].drafts[w] # NoItem
<1>1. Inv /\ Valid /\ [Next]_vars => [Kept]_vars
  BY StepKeeps DEF Reopened
<1> QED BY <1>1, ValidInvariant, PTL DEF Spec, OnlyStaleWritesReopen

-----------------------------------------------------------------------------
(***************************************************************************)
(* What a sweep can miss.                                                  *)
(***************************************************************************)
\* A step of p changes the variables of p only.
LEMMA StepMoves ==
    ASSUME Inv, NEW p \in Requester, Refresh(p) \/ Act(p) \/ Crash(p)
    PROVE  \E x : run' = [run EXCEPT ![p] = x]
<1>1. \A s, x : Goto(p, s, x) => \E y : run' = [run EXCEPT ![p] = y]
  BY DEF Goto
<1>2. Return(p) => \E y : run' = [run EXCEPT ![p] = y]
  BY DEF Return
<1>3. CASE LockRuntime(p) \/ WriteItem(p) \/ BeginSweep(p) \/ EscalateOverdue(p)
  BY <1>1, <1>3 DEF LockRuntime, WriteItem, BeginSweep, EscalateOverdue
<1>4. CASE ReadItem(p) \/ CommitRefresh(p)
  BY <1>1, <1>4, ReadItemGoes, CommitRefreshGoes
<1>5. ASSUME NEW w \in Workflow, WarnDeadline(p, w) \/ ReadOverdue(p, w)
      PROVE  \E x : run' = [run EXCEPT ![p] = x]
  BY <1>1, <1>5 DEF WarnDeadline, ReadOverdue
<1>6. CASE Fetch(p) \/ ReadSequence(p) \/ AppendOwn(p) \/ Reread(p) \/ Upsert(p) \/ Record(p)
  BY <1>1, <1>2, <1>6 DEF Fetch, ReadSequence, AppendOwn, StartRefresh, Reread, Upsert, Record
<1>7. CASE Refuse(p) \/ RejectAppend(p) \/ Notify(p) \/ Answer(p) \/ Crash(p)
  BY <1>2, <1>7 DEF Refuse, RejectAppend, Notify, Answer, Crash
<1> QED BY <1>3, <1>4, <1>5, <1>6, <1>7 DEF Refresh, Act

\* Only these change an item.
LEMMA OnlyWriters ==
    ASSUME Inv, NEW p \in Requester, Refresh(p) \/ Act(p) \/ Crash(p),
           ~Upsert(p), ~CommitRefresh(p)
    PROVE  UNCHANGED items
<1>1. CASE ReadItem(p)
  BY <1>1, ReadItemGoes
<1>2. CASE Refresh(p) /\ ~ReadItem(p)
  <2>1. ASSUME NEW w \in Workflow, WarnDeadline(p, w) \/ ReadOverdue(p, w) PROVE UNCHANGED items
    BY <2>1 DEF WarnDeadline, ReadOverdue
  <2>2. CASE LockRuntime(p) \/ WriteItem(p) \/ BeginSweep(p) \/ EscalateOverdue(p)
    BY <2>2 DEF LockRuntime, WriteItem, BeginSweep, EscalateOverdue
  <2> QED BY <1>2, <2>1, <2>2 DEF Refresh
<1>3. CASE Act(p)
  BY <1>3 DEF Act, Fetch, Refuse, ReadSequence, AppendOwn, RejectAppend, Reread, Record, Notify, Answer
<1>4. CASE Crash(p)
  BY <1>4 DEF Crash
<1> QED BY <1>1, <1>2, <1>3, <1>4

\* A process that goes on elsewhere neglects nothing.
LEMMA QuietSees ==
    ASSUME Inv, Inv', NEW r \in Requester, NEW s, s \notin {"sweep", "escalate", "answered"}, NEW x,
           Goto(r, s, x), NEW w \in Workflow
    PROVE  ~Neglects(r, w)'
<1> DEFINE new == [x EXCEPT !.stage = s]
<1>1. run' = [run EXCEPT ![r] = new]
  BY DEF Goto
<1>2. new \in Run
  BY <1>1, NewRunType
<1>3. new.stage = s
  BY <1>2 DEF Run
<1> HIDE DEF new
<1>4. run'[r].stage = s
  BY <1>1, <1>3 DEF Inv, TypeOK
<1> QED BY <1>4 DEF Neglects

\* The step of another process p, as r sees it.
LEMMA OtherSweeps ==
    ASSUME Inv, NEW p \in Requester, NEW r \in Requester, p # r, Refresh(p) \/ Act(p) \/ Crash(p),
           NEW w \in Workflow, ~Neglects(r, w), Neglects(r, w)'
    PROVE  \/ Upsert(p) /\ run[p].workflow = w
           \/ CommitRefresh(p) /\ run[r].stage = "answered"
<1>1. run'[r] = run[r]
  <2>1. \E x : run' = [run EXCEPT ![p] = x]
    BY StepMoves
  <2> QED BY <2>1 DEF Inv, TypeOK
<1>2. items'[w] # items[w]
  BY <1>1 DEF Neglects, Seen, Overdue
<1>3. Upsert(p) \/ CommitRefresh(p)
  BY <1>2, OnlyWriters
<1>4. CASE Upsert(p)
  <2>1. items' = [items EXCEPT ![run[p].workflow] = Merged(p)]
    BY <1>4 DEF Upsert
  <2>2. run[p].workflow = w
    BY <1>2, <2>1, RunFacts
  <2> QED BY <1>4, <2>2
<1>5. CASE CommitRefresh(p)
  <2>1. run[p].stage \in InRefresh
    BY <1>5, StageNames DEF CommitRefresh
  <2>2. run[r].stage \notin InRefresh
    BY <2>1 DEF Inv
  <2>3. run[r].stage = "answered"
    BY <1>1, <2>2, StageNames DEF Neglects
  <2> QED BY <1>5, <2>3
<1> QED BY <1>3, <1>4, <1>5

\* A process neglects no item by a step of its own.
LEMMA BeginSweepSees ==
    ASSUME Inv, NEW r \in Requester, BeginSweep(r), NEW w \in Workflow
    PROVE  ~Neglects(r, w)'
<1> DEFINE open == [v \in Workflow |-> IF IsOpen(Seen(r, v)) THEN Seen(r, v) ELSE NoItem]
           new == [[run[r] EXCEPT !.sweep = open] EXCEPT !.stage = "sweep"]
<1>1. run' = [run EXCEPT ![r] = new] /\ items' = items
  BY DEF BeginSweep, Goto
<1>2. IsOpen(Seen(r, w)) => open[w] = Seen(r, w)
  OBVIOUS
<1> HIDE DEF open
<1>3. new.drafts = run[r].drafts /\ new.sweep = open /\ new.now = run[r].now
  BY RunFacts DEF Run
<1> HIDE DEF new
<1>4. run'[r] = new
  BY <1>1 DEF Inv, TypeOK
<1>5. Seen(r, w)' = Seen(r, w)
  BY <1>1, <1>3, <1>4 DEF Seen
<1> SUFFICES ASSUME Neglects(r, w)' PROVE FALSE
  OBVIOUS
<1>6. /\ IsOpen(Seen(r, w)) /\ Seen(r, w).status # "escalated" /\ run[r].now[w] = "past"
      /\ ~(open[w].status \in {"requested", "in_review", "changes_requested"})
  BY <1>3, <1>4, <1>5 DEF Neglects, Overdue, IsOpen
<1> QED BY <1>2, <1>6 DEF IsOpen, OpenStatus

\* The sweep takes an item from its list.
LEMMA SweepSees ==
    ASSUME Inv, NEW r \in Requester, run[r].stage \in {"sweep", "escalate"}, UNCHANGED items,
           NEW v \in Workflow, NEW new, run' = [run EXCEPT ![r] = new], new.now = run[r].now,
           \A w \in Workflow \ {v} : /\ new.drafts[w] = run[r].drafts[w]
                                     /\ new.sweep[w] = run[r].sweep[w],
           ~Neglects(r, v) => ~Neglects(r, v)',
           NEW w \in Workflow, Neglects(r, w)'
    PROVE  Neglects(r, w)
<1>1. run'[r] = new
  BY DEF Inv, TypeOK
<1>2. CASE w = v
  BY <1>2
<1>3. CASE w # v
  <2>1. Seen(r, w)' = Seen(r, w)
    BY <1>1, <1>3 DEF Seen
  <2>2. Overdue(r, w)' <=> Overdue(r, w)
    BY <1>1, <1>3 DEF Overdue
  <2> QED BY <1>1, <2>1, <2>2 DEF Neglects, IsOpen
<1> QED BY <1>2, <1>3

LEMMA WarnDeadlineSees ==
    ASSUME Inv, NEW r \in Requester, NEW v \in Workflow, WarnDeadline(r, v),
           NEW w \in Workflow, Neglects(r, w)'
    PROVE  Neglects(r, w)
<1> DEFINE K == run[r].keys \cup {k \in {[category |-> "deadline_risk", workflow |-> v, n |-> 0]} :
                                    run[r].now[v] = "soon"}
           left == [run[r].sweep EXCEPT ![v] = NoItem]
           new == [[run[r] EXCEPT !.sweep = left, !.keys = K] EXCEPT !.stage = "sweep"]
<1>1. /\ run' = [run EXCEPT ![r] = new] /\ run[r].stage = "sweep" /\ UNCHANGED items
      /\ ~Overdue(r, v)
  BY DEF WarnDeadline, Goto
<1>2. \A x \in Workflow \ {v} : left[x] = run[r].sweep[x]
  BY RunFacts
<1> HIDE DEF K, left
<1>3. new.sweep = left /\ new.now = run[r].now /\ new.drafts = run[r].drafts
  BY RunFacts DEF Run
<1> HIDE DEF new
<1>4. Neglects(r, v)' => Neglects(r, v)
  <2>1. run'[r] = new
    BY <1>1 DEF Inv, TypeOK
  <2>2. Seen(r, v)' = Seen(r, v)
    BY <1>1, <1>3, <2>1 DEF Seen
  <2> QED BY <1>1, <1>3, <2>1, <2>2 DEF Neglects, IsOpen
<1>5. \A x \in Workflow \ {v} : /\ new.drafts[x] = run[r].drafts[x]
                                /\ new.sweep[x] = run[r].sweep[x]
  BY <1>2, <1>3
<1>6. run[r].stage \in {"sweep", "escalate"} /\ run' = [run EXCEPT ![r] = new]
      /\ UNCHANGED items /\ new.now = run[r].now
  BY <1>1, <1>3
<1> QED BY <1>4, <1>5, <1>6, SweepSees

LEMMA EscalateOverdueSees ==
    ASSUME Inv, NEW r \in Requester, EscalateOverdue(r), NEW w \in Workflow, Neglects(r, w)'
    PROVE  Neglects(r, w)
<1>0. PICK v \in Workflow : v = run[r].at
  BY RunFacts
<1> DEFINE listed == run[r].sweep[v]
           item == Escalated(listed, run[r].seen)
           D == [run[r].drafts EXCEPT ![v] = item]
           left == [run[r].sweep EXCEPT ![v] = NoItem]
           R == run[r].rows \cup {EscalateRow(v, listed)}
           K == run[r].keys \cup {EscalationNotice(v, listed)}
           new == [[run[r] EXCEPT !.drafts = D, !.sweep = left, !.rows = R, !.keys = K]
                      EXCEPT !.stage = "sweep"]
<1>1. run' = [run EXCEPT ![r] = new] /\ run[r].stage = "escalate" /\ UNCHANGED items
  BY <1>0 DEF EscalateOverdue, Goto
<1>2. item.status = "escalated" /\ item # NoItem
  <2>1. run[r].seen \in Item
    BY RunFacts
  <2>2. item.status = "escalated"
    BY <2>1 DEF Escalated, Item
  <2> QED BY <2>1, <2>2 DEF NoItem
<1>3. /\ D[v] = item
      /\ \A x \in Workflow \ {v} : left[x] = run[r].sweep[x] /\ D[x] = run[r].drafts[x]
  BY <1>2, RunFacts
<1> HIDE DEF D, R, K, left, item
<1>4. new.sweep = left /\ new.now = run[r].now /\ new.drafts = D
  BY RunFacts DEF Run
<1> HIDE DEF new
<1>5. ~Neglects(r, v)'
  <2>1. run'[r] = new
    BY <1>1 DEF Inv, TypeOK
  <2>2. Seen(r, v)' = item
    BY <1>2, <1>3, <1>4, <2>1 DEF Seen
  <2> QED BY <1>2, <2>2 DEF Neglects
<1>6. \A x \in Workflow \ {v} : /\ new.drafts[x] = run[r].drafts[x]
                                /\ new.sweep[x] = run[r].sweep[x]
  BY <1>3, <1>4
<1>7. run[r].stage \in {"sweep", "escalate"} /\ run' = [run EXCEPT ![r] = new]
      /\ UNCHANGED items /\ new.now = run[r].now
  BY <1>1, <1>4
<1> QED BY <1>5, <1>6, <1>7, SweepSees

LEMMA ReadOverdueSees ==
    ASSUME Inv, NEW r \in Requester, NEW v \in Workflow, ReadOverdue(r, v),
           NEW w \in Workflow, Neglects(r, w)'
    PROVE  Neglects(r, w)
<1> DEFINE new == [[run[r] EXCEPT !.at = v, !.seen = Seen(r, v)] EXCEPT !.stage = "escalate"]
<1>1. run' = [run EXCEPT ![r] = new] /\ run[r].stage = "sweep" /\ UNCHANGED items
  BY DEF ReadOverdue, Goto
<1>2. new.sweep = run[r].sweep /\ new.now = run[r].now /\ new.drafts = run[r].drafts
  BY RunFacts DEF Run
<1> HIDE DEF new
<1>3. run'[r] = new
  BY <1>1 DEF Inv, TypeOK
<1>4. Seen(r, w)' = Seen(r, w) /\ (Overdue(r, w)' <=> Overdue(r, w))
  BY <1>1, <1>2, <1>3 DEF Seen, Overdue
<1> QED BY <1>1, <1>2, <1>3, <1>4 DEF Neglects, IsOpen

LEMMA CommitRefreshSees ==
    ASSUME Inv, Inv', NEW r \in Requester, CommitRefresh(r), NEW w \in Workflow, Neglects(r, w)'
    PROVE  Neglects(r, w)
<1> DEFINE local == [Idle EXCEPT !.call = run[r].call, !.workflow = run[r].workflow,
                                 !.request = run[r].request, !.event = run[r].event]
           new == [[local EXCEPT !.now = run[r].now] EXCEPT !.stage = "answered"]
<1>1. /\ run[r].stage = "sweep" /\ run[r].sweep = NoItems /\ items'[w] = Seen(r, w)
      /\ CASE run[r].then = "fetch" -> Goto(r, "fetch", local)
           [] run[r].then = "again" -> StartRefresh(r, "answer", local)
           [] run[r].then = "answer" -> Goto(r, "answered", [local EXCEPT !.now = run[r].now])
  BY DEF CommitRefresh
<1>2. local \in Run /\ local.drafts = NoItems
  <2>1. local \in Run
    BY RunFacts, IdleType, RunFields
  <2>2. local.drafts = NoItems
    BY IdleType DEF Run
  <2> QED BY <2>1, <2>2
<1> HIDE DEF local
<1>3. run[r].then \in {"fetch", "again", "answer"}
  BY RunFacts DEF Run
<1>4. CASE run[r].then = "answer"
  <2>1. run' = [run EXCEPT ![r] = new]
    BY <1>1, <1>4 DEF Goto
  <2>2. new.now = run[r].now /\ new.drafts = NoItems
    BY <1>2, RunFacts DEF Run
  <2> HIDE DEF new
  <2>3. run'[r] = new
    BY <2>1 DEF Inv, TypeOK
  <2>4. Seen(r, w)' = Seen(r, w)
    BY <1>1, <2>2, <2>3 DEF Seen, NoItems
  <2>5. ~Overdue(r, w)
    BY <1>1 DEF Overdue, NoItems, NoItem
  <2> QED BY <1>1, <2>2, <2>3, <2>4, <2>5 DEF Neglects, IsOpen
<1>5. CASE run[r].then # "answer"
  <2>1. \E x : \E s \in {"fetch", "lock"} : Goto(r, s, x)
    BY <1>1, <1>3, <1>5 DEF StartRefresh
  <2> QED BY <2>1, QuietSees
<1> QED BY <1>4, <1>5

LEMMA StepSweeps ==
    ASSUME Inv, Next, NEW r \in Requester, NEW w \in Workflow, ~Neglects(r, w), Neglects(r, w)'
    PROVE  \E o \in Requester \ {r} : \/ Upsert(o) /\ run[o].workflow = w
                                      \/ CommitRefresh(o) /\ run[r].stage = "answered"
<1>0. Inv'
  BY NextInv
<1>1. ASSUME UNCHANGED <<items, run>> PROVE FALSE
  BY <1>1 DEF Neglects, Seen, Overdue
<1>2. ASSUME NEW p \in Requester, NEW c \in Call, NEW v \in Workflow,
             NEW q \in RequestId \cup {NoRequest}, BeginCall(p, c, v, q)
      PROVE  FALSE
  <2>1. \E x : Goto(p, "lock", x)
    BY <1>2 DEF BeginCall, StartRefresh
  <2>2. p # r
    BY <1>0, <2>1, QuietSees
  <2>3. items' = items /\ run'[r] = run[r]
    BY <1>2, <2>1, <2>2 DEF BeginCall, Goto, Inv, TypeOK
  <2> QED BY <2>3 DEF Neglects, Seen, Overdue
<1>3. ASSUME NEW p \in Requester, p # r, Refresh(p) \/ Act(p) \/ Crash(p)
      PROVE  \/ Upsert(p) /\ run[p].workflow = w
             \/ CommitRefresh(p) /\ run[r].stage = "answered"
  BY <1>3, OtherSweeps
<1>4. ASSUME Refresh(r) PROVE FALSE
  <2>1. \/ ReadItem(r) \/ LockRuntime(r) \/ WriteItem(r)
        => \E s, x : s \in {"write", "apply"} /\ Goto(r, s, x)
    <3>1. CASE ReadItem(r)
      BY <3>1, ReadItemGoes
    <3>2. CASE LockRuntime(r) \/ WriteItem(r)
      BY <3>2 DEF LockRuntime, WriteItem
    <3> QED BY <3>1, <3>2
  <2>2. ~(ReadItem(r) \/ LockRuntime(r) \/ WriteItem(r))
    BY <1>0, <2>1, QuietSees
  <2>3. ~(BeginSweep(r) \/ EscalateOverdue(r) \/ CommitRefresh(r))
    BY <1>0, BeginSweepSees, EscalateOverdueSees, CommitRefreshSees
  <2>4. \A v \in Workflow : ~(WarnDeadline(r, v) \/ ReadOverdue(r, v))
    BY WarnDeadlineSees, ReadOverdueSees
  <2> QED BY <1>4, <2>2, <2>3, <2>4 DEF Refresh
<1>5. ASSUME Return(r) PROVE FALSE
  <2>1. run'[r].stage = "idle"
    BY <1>5, IdleType DEF Return, Inv, TypeOK
  <2> QED BY <2>1 DEF Neglects
<1>6. ASSUME Act(r) \/ Crash(r) PROVE FALSE
  <2>1. \/ Return(r)
        \/ \E s, x : s \in {"reread", "sequence", "append", "lock", "upsert", "record", "notify"}
                     /\ Goto(r, s, x)
    <3>1. CASE Fetch(r) \/ ReadSequence(r) \/ AppendOwn(r) \/ Reread(r) \/ Upsert(r) \/ Record(r)
      BY <3>1 DEF Fetch, ReadSequence, AppendOwn, StartRefresh, Reread, Upsert, Record
    <3>2. CASE Refuse(r) \/ RejectAppend(r) \/ Notify(r) \/ Answer(r) \/ Crash(r)
      BY <3>2 DEF Refuse, RejectAppend, Notify, Answer, Crash
    <3> QED BY <1>6, <3>1, <3>2 DEF Act
  <2> QED BY <1>0, <1>5, <2>1, QuietSees
<1>7. ASSUME NEW e \in External, AppendExternal(e) PROVE FALSE
  BY <1>1, <1>7 DEF AppendExternal
<1>8. ASSUME NEW v \in Workflow, TimePasses(v) PROVE FALSE
  BY <1>1, <1>8 DEF TimePasses
<1> QED BY <1>2, <1>3, <1>4, <1>6, <1>7, <1>8 DEF Next

\* An answer shows an open item that was overdue when its refresh began, and is
\* not escalated, only if another call wrote the item after the sweep listed it
\* (maybe_auto_escalate!, update_workflow_item!).
THEOREM SweepsAreWhole == Spec => SweptUnlessWritten
<1> DEFINE Kept == \A r \in Requester, w \in Workflow :
             ~Neglects(r, w) /\ Neglects(r, w)'
               => \E o \in Requester \ {r} : \/ Upsert(o) /\ run[o].workflow = w
                                             \/ CommitRefresh(o) /\ run[r].stage = "answered"
<1>1. Inv /\ [Next]_vars => [Kept]_vars
  BY StepSweeps
<1> QED BY <1>1, Invariant, PTL DEF Spec, SweptUnlessWritten
=============================================================================
