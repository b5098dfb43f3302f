----------------------- MODULE ProjectionDigestsProofs -----------------------
(***************************************************************************)
(* For any number of processes, transactions and rollbacks: the full row   *)
(* has the minimum of the cursors, and a commit leaves the row of its own  *)
(* projection fresh.                                                       *)
(*                                                                         *)
(* Every transaction writes the row of context_graph first and keeps it    *)
(* until its commit. So one at a time is past that row (OnePastFirst), only *)
(* that one can commit, and no cursor it reads for the minimum can move    *)
(* before it has committed itself (MinimumInv). Of its own projection a    *)
(* transaction sees what it has written (OwnInv).                          *)
(***************************************************************************)
EXTENDS ProjectionDigests, TLAPS

First == "context_graph"

\* r has written the row of the first projection and has not ended.
PastFirst(r) ==
    \/ run[r].stage \in {"minimum", "full", "commit"}
    \/ run[r].stage \in {"cursor", "upsert"} /\ run[r].k > 1

OnePastFirst == \A r, o \in Runner : PastFirst(r) /\ PastFirst(o) => r = o

\* The cursors as the commit of r will leave them.
CursorsOf(r) == [p \in Projection |-> VisibleCursor(r, p)]

\* What r has read for the minimum still is so.
MinimumInv(r) ==
    /\ run[r].stage = "minimum" =>
          \A j \in 1 .. 3 : j < run[r].k => run[r].cursors[Names[j]] = VisibleCursor(r, Names[j])
    /\ run[r].stage = "full" => run[r].cursors = CursorsOf(r)
    /\ run[r].stage = "commit" => run[r].fullRow.last = Lowest(CursorsOf(r))

\* The row of k-th projection is not reached before k is.
Position(r) == run[r].stage \in {"cursor", "upsert", "minimum"} => run[r].k \in 1 .. 3

OwnRow(r) == [value |-> {run[r].id}, last |-> run[r].until]

\* What r has computed and written of its own projection.
OwnInv(r) ==
    LET own == run[r].projection IN
    /\ run[r].stage = "lock" => run[r].k = 1 /\ run[r].values = NoValues
    /\ run[r].stage = "compute" =>
          /\ run[r].values[own] \subseteq {run[r].id}
          /\ (\E j \in 1 .. 4 : j < run[r].k /\ Queries[j] = own) => run[r].id \in run[r].values[own]
    /\ run[r].stage \in {"cursor", "upsert", "minimum", "full", "commit"} =>
          run[r].values[own] = {run[r].id}
    /\ run[r].stage = "upsert" /\ Names[run[r].k] = own => run[r].last = run[r].until
    /\ HasWritten(r, own) => run[r].rows[own] = OwnRow(r)
    /\ run[r].stage = "commit" => run[r].fullRow.value = run[r].values

RunInv(r) == MinimumInv(r) /\ Position(r) /\ OwnInv(r)

Inv == TypeOK /\ FullIsMinimum /\ OnePastFirst /\ \A r \in Runner : RunInv(r)

-----------------------------------------------------------------------------
LEMMA NamesAre ==
    /\ Names[1] = "context_graph" /\ Names[2] = "trace_summary" /\ Names[3] = "precedent_index"
    /\ Len(Names) = 3
    /\ \A j \in 1 .. 3 : Names[j] \in Projection
    /\ Names[1] = First
BY DEF Names, Projection, First

LEMMA QueriesAre ==
    /\ Queries[1] = "context_graph" /\ Queries[2] = "context_graph"
    /\ Queries[3] = "trace_summary" /\ Queries[4] = "precedent_index"
    /\ Len(Queries) = 4
    /\ \A j \in 1 .. 4 : Queries[j] \in Projection
    /\ \A p \in Projection : \E j \in 1 .. 4 : Queries[j] = p
<1>1. /\ Queries[1] = "context_graph" /\ Queries[2] = "context_graph"
      /\ Queries[3] = "trace_summary" /\ Queries[4] = "precedent_index"
      /\ Len(Queries) = 4
  BY DEF Queries
<1>2. \A p \in Projection : \E j \in 1 .. 4 : Queries[j] = p
  <2> SUFFICES ASSUME NEW p \in Projection PROVE \E j \in 1 .. 4 : Queries[j] = p
    OBVIOUS
  <2>1. CASE p = "context_graph"
    <3> WITNESS 1 \in 1 .. 4
    <3> QED BY <1>1, <2>1
  <2>2. CASE p = "trace_summary"
    <3> WITNESS 3 \in 1 .. 4
    <3> QED BY <1>1, <2>2
  <2>3. CASE p = "precedent_index"
    <3> WITNESS 4 \in 1 .. 4
    <3> QED BY <1>1, <2>3
  <2> QED BY <2>1, <2>2, <2>3 DEF Projection
<1> QED BY <1>1, <1>2 DEF Projection

\* The minimum is one of the numbers.
LEMMA LowestIsOne ==
    ASSUME NEW f \in [Projection -> LogSeq]
    PROVE  Lowest(f) \in LogSeq
<1> DEFINE S == {f[p] : p \in Projection}
<1>1. S \subseteq LogSeq /\ LogSeq \subseteq Nat
  BY DigestsAssumption DEF LogSeq
<1>2. \E n \in S : \A p \in Projection : n <= f[p]
  <2> DEFINE a == f["context_graph"]
             b == f["trace_summary"]
             c == f["precedent_index"]
  <2>1. a \in S /\ b \in S /\ c \in S
    BY DEF Projection
  <2>2. a \in Nat /\ b \in Nat /\ c \in Nat
    BY <1>1, <2>1
  <2>3. \A p \in Projection : f[p] \in {a, b, c}
    BY DEF Projection
  <2> HIDE DEF a, b, c, S
  <2>4. CASE a <= b /\ a <= c
    BY <2>1, <2>2, <2>3, <2>4
  <2>5. CASE b <= a /\ b <= c
    BY <2>1, <2>2, <2>3, <2>5
  <2>6. CASE c <= a /\ c <= b
    BY <2>1, <2>2, <2>3, <2>6
  <2> QED BY <2>2, <2>4, <2>5, <2>6
<1>3. Lowest(f) \in S
  BY <1>2 DEF Lowest
<1> QED BY <1>1, <1>3

LEMMA IdleIsRun == Idle \in Run /\ NoFull \in Full /\ NoValues \in [Projection -> SUBSET Contents]
BY DigestsAssumption DEF Idle, Run, Stage, Projection, LogSeq, Contents, NoValues, NoRow, Row, NoFull, Full

LEMMA StepOfRun ==
    ASSUME NEW l \in Run
    PROVE  [l EXCEPT !.k = 1] \in Run /\ (l.k \in 1 .. 3 => [l EXCEPT !.k = @ + 1] \in Run)
<1>1. [l EXCEPT !.k = 1] \in Run
  BY DEF Run
<1>2. ASSUME l.k \in 1 .. 3 PROVE [l EXCEPT !.k = @ + 1] \in Run
  <2>1. l.k + 1 \in 1 .. 4
    BY <1>2
  <2> QED BY <2>1 DEF Run
<1> QED BY <1>1, <1>2

\* A process moves and the others do not.
LEMMA GotoRun ==
    ASSUME run \in [Runner -> Run], NEW r \in Runner, NEW s \in Stage, NEW local \in Run,
           Goto(r, s, local)
    PROVE  /\ run' \in [Runner -> Run]
           /\ run'[r] = [local EXCEPT !.stage = s]
           /\ \A o \in Runner : o # r => run'[o] = run[o]
<1>1. [local EXCEPT !.stage = s] \in Run
  BY DEF Run
<1> QED BY <1>1 DEF Goto

-----------------------------------------------------------------------------
LEMMA TypeNext ==
    ASSUME TypeOK, \A r \in Runner : Position(r), [Next]_vars
    PROVE  TypeOK'
<1> USE DEF TypeOK
<1>1. ASSUME NEW r \in Runner, NEW p \in Projection, NEW n \in LogSeq, Begin(r, p, n) PROVE TypeOK'
  <2>1. calls + 1 \in Contents /\ calls' \in 0 .. MaxCalls
    BY <1>1, DigestsAssumption DEF Begin, Contents
  <2>2. [Idle EXCEPT !.projection = p, !.until = n, !.id = calls'] \in Run
    BY <1>1, <2>1, IdleIsRun DEF Run, Begin
  <2>3. run' \in [Runner -> Run]
    BY <1>1, <2>2, GotoRun DEF Begin, Stage
  <2> QED BY <1>1, <2>1, <2>3 DEF Begin, durable
<1>2. ASSUME NEW r \in Runner, AcquireProjectionLock(r) PROVE TypeOK'
  <2>1. run' \in [Runner -> Run]
    BY <1>2, GotoRun DEF AcquireProjectionLock, Stage
  <2> QED BY <1>2, <2>1 DEF AcquireProjectionLock, durable
<1>3. ASSUME NEW r \in Runner, ComputeDigest(r) PROVE TypeOK'
  <2> DEFINE p == Queries[run[r].k]
             local == [run[r] EXCEPT !.values[p] = @ \cup {VisibleTables(r, p)}]
  <2>0. run[r] \in Run /\ run[r].k \in 1 .. 4 /\ p \in Projection
    BY QueriesAre DEF Run
  <2>1. VisibleTables(r, p) \in Contents
    BY <2>0 DEF VisibleTables, Run
  <2>2. local \in Run /\ (run[r].k # 4 => [local EXCEPT !.k = @ + 1] \in Run)
          /\ [local EXCEPT !.k = 1] \in Run
    <3>1. local \in Run /\ local.k = run[r].k
      <4> DEFINE v == [run[r].values EXCEPT ![p] = @ \cup {VisibleTables(r, p)}]
      <4>1. local = [run[r] EXCEPT !.values = v]
        BY <2>0 DEF Run
      <4>2. v \in [Projection -> SUBSET Contents]
        BY <2>0, <2>1 DEF Run
      <4> HIDE DEF v, local
      <4> QED BY <2>0, <4>1, <4>2 DEF Run
    <3>2. run[r].k # 4 => run[r].k \in 1 .. 3
      BY <2>0
    <3> HIDE DEF local, p
    <3> QED BY <2>0, <3>1, <3>2, StepOfRun
  <2>3. run' \in [Runner -> Run]
    <3> HIDE DEF local
    <3>1. CASE run[r].k = 4
      BY <1>3, <2>2, <3>1, GotoRun, QueriesAre DEF ComputeDigest, Stage, local
    <3>2. CASE run[r].k # 4
      BY <1>3, <2>2, <3>2, GotoRun, QueriesAre DEF ComputeDigest, Stage, local
    <3> QED BY <3>1, <3>2
  <2> QED BY <1>3, <2>3 DEF ComputeDigest, durable
<1>4. ASSUME NEW r \in Runner, ReadCursor(r) PROVE TypeOK'
  <2>1. run[r] \in Run /\ NameOf(r, run[r].k) \in Projection
    BY <1>4, NamesAre DEF Position, ReadCursor, NameOf
  <2>2. VisibleCursor(r, NameOf(r, run[r].k)) \in LogSeq
    BY <2>1 DEF VisibleCursor, Run
  <2>3. [run[r] EXCEPT !.last = VisibleCursor(r, NameOf(r, run[r].k))] \in Run
    BY <2>1, <2>2 DEF Run
  <2>4. run' \in [Runner -> Run]
    BY <1>4, <2>3, GotoRun DEF ReadCursor, Stage
  <2> QED BY <1>4, <2>4 DEF ReadCursor, durable
<1>5. ASSUME NEW r \in Runner, UpsertDigest(r) PROVE TypeOK'
  <2> DEFINE p == NameOf(r, run[r].k)
             row == [value |-> run[r].values[p], last |-> run[r].last]
             local == [run[r] EXCEPT !.rows[p] = row, !.last = 0]
  <2>0. run[r] \in Run /\ run[r].k \in 1 .. 3 /\ p \in Projection
    BY <1>5, NamesAre DEF Position, UpsertDigest, NameOf
  <2>1. row \in Row
    BY <2>0 DEF Row, Run
  <2>2. 0 \in LogSeq
    BY DigestsAssumption DEF LogSeq
  <2>3. local \in Run
    <3> HIDE DEF row
    <3> QED BY <2>0, <2>1, <2>2 DEF Run
  <2>4. [local EXCEPT !.k = @ + 1] \in Run /\ [local EXCEPT !.k = 1] \in Run
    <3>1. local.k = run[r].k
      BY <2>0 DEF Run
    <3> HIDE DEF local
    <3> QED BY <2>0, <2>3, <3>1, StepOfRun
  <2>5. run' \in [Runner -> Run]
    <3>1. IF run[r].k = Len(Names) THEN Goto(r, "minimum", [local EXCEPT !.k = 1])
          ELSE Goto(r, "cursor", [local EXCEPT !.k = @ + 1])
      BY <1>5 DEF UpsertDigest
    <3> HIDE DEF local
    <3> QED BY <2>4, <3>1, GotoRun DEF Stage
  <2> QED BY <1>5, <2>5 DEF UpsertDigest, durable
<1>6. ASSUME NEW r \in Runner, ReadMinimum(r) PROVE TypeOK'
  <2> DEFINE p == Names[run[r].k]
             local == [run[r] EXCEPT !.cursors[p] = VisibleCursor(r, p)]
  <2>0. run[r] \in Run /\ run[r].k \in 1 .. 3 /\ p \in Projection
    BY <1>6, NamesAre DEF Position, ReadMinimum
  <2>1. VisibleCursor(r, p) \in LogSeq
    BY <2>0 DEF VisibleCursor, Run
  <2>2. [local EXCEPT !.k = @ + 1] \in Run /\ [local EXCEPT !.k = 1] \in Run
    <3>1. local \in Run /\ local.k = run[r].k
      BY <2>0, <2>1 DEF Run
    <3>2. run[r].k # 4 => run[r].k \in 1 .. 3
      BY <2>0
    <3> HIDE DEF local, p
    <3> QED BY <2>0, <3>1, <3>2, StepOfRun
  <2>3. run' \in [Runner -> Run]
    <3>1. IF run[r].k = Len(Names) THEN Goto(r, "full", [local EXCEPT !.k = 1])
          ELSE Goto(r, "minimum", [local EXCEPT !.k = @ + 1])
      BY <1>6 DEF ReadMinimum
    <3> HIDE DEF local
    <3> QED BY <2>2, <3>1, GotoRun DEF Stage
  <2> QED BY <1>6, <2>3 DEF ReadMinimum, durable
<1>7. ASSUME NEW r \in Runner, UpsertFull(r) PROVE TypeOK'
  <2> DEFINE new == [value |-> run[r].values, last |-> Lowest(run[r].cursors)]
  <2>0. run[r] \in Run
    OBVIOUS
  <2>1. Lowest(run[r].cursors) \in LogSeq
    BY <2>0, LowestIsOne DEF Run
  <2>2. new \in Full
    BY <2>0, <2>1 DEF Full, Run
  <2>3. [run[r] EXCEPT !.fullRow = new] \in Run
    <3> HIDE DEF new
    <3> QED BY <2>0, <2>2 DEF Run
  <2>4. run' \in [Runner -> Run]
    BY <1>7, <2>3, GotoRun DEF UpsertFull, Stage
  <2> QED BY <1>7, <2>4 DEF UpsertFull, durable
<1>8. ASSUME NEW r \in Runner, Commit(r) PROVE TypeOK'
  <2>1. run[r] \in Run
    OBVIOUS
  <2>2. run' \in [Runner -> Run]
    BY <1>8, IdleIsRun DEF Commit
  <2>3. cursor' \in [Projection -> LogSeq] /\ tables' \in [Projection -> Contents]
    BY <1>8, <2>1 DEF Commit, Run
  <2>4. digests' \in [Projection -> Row] /\ full' \in Full
    BY <1>8, <2>1 DEF Commit, Run
  <2> QED BY <1>8, <2>2, <2>3, <2>4 DEF Commit
<1>9. ASSUME NEW r \in Runner, Fail(r) PROVE TypeOK'
  <2>1. run' \in [Runner -> Run]
    BY <1>9, IdleIsRun DEF Fail
  <2>2. faults' \in 0 .. MaxFaults
    BY <1>9, DigestsAssumption DEF Fail
  <2> QED BY <1>9, <2>1, <2>2 DEF Fail, durable
<1>10. CASE UNCHANGED vars
  BY <1>10 DEF vars, durable
<1> QED BY <1>1, <1>2, <1>3, <1>4, <1>5, <1>6, <1>7, <1>8, <1>9, <1>10 DEF Next, Progress

-----------------------------------------------------------------------------
\* A process that does not move keeps its invariant while the cursors of the
\* other projections stay, and at any rate while it is not past the first row.
LEMMA OthersKeep ==
    ASSUME NEW o, run'[o] = run[o], cursor' = cursor \/ ~ PastFirst(o), RunInv(o)
    PROVE  RunInv(o)'
<1>1. Position(o)'
  BY DEF RunInv, Position
<1>2. OwnInv(o)'
  BY DEF RunInv, OwnInv, OwnRow, HasWritten, NameOf
<1>3. MinimumInv(o)'
  <2>1. CASE ~ PastFirst(o)
    BY <2>1 DEF PastFirst, MinimumInv
  <2>2. CASE cursor' = cursor
    BY <2>2 DEF RunInv, MinimumInv, CursorsOf, VisibleCursor
  <2> QED BY <2>1, <2>2
<1> QED BY <1>1, <1>2, <1>3 DEF RunInv

LEMMA IdleInv ==
    ASSUME NEW r, run'[r] = Idle
    PROVE  RunInv(r)' /\ ~ PastFirst(r)'
BY DEF RunInv, MinimumInv, Position, OwnInv, HasWritten, PastFirst, Idle

\* A step of r that writes nothing durable: what is left to show of it.
LEMMA PrivateStep ==
    ASSUME Inv, TypeOK', NEW r \in Runner, \A o \in Runner : o # r => run'[o] = run[o],
           UNCHANGED durable, RunInv(r)',
           PastFirst(r)' => PastFirst(r) \/ \A o \in Runner \ {r} : ~ PastFirst(o)
    PROVE  Inv'
<1>1. FullIsMinimum'
  BY DEF Inv, FullIsMinimum, durable
<1>2. \A o \in Runner : RunInv(o)'
  BY OthersKeep DEF Inv, durable
<1>3. OnePastFirst'
  <2>1. \A o \in Runner : o # r => PastFirst(o)' = PastFirst(o)
    BY DEF PastFirst
  <2> QED BY <2>1 DEF Inv, OnePastFirst
<1> QED BY <1>1, <1>2, <1>3 DEF Inv

LEMMA NamesCover == \A p \in Projection : \E j \in 1 .. 3 : Names[j] = p
<1> SUFFICES ASSUME NEW p \in Projection PROVE \E j \in 1 .. 3 : Names[j] = p
  OBVIOUS
<1>1. CASE p = "context_graph"
  <2> WITNESS 1 \in 1 .. 3
  <2> QED BY <1>1, NamesAre
<1>2. CASE p = "trace_summary"
  <2> WITNESS 2 \in 1 .. 3
  <2> QED BY <1>2, NamesAre
<1>3. CASE p = "precedent_index"
  <2> WITNESS 3 \in 1 .. 3
  <2> QED BY <1>3, NamesAre
<1> QED BY <1>1, <1>2, <1>3 DEF Projection

LEMMA BeginStep ==
    ASSUME Inv, TypeOK', NEW r \in Runner, NEW p \in Projection, NEW n \in LogSeq, Begin(r, p, n)
    PROVE  Inv'
<1>1. run'[r] = [Idle EXCEPT !.projection = p, !.until = n, !.id = calls', !.stage = "lock"]
        /\ \A o \in Runner : o # r => run'[o] = run[o]
  BY DEF Inv, TypeOK, Begin, Goto
<1>2. /\ run'[r].stage = "lock" /\ run'[r].k = 1 /\ run'[r].values = NoValues
  BY <1>1 DEF Idle
<1>3. RunInv(r)' /\ ~ PastFirst(r)'
  BY <1>2 DEF RunInv, MinimumInv, Position, OwnInv, HasWritten, PastFirst
<1>4. UNCHANGED durable
  BY DEF Begin
<1> QED BY <1>1, <1>3, <1>4, PrivateStep

LEMMA AcquireStep ==
    ASSUME Inv, TypeOK', NEW r \in Runner, AcquireProjectionLock(r)
    PROVE  Inv'
<1>1. run'[r] = [run[r] EXCEPT !.stage = "compute"] /\ \A o \in Runner : o # r => run'[o] = run[o]
  BY DEF Inv, TypeOK, AcquireProjectionLock, Goto
<1>2. run[r] \in Run /\ run[r].stage = "lock" /\ RunInv(r)
  BY DEF Inv, TypeOK, AcquireProjectionLock
<1>3. /\ run'[r].stage = "compute" /\ run'[r].k = 1 /\ run'[r].values = NoValues
      /\ run'[r].projection \in Projection
  BY <1>1, <1>2 DEF Run, RunInv, OwnInv
<1>4. RunInv(r)' /\ ~ PastFirst(r)'
  BY <1>3 DEF RunInv, MinimumInv, Position, OwnInv, HasWritten, PastFirst, NoValues
<1>5. UNCHANGED durable
  BY DEF AcquireProjectionLock
<1> QED BY <1>1, <1>4, <1>5, PrivateStep

LEMMA ComputeStep ==
    ASSUME Inv, TypeOK', NEW r \in Runner, ComputeDigest(r)
    PROVE  Inv'
<1> DEFINE p == Queries[run[r].k]
           own == run[r].projection
           seen == [run[r].values EXCEPT ![p] = @ \cup {VisibleTables(r, p)}]
           final == run[r].k = 4
<1>1. run[r] \in Run /\ run[r].stage = "compute" /\ RunInv(r) /\ run[r].k \in 1 .. 4
        /\ p \in Projection /\ own \in Projection
  BY QueriesAre DEF Inv, TypeOK, ComputeDigest, Run
<1>2. /\ run'[r] = IF final THEN [run[r] EXCEPT !.values = seen, !.k = 1, !.stage = "cursor"]
                    ELSE [run[r] EXCEPT !.values = seen, !.k = run[r].k + 1, !.stage = "compute"]
      /\ \A o \in Runner : o # r => run'[o] = run[o]
  BY <1>1, QueriesAre DEF Inv, TypeOK, ComputeDigest, Goto, Run
<1>3. seen[own] = IF p = own THEN run[r].values[own] \cup {run[r].id} ELSE run[r].values[own]
  BY <1>1 DEF Run, VisibleTables
<1>4. run[r].values[own] \subseteq {run[r].id}
  BY <1>1 DEF RunInv, OwnInv
<1>5. ASSUME NEW j \in 1 .. 4, j < run[r].k + 1, Queries[j] = own PROVE seen[own] = {run[r].id}
  <2>1. CASE j = run[r].k
    BY <1>3, <1>4, <1>5, <2>1
  <2>2. CASE j < run[r].k
    <3>1. run[r].id \in run[r].values[own]
      BY <1>1, <1>5, <2>2 DEF RunInv, OwnInv
    <3> QED BY <1>3, <1>4, <3>1
  <2> QED BY <1>1, <1>5, <2>1, <2>2
<1>6. seen[own] \subseteq {run[r].id}
  BY <1>3, <1>4
<1>7. CASE final
  <2>1. seen[own] = {run[r].id}
    <3>1. PICK j \in 1 .. 4 : Queries[j] = own
      BY <1>1, QueriesAre
    <3> HIDE DEF seen, own
    <3> QED BY <1>5, <1>7, <3>1
  <2>2. /\ run'[r].stage = "cursor" /\ run'[r].k = 1 /\ run'[r].values = seen
        /\ run'[r].id = run[r].id /\ run'[r].projection = own
    <3> HIDE DEF seen
    <3> QED BY <1>1, <1>2, <1>7 DEF Run
  <2>3. RunInv(r)' /\ ~ PastFirst(r)'
    <3> HIDE DEF seen, own
    <3> QED BY <2>1, <2>2 DEF RunInv, MinimumInv, Position, OwnInv, HasWritten, PastFirst
  <2> QED BY <1>2, <2>3, PrivateStep DEF ComputeDigest
<1>8. CASE ~ final
  <2>1. /\ run'[r].stage = "compute" /\ run'[r].k = run[r].k + 1 /\ run'[r].values = seen
        /\ run'[r].id = run[r].id /\ run'[r].projection = own
    <3> HIDE DEF seen
    <3> QED BY <1>1, <1>2, <1>8 DEF Run
  <2>2. RunInv(r)' /\ ~ PastFirst(r)'
    <3> HIDE DEF seen, own
    <3> QED BY <1>5, <1>6, <2>1 DEF RunInv, MinimumInv, Position, OwnInv, HasWritten, PastFirst
  <2> QED BY <1>2, <2>2, PrivateStep DEF ComputeDigest
<1> QED BY <1>7, <1>8

LEMMA ReadCursorStep ==
    ASSUME Inv, TypeOK', NEW r \in Runner, ReadCursor(r)
    PROVE  Inv'
<1> DEFINE n == VisibleCursor(r, Names[run[r].k])
<1>1. run[r] \in Run /\ run[r].stage = "cursor" /\ RunInv(r)
  BY DEF Inv, TypeOK, ReadCursor
<1>2. run'[r] = [run[r] EXCEPT !.last = n, !.stage = "upsert"]
        /\ \A o \in Runner : o # r => run'[o] = run[o]
  BY DEF Inv, TypeOK, ReadCursor, Goto, NameOf
<1>3. /\ run'[r].stage = "upsert" /\ run'[r].last = n /\ run'[r].k = run[r].k
      /\ run'[r].values = run[r].values /\ run'[r].rows = run[r].rows
      /\ run'[r].id = run[r].id /\ run'[r].until = run[r].until
      /\ run'[r].projection = run[r].projection
  <2> HIDE DEF n
  <2> QED BY <1>1, <1>2 DEF Run
<1>4. Names[run[r].k] = run[r].projection => n = run[r].until
  BY DEF VisibleCursor
<1>5. RunInv(r)'
  <2> HIDE DEF n
  <2> QED BY <1>1, <1>3, <1>4
          DEF RunInv, MinimumInv, Position, OwnInv, OwnRow, HasWritten, NameOf
<1>6. PastFirst(r)' => PastFirst(r)
  BY <1>1, <1>3 DEF PastFirst
<1> QED BY <1>2, <1>5, <1>6, PrivateStep DEF ReadCursor

LEMMA UpsertStep ==
    ASSUME Inv, TypeOK', NEW r \in Runner, UpsertDigest(r)
    PROVE  Inv'
<1> DEFINE p == Names[run[r].k]
           own == run[r].projection
           new == [run[r].rows EXCEPT ![p] = [value |-> run[r].values[p], last |-> run[r].last]]
           final == run[r].k = 3
<1>1. run[r] \in Run /\ run[r].stage = "upsert" /\ RunInv(r) /\ run[r].k \in 1 .. 3
        /\ p \in Projection /\ own \in Projection
  BY NamesAre DEF Inv, TypeOK, UpsertDigest, RunInv, Position, Run
<1>2. /\ run'[r] = IF final THEN [run[r] EXCEPT !.rows = new, !.last = 0, !.k = 1, !.stage = "minimum"]
                    ELSE [run[r] EXCEPT !.rows = new, !.last = 0, !.k = run[r].k + 1, !.stage = "cursor"]
      /\ \A o \in Runner : o # r => run'[o] = run[o]
      /\ \A o \in Runner \ {r} : ~ HasWritten(o, p)
  BY <1>1, NamesAre DEF Inv, TypeOK, UpsertDigest, Goto, Run, NameOf
<1>3. run[r].values[own] = {run[r].id}
  BY <1>1 DEF RunInv, OwnInv
<1>4. \A j \in 1 .. 3 : j < run[r].k + 1 /\ Names[j] = own => new[own] = OwnRow(r)
  <2> SUFFICES ASSUME NEW j \in 1 .. 3, j < run[r].k + 1, Names[j] = own
               PROVE  new[own] = OwnRow(r)
    OBVIOUS
  <2>1. CASE p = own
    <3>1. run[r].last = run[r].until
      BY <1>1, <2>1 DEF RunInv, OwnInv
    <3>2. new[own] = [value |-> run[r].values[own], last |-> run[r].last]
      BY <1>1, <2>1 DEF Run
    <3> QED BY <1>3, <3>1, <3>2 DEF OwnRow
  <2>2. CASE p # own
    <3>1. j < run[r].k
      BY <1>1, <2>2
    <3>2. HasWritten(r, own)
      BY <1>1, <3>1 DEF HasWritten, NameOf
    <3>3. run[r].rows[own] = OwnRow(r)
      BY <1>1, <3>2 DEF RunInv, OwnInv
    <3> QED BY <1>1, <2>2, <3>3 DEF Run
  <2> QED BY <2>1, <2>2
<1>5. PastFirst(r) \/ \A o \in Runner \ {r} : ~ PastFirst(o)
  <2>1. CASE run[r].k = 1
    <3>1. p = Names[1]
      BY <2>1
    <3> SUFFICES ASSUME NEW o \in Runner \ {r}, PastFirst(o) PROVE FALSE
      OBVIOUS
    <3>2. ~ HasWritten(o, Names[1])
      BY <1>2, <3>1
    <3> QED BY <3>2 DEF PastFirst, HasWritten, NameOf
  <2>2. CASE run[r].k # 1
    BY <1>1, <2>2 DEF PastFirst
  <2> QED BY <2>1, <2>2
<1>6. run'[r].rows = new /\ run'[r].values = run[r].values /\ run'[r].id = run[r].id
        /\ run'[r].until = run[r].until /\ run'[r].projection = own
        /\ IF final THEN run'[r].stage = "minimum" /\ run'[r].k = 1
           ELSE run'[r].stage = "cursor" /\ run'[r].k = run[r].k + 1
  <2> HIDE DEF new
  <2> QED BY <1>1, <1>2 DEF Run
<1>7. RunInv(r)'
  <2>2. MinimumInv(r)' /\ Position(r)'
    <3> HIDE DEF new, own
    <3> QED BY <1>1, <1>6 DEF MinimumInv, Position
  <2>3. final \/ (\E j \in 1 .. 3 : j < run[r].k + 1 /\ Names[j] = own) => new[own] = OwnRow(r)
    <3>1. PICK j \in 1 .. 3 : Names[j] = own
      BY <1>1, NamesCover
    <3>2. CASE final
      <4> HIDE DEF new, own
      <4> QED BY <1>4, <3>1, <3>2
    <3> HIDE DEF new, own
    <3> QED BY <1>4, <3>2
  <2>4. OwnInv(r)'
    <3> HIDE DEF new, p
    <3> QED BY <1>1, <1>3, <1>6, <2>3 DEF OwnInv, OwnRow, HasWritten, NameOf
  <2> QED BY <2>2, <2>4 DEF RunInv
<1> QED BY <1>2, <1>5, <1>7, PrivateStep DEF UpsertDigest

LEMMA MinimumStep ==
    ASSUME Inv, TypeOK', NEW r \in Runner, ReadMinimum(r)
    PROVE  Inv'
<1> DEFINE p == Names[run[r].k]
           new == [run[r].cursors EXCEPT ![p] = VisibleCursor(r, p)]
           final == run[r].k = 3
<1>1. run[r] \in Run /\ run[r].stage = "minimum" /\ RunInv(r) /\ run[r].k \in 1 .. 3
        /\ p \in Projection
  BY NamesAre DEF Inv, TypeOK, ReadMinimum, RunInv, Position
<1>2. /\ run'[r] = IF final THEN [run[r] EXCEPT !.cursors = new, !.k = 1, !.stage = "full"]
                    ELSE [run[r] EXCEPT !.cursors = new, !.k = run[r].k + 1, !.stage = "minimum"]
      /\ \A o \in Runner : o # r => run'[o] = run[o]
  BY <1>1, NamesAre DEF Inv, TypeOK, ReadMinimum, Goto, Run
<1>3. run'[r].cursors = new /\ run'[r].rows = run[r].rows /\ run'[r].values = run[r].values
        /\ run'[r].id = run[r].id /\ run'[r].until = run[r].until
        /\ run'[r].projection = run[r].projection
        /\ IF final THEN run'[r].stage = "full" /\ run'[r].k = 1
           ELSE run'[r].stage = "minimum" /\ run'[r].k = run[r].k + 1
  <2> HIDE DEF new
  <2> QED BY <1>1, <1>2 DEF Run
<1>4. UNCHANGED durable
  BY DEF ReadMinimum
<1>6. \A j \in 1 .. 3 : j < run[r].k + 1 => new[Names[j]] = VisibleCursor(r, Names[j])
  <2> SUFFICES ASSUME NEW j \in 1 .. 3, j < run[r].k + 1
               PROVE  new[Names[j]] = VisibleCursor(r, Names[j])
    OBVIOUS
  <2>1. Names[j] \in Projection
    BY NamesAre
  <2>2. CASE Names[j] = p
    BY <1>1, <2>2 DEF Run
  <2>3. CASE Names[j] # p
    <3>1. j < run[r].k
      BY <1>1, <2>3
    <3>2. run[r].cursors[Names[j]] = VisibleCursor(r, Names[j])
      BY <1>1, <3>1 DEF RunInv, MinimumInv
    <3> QED BY <1>1, <2>1, <2>3, <3>2 DEF Run
  <2> QED BY <2>2, <2>3
<1>7. final => new = CursorsOf(r)
  <2> SUFFICES ASSUME final PROVE new = CursorsOf(r)
    OBVIOUS
  <2>1. \A q \in Projection : new[q] = VisibleCursor(r, q)
    <3> SUFFICES ASSUME NEW q \in Projection PROVE new[q] = VisibleCursor(r, q)
      OBVIOUS
    <3>1. PICK j \in 1 .. 3 : Names[j] = q
      BY NamesCover
    <3>2. j < run[r].k + 1
      OBVIOUS
    <3> QED BY <1>6, <3>1, <3>2
  <2>2. new = [q \in Projection |-> new[q]]
    BY <1>1 DEF Run
  <2> HIDE DEF new
  <2> QED BY <2>1, <2>2 DEF CursorsOf
<1>8. MinimumInv(r)' /\ Position(r)'
  <2>1. CursorsOf(r)' = CursorsOf(r)
    BY <1>3, <1>4 DEF CursorsOf, VisibleCursor, durable
  <2>2. ASSUME NEW j \in 1 .. 3 PROVE VisibleCursor(r, Names[j])' = VisibleCursor(r, Names[j])
    BY <1>3, <1>4 DEF VisibleCursor, durable
  <2> HIDE DEF new
  <2> QED BY <1>1, <1>3, <1>6, <1>7, <2>1, <2>2 DEF MinimumInv, Position
<1>9. OwnInv(r)'
  <2> HIDE DEF new
  <2> QED BY <1>1, <1>3 DEF RunInv, OwnInv, HasWritten, OwnRow
<1>10. PastFirst(r)
  BY <1>1 DEF PastFirst
<1> QED BY <1>2, <1>4, <1>8, <1>9, <1>10, PrivateStep DEF RunInv

LEMMA FullStep ==
    ASSUME Inv, TypeOK', NEW r \in Runner, UpsertFull(r)
    PROVE  Inv'
<1> DEFINE new == [value |-> run[r].values, last |-> Lowest(run[r].cursors)]
<1>1. run[r] \in Run /\ run[r].stage = "full" /\ RunInv(r)
  BY DEF Inv, TypeOK, UpsertFull
<1>2. run'[r] = [run[r] EXCEPT !.fullRow = new, !.stage = "commit"]
        /\ \A o \in Runner : o # r => run'[o] = run[o]
  BY DEF Inv, TypeOK, UpsertFull, Goto
<1>3. run'[r].stage = "commit" /\ run'[r].fullRow = new /\ run'[r].rows = run[r].rows
        /\ run'[r].values = run[r].values /\ run'[r].id = run[r].id
        /\ run'[r].until = run[r].until /\ run'[r].projection = run[r].projection
  <2> HIDE DEF new
  <2> QED BY <1>1, <1>2 DEF Run
<1>4. UNCHANGED durable
  BY DEF UpsertFull
<1>5. MinimumInv(r)' /\ Position(r)'
  <2>1. CursorsOf(r)' = CursorsOf(r)
    BY <1>3, <1>4 DEF CursorsOf, VisibleCursor, durable
  <2>2. run'[r].fullRow.last = Lowest(run[r].cursors)
    BY <1>3
  <2>3. run[r].cursors = CursorsOf(r)
    BY <1>1 DEF RunInv, MinimumInv
  <2> HIDE DEF new
  <2>4. run'[r].fullRow.last = Lowest(CursorsOf(r)')
    BY <2>1, <2>2, <2>3
  <2>5. Lowest(CursorsOf(r)') = Lowest(CursorsOf(r))'
    BY DEF Lowest
  <2> QED BY <1>3, <2>4, <2>5 DEF MinimumInv, Position
<1>6. OwnInv(r)'
  BY <1>1, <1>3 DEF RunInv, OwnInv, HasWritten, OwnRow
<1>7. PastFirst(r)
  BY <1>1 DEF PastFirst
<1> QED BY <1>2, <1>4, <1>5, <1>6, <1>7, PrivateStep DEF RunInv

LEMMA FailStep ==
    ASSUME Inv, TypeOK', NEW r \in Runner, Fail(r)
    PROVE  Inv'
<1>1. run'[r] = Idle /\ \A o \in Runner : o # r => run'[o] = run[o]
  BY DEF Inv, TypeOK, Fail
<1>2. RunInv(r)' /\ ~ PastFirst(r)'
  BY <1>1, IdleInv
<1> QED BY <1>1, <1>2, PrivateStep DEF Fail

\* Nobody else is past the first row, so the cursors are those that r has read
\* and the one it has written.
LEMMA CommitStep ==
    ASSUME Inv, TypeOK', NEW r \in Runner, Commit(r)
    PROVE  Inv'
<1>1. run[r] \in Run /\ run[r].stage = "commit" /\ RunInv(r) /\ PastFirst(r)
  BY DEF Inv, TypeOK, Commit, PastFirst
<1>2. run'[r] = Idle /\ \A o \in Runner : o # r => run'[o] = run[o] /\ ~ PastFirst(o)
  BY <1>1 DEF Inv, TypeOK, Commit, OnePastFirst
<1>3. cursor' = CursorsOf(r)
  <2>1. cursor \in [Projection -> LogSeq] /\ cursor' = [cursor EXCEPT ![run[r].projection] = run[r].until]
    BY DEF Inv, TypeOK, Commit
  <2> QED BY <2>1 DEF CursorsOf, VisibleCursor
<1>4. FullIsMinimum'
  <2>1. full'.last = Lowest(CursorsOf(r))
    BY <1>1 DEF Commit, RunInv, MinimumInv
  <2> QED BY <1>3, <2>1 DEF FullIsMinimum, Lowest
<1>5. ASSUME NEW o \in Runner PROVE RunInv(o)' /\ ~ PastFirst(o)'
  <2>1. CASE o = r
    BY <1>2, <2>1, IdleInv
  <2>2. CASE o # r
    <3>1. run'[o] = run[o] /\ ~ PastFirst(o) /\ RunInv(o)
      BY <1>2, <2>2 DEF Inv
    <3>2. RunInv(o)'
      BY <3>1, OthersKeep
    <3>3. ~ PastFirst(o)'
      BY <3>1 DEF PastFirst
    <3> QED BY <3>2, <3>3
  <2> QED BY <2>1, <2>2
<1>6. OnePastFirst'
  BY <1>5 DEF OnePastFirst
<1> QED BY <1>4, <1>5, <1>6 DEF Inv

-----------------------------------------------------------------------------
LEMMA InitInv == Init => Inv
<1> SUFFICES ASSUME Init PROVE Inv
  OBVIOUS
<1>1. 0 \in LogSeq /\ 0 \in Contents /\ 0 \in 0 .. MaxCalls /\ 0 \in 0 .. MaxFaults
  BY DigestsAssumption DEF LogSeq, Contents
<1>2. TypeOK
  BY <1>1, IdleIsRun DEF Init, TypeOK, Row, NoRow
<1>3. FullIsMinimum
  <2>1. {cursor[p] : p \in Projection} = {0}
    BY DEF Init, Projection
  <2>2. \A p \in Projection : 0 <= cursor[p]
    BY DEF Init
  <2>3. Lowest(cursor) = 0
    BY <2>1, <2>2 DEF Lowest
  <2> QED BY <2>3 DEF Init, FullIsMinimum, NoFull
<1>4. ASSUME NEW r \in Runner PROVE RunInv(r) /\ ~ PastFirst(r)
  BY DEF Init, RunInv, MinimumInv, Position, OwnInv, HasWritten, PastFirst, Idle
<1> QED BY <1>2, <1>3, <1>4 DEF Inv, OnePastFirst

LEMMA NextInv == Inv /\ [Next]_vars => Inv'
<1> SUFFICES ASSUME Inv, [Next]_vars PROVE Inv'
  OBVIOUS
<1>1. TypeOK'
  BY TypeNext DEF Inv, RunInv
<1>2. ASSUME NEW r \in Runner, NEW p \in Projection, NEW n \in LogSeq, Begin(r, p, n) PROVE Inv'
  BY <1>1, <1>2, BeginStep
<1>3. ASSUME NEW r \in Runner, Progress(r) PROVE Inv'
  BY <1>1, <1>3, AcquireStep, ComputeStep, ReadCursorStep, UpsertStep, MinimumStep, FullStep,
     CommitStep DEF Progress
<1>4. ASSUME NEW r \in Runner, Fail(r) PROVE Inv'
  BY <1>1, <1>4, FailStep
<1>5. CASE UNCHANGED vars
  <2>1. FullIsMinimum' /\ OnePastFirst'
    BY <1>5 DEF Inv, FullIsMinimum, OnePastFirst, PastFirst, vars, durable
  <2>2. \A r \in Runner : RunInv(r)'
    BY <1>5, OthersKeep DEF Inv, vars, durable
  <2> QED BY <1>1, <2>1, <2>2 DEF Inv
<1> QED BY <1>2, <1>3, <1>4, <1>5 DEF Next

LEMMA Invariance == Spec => []Inv
BY InitInv, NextInv, PTL DEF Spec

(* The variables keep their types. *)
THEOREM TypeCorrect == Spec => []TypeOK
<1>1. Inv => TypeOK
  BY DEF Inv
<1> QED BY <1>1, Invariance, PTL

(***************************************************************************)
(* The full row has the minimum durable cursor after every batch and every *)
(* clear, however many run (refresh_projection_digests!).                  *)
(***************************************************************************)
THEOREM FullHasMinimum == Spec => []FullIsMinimum
<1>1. Inv => FullIsMinimum
  BY DEF Inv
<1> QED BY <1>1, Invariance, PTL

(***************************************************************************)
(* A commit leaves the digest of its own projection, and its part of the   *)
(* full digest, as its tables and its cursor are (project_batch,           *)
(* clear_projection).                                                      *)
(***************************************************************************)
THEOREM CommitIsFresh == Spec => OwnDigestIsFresh
<1> DEFINE Fresh == \A p \in Projection : tables'[p] # tables[p] =>
                       /\ digests'[p] = [value |-> {tables'[p]}, last |-> cursor'[p]]
                       /\ full'.value[p] = {tables'[p]}
<1>1. Inv /\ [Next]_vars => [Fresh]_vars
  <2> SUFFICES ASSUME Inv, [Next]_vars, tables' # tables PROVE Fresh
    BY DEF vars, durable
  <2>0. ASSUME NEW r \in Runner PROVE Progress(r) \/ Fail(r) => Commit(r) \/ tables' = tables
    <3>1. AcquireProjectionLock(r) \/ ReadCursor(r) \/ UpsertFull(r) \/ Fail(r) => tables' = tables
      BY DEF AcquireProjectionLock, ReadCursor, UpsertFull, Fail, durable
    <3>2. ComputeDigest(r) \/ UpsertDigest(r) \/ ReadMinimum(r) => tables' = tables
      BY DEF ComputeDigest, UpsertDigest, ReadMinimum, durable
    <3> QED BY <3>1, <3>2 DEF Progress
  <2>1. PICK r \in Runner : Commit(r)
    BY <2>0 DEF Next, Begin, vars, durable
  <2> DEFINE own == run[r].projection
  <2>2. /\ run[r] \in Run /\ own \in Projection /\ RunInv(r) /\ run[r].stage = "commit"
        /\ tables \in [Projection -> Contents] /\ cursor \in [Projection -> LogSeq]
    BY <2>1 DEF Inv, TypeOK, Commit, Run
  <2>3. \A p \in Projection : tables'[p] # tables[p] => p = own
    BY <2>1, <2>2 DEF Commit
  <2>4. tables'[own] = run[r].id /\ cursor'[own] = run[r].until
    BY <2>1, <2>2 DEF Commit
  <2>5. run[r].rows[own] = OwnRow(r) /\ run[r].values[own] = {run[r].id}
          /\ run[r].fullRow.value = run[r].values
    BY <2>2 DEF RunInv, OwnInv, HasWritten
  <2>6. digests'[own] = [value |-> {tables'[own]}, last |-> cursor'[own]]
          /\ full'.value[own] = {tables'[own]}
    BY <2>1, <2>4, <2>5 DEF Commit, OwnRow
  <2> HIDE DEF own
  <2> QED BY <2>3, <2>6
<1> QED BY <1>1, Invariance, PTL DEF Spec, OwnDigestIsFresh
=============================================================================
