------------------------ MODULE ProjectionWorkerProofs ------------------------
(***************************************************************************)
(* No wakeup is lost, for any number of clients, projections, events,      *)
(* retries, restarts, deaths and failures of the database.                 *)
(*                                                                         *)
(* The invariant follows an event from the cast on: it is projected, or    *)
(* the worker is gone, or a message waits, or the sync that runs, or the   *)
(* last one, which failed, began after the event (Followed). A client that *)
(* has told some projections of its event has done so for these (Told).    *)
(***************************************************************************)
EXTENDS ProjectionWorker, TLAPS

\* A cursor and a worker that do not forget the event n.
Keeps(n, cur, w) ==
    \/ cur >= n
    \/ w.at \in {"absent", "restarting"}
    \/ w.casts > 0
    \/ w.syncs > 0
    \/ w.at \in {"syncing", "recording"} /\ w.began >= n
    \/ w.at = "waiting" /\ w.status = "failed" /\ w.synced >= n

Followed(n, p) == Keeps(n, cursor[p], worker[p])

\* Names[i] has been told of the event of the call.
Told(call, i) ==
    \/ call.at \in {"ensure", "cast"} /\ i < call.next
    \/ call.at = "answer" /\ call.triggered

CallOK(call, now) == call.log_seq <= now /\ (call.triggered => call.at = "answer")

Inv ==
    /\ TypeOK
    /\ \A n \in answered : n <= log
    /\ \A c \in Client : CallOK(client[c], log)
    /\ \A n \in answered, p \in Projection : Followed(n, p)
    /\ \A c \in Client, i \in 1 .. Len(Names) :
          Told(client[c], i) => Followed(client[c].log_seq, Names[i])

-----------------------------------------------------------------------------
LEMMA AbsentIsWorker == Absent \in Worker
BY WorkerAssumption DEF Absent, Worker, LogSeq

LEMMA BootedIsWorker == Booted \in Worker /\ Booted.syncs = 1 /\ Rebooted = Booted
BY AbsentIsWorker DEF Booted, Rebooted, Worker

LEMMA NoCallIsCall == NoCall \in Call
BY WorkerAssumption DEF NoCall, Call, LogSeq

LEMMA NextNameFields ==
    ASSUME NEW call \in Call
    PROVE  /\ NextName(call) \in Call
           /\ NextName(call).log_seq = call.log_seq
           /\ NextName(call).at \in {"ensure", "answer"}
           /\ NextName(call).at = "ensure" => NextName(call).next = call.next + 1
           /\ NextName(call).at = "answer" => call.next = Len(Names)
<1>1. call.next + 1 \in Nat
  BY DEF Call
<1>2. [call EXCEPT !.at = "ensure"] \in Call
  BY DEF Call
<1>3. [call EXCEPT !.at = "ensure", !.next = call.next + 1] \in Call
  BY <1>1, <1>2 DEF Call
<1>4. [call EXCEPT !.at = "answer", !.triggered = TRUE] \in Call
  BY DEF Call
<1>5. [call EXCEPT !.at = "ensure", !.next = @ + 1] = [call EXCEPT !.at = "ensure", !.next = call.next + 1]
  BY DEF Call
<1>6. NextName(call) \in Call
  BY <1>3, <1>4, <1>5 DEF NextName
<1>7. CASE call.next = Len(Names)
  BY <1>6, <1>7 DEF NextName, Call
<1>8. CASE call.next # Len(Names)
  <2>1. NextName(call) = [call EXCEPT !.at = "ensure", !.next = call.next + 1]
    BY <1>5, <1>8 DEF NextName
  <2> QED BY <1>6, <2>1 DEF Call
<1> QED BY <1>7, <1>8

LEMMA Named == ASSUME NEW i \in 1 .. Len(Names) PROVE Names[i] \in Projection
BY DEF Projection

\* A worker with another value in a field.
LEMMA Fields ==
    ASSUME NEW w \in Worker
    PROVE  /\ \A x \in {"absent", "restarting", "waiting", "syncing", "recording"} :
                 [w EXCEPT !.at = x] \in Worker
           /\ \A x \in {"idle", "retrying", "failed"} : [w EXCEPT !.status = x] \in Worker
           /\ \A x \in Nat : /\ [w EXCEPT !.retry_count = x] \in Worker
                             /\ [w EXCEPT !.casts = x] \in Worker
                             /\ [w EXCEPT !.syncs = x] \in Worker
           /\ \A x \in LogSeq : /\ [w EXCEPT !.began = x] \in Worker
                                /\ [w EXCEPT !.synced = x] \in Worker
                                /\ [w EXCEPT !.since = x] \in Worker
BY DEF Worker

LEMMA ZeroIsLogSeq == 0 \in LogSeq
BY WorkerAssumption DEF LogSeq

\* What the steps of a worker make of it.
LEMMA CastFields ==
    ASSUME NEW w \in Worker
    PROVE  Delivered(w) \in Worker /\ Delivered(w).casts > 0
BY DEF Delivered, Worker

LEMMA HandledFields ==
    ASSUME NEW w \in Worker, w.casts > 0
    PROVE  Forwarded(w) \in Worker /\ Forwarded(w).syncs > 0
<1>1. w.casts - 1 \in Nat /\ w.syncs + 1 \in Nat /\ w.syncs + 1 > 0
  BY DEF Worker
<1>2. [w EXCEPT !.casts = w.casts - 1] \in Worker
  BY <1>1, Fields
<1>3. [w EXCEPT !.casts = w.casts - 1, !.syncs = w.syncs + 1] \in Worker
  BY <1>1, <1>2, Fields
<1>4. Forwarded(w) = [w EXCEPT !.casts = w.casts - 1, !.syncs = w.syncs + 1]
  BY DEF Forwarded, Worker
<1>5. [w EXCEPT !.casts = w.casts - 1, !.syncs = w.syncs + 1].syncs = w.syncs + 1
  BY DEF Worker
<1> QED BY <1>1, <1>3, <1>4, <1>5

LEMMA StartedFields ==
    ASSUME NEW w \in Worker, w.syncs > 0, NEW n \in LogSeq
    PROVE  /\ Started(w, n) \in Worker
           /\ Started(w, n).at = "syncing" /\ Started(w, n).began = n
<1>1. w.syncs - 1 \in Nat
  BY DEF Worker
<1>2. [w EXCEPT !.at = "syncing"] \in Worker
  BY Fields
<1>3. [w EXCEPT !.at = "syncing", !.syncs = w.syncs - 1] \in Worker
  BY <1>1, <1>2, Fields
<1>4. [w EXCEPT !.at = "syncing", !.syncs = w.syncs - 1, !.began = n] \in Worker
  BY <1>3, Fields
<1>5. Started(w, n) = [w EXCEPT !.at = "syncing", !.syncs = w.syncs - 1, !.began = n]
  BY DEF Started, Worker
<1>6. Started(w, n).at = "syncing" /\ Started(w, n).began = n
  BY DEF Started, Worker
<1> QED BY <1>4, <1>5, <1>6

LEMMA FinishFields ==
    ASSUME NEW w \in Worker, NEW s \in {"idle", "retrying", "failed"}
    PROVE  /\ Finish(w, s) \in Worker
           /\ Finish(w, s).at = "waiting" /\ Finish(w, s).status = s
           /\ Finish(w, s).synced = w.began
           /\ Finish(w, s).casts = w.casts /\ Finish(w, s).syncs = w.syncs
<1>1. w.began \in LogSeq
  BY DEF Worker
<1>2. [w EXCEPT !.at = "waiting"] \in Worker
  BY Fields
<1>3. [w EXCEPT !.at = "waiting", !.status = s] \in Worker
  BY <1>2, Fields
<1>4. [w EXCEPT !.at = "waiting", !.status = s, !.synced = w.began] \in Worker
  BY <1>1, <1>3, Fields
<1>5. [w EXCEPT !.at = "waiting", !.status = s, !.synced = w.began, !.began = 0] \in Worker
  BY <1>4, ZeroIsLogSeq, Fields
<1>6. Finish(w, s) \in Worker
  BY <1>5, ZeroIsLogSeq, Fields DEF Finish
<1>7. /\ Finish(w, s).at = "waiting" /\ Finish(w, s).status = s
      /\ Finish(w, s).synced = w.began
      /\ Finish(w, s).casts = w.casts /\ Finish(w, s).syncs = w.syncs
  BY DEF Finish, Worker
<1> QED BY <1>6, <1>7

LEMMA SucceedFields ==
    ASSUME NEW w \in Worker PROVE Succeed(w) \in Worker /\ Succeed(w).syncs > 0
<1> DEFINE v == Finish(w, "idle")
<1>1. v \in Worker
  BY FinishFields
<1> HIDE DEF v
<1>2. v.syncs + 1 \in Nat /\ v.syncs + 1 > 0
  BY <1>1 DEF Worker
<1>3. [v EXCEPT !.retry_count = 0] \in Worker
  BY <1>1, Fields
<1>4. [v EXCEPT !.retry_count = 0, !.syncs = v.syncs + 1] \in Worker
  BY <1>2, <1>3, Fields
<1>5. /\ [v EXCEPT !.retry_count = 0, !.syncs = @ + 1]
             = [v EXCEPT !.retry_count = 0, !.syncs = v.syncs + 1]
      /\ [v EXCEPT !.retry_count = 0, !.syncs = v.syncs + 1].syncs = v.syncs + 1
  BY <1>1 DEF Worker
<1> QED BY <1>2, <1>4, <1>5 DEF Succeed, v

LEMMA RetryFields ==
    ASSUME NEW w \in Worker PROVE Retry(w) \in Worker /\ Retry(w).syncs > 0
<1> DEFINE v == Finish(w, "retrying")
<1>1. v \in Worker
  BY FinishFields
<1> HIDE DEF v
<1>2. v.retry_count + 1 \in Nat /\ v.syncs + 1 \in Nat /\ v.syncs + 1 > 0
  BY <1>1 DEF Worker
<1>3. [v EXCEPT !.retry_count = v.retry_count + 1] \in Worker
  BY <1>1, <1>2, Fields
<1>4. [v EXCEPT !.retry_count = v.retry_count + 1, !.syncs = v.syncs + 1] \in Worker
  BY <1>2, <1>3, Fields
<1>5. /\ [v EXCEPT !.retry_count = @ + 1, !.syncs = @ + 1]
             = [v EXCEPT !.retry_count = v.retry_count + 1, !.syncs = v.syncs + 1]
      /\ [v EXCEPT !.retry_count = v.retry_count + 1, !.syncs = v.syncs + 1].syncs = v.syncs + 1
  BY <1>1 DEF Worker
<1> QED BY <1>2, <1>4, <1>5 DEF Retry, v

LEMMA TerminalFields ==
    ASSUME NEW w \in Worker, NEW n \in LogSeq
    PROVE  /\ Terminal(w, n) \in Worker
           /\ Terminal(w, n).at = "recording" /\ Terminal(w, n).began = w.began
           /\ Terminal(w, n).casts = w.casts /\ Terminal(w, n).syncs = w.syncs
<1>1. w.retry_count + 1 \in Nat
  BY DEF Worker
<1>2. [w EXCEPT !.at = "recording"] \in Worker
  BY Fields
<1>3. [w EXCEPT !.at = "recording", !.retry_count = w.retry_count + 1] \in Worker
  BY <1>1, <1>2, Fields
<1>4. [w EXCEPT !.at = "recording", !.retry_count = w.retry_count + 1, !.since = n] \in Worker
  BY <1>3, Fields
<1>5. Terminal(w, n) = [w EXCEPT !.at = "recording", !.retry_count = w.retry_count + 1, !.since = n]
  BY DEF Terminal, Worker
<1>6. /\ Terminal(w, n).at = "recording" /\ Terminal(w, n).began = w.began
      /\ Terminal(w, n).casts = w.casts /\ Terminal(w, n).syncs = w.syncs
  BY DEF Terminal, Worker
<1> QED BY <1>4, <1>5, <1>6

LEMMA Replaced ==
    ASSUME NEW f \in [Projection -> Worker], NEW p, NEW w, p \in Projection => w \in Worker
    PROVE  [f EXCEPT ![p] = w] \in [Projection -> Worker]
OBVIOUS

-----------------------------------------------------------------------------
LEMMA TypeInit == Init => TypeOK
BY WorkerAssumption, AbsentIsWorker, NoCallIsCall DEF Init, TypeOK, LogSeq

LEMMA TypeNext == TypeOK /\ [Next]_vars => TypeOK'
<1> SUFFICES ASSUME TypeOK, [Next]_vars PROVE TypeOK'
  OBVIOUS
<1> USE DEF TypeOK
<1>1. ASSUME NEW c \in Client, AppendEvent(c) PROVE TypeOK'
  <2>1. log' \in LogSeq
    BY <1>1, WorkerAssumption DEF AppendEvent, LogSeq
  <2>2. [NoCall EXCEPT !.at = "ensure", !.log_seq = log'] \in Call
    BY <2>1, NoCallIsCall DEF Call
  <2>3. client' \in [Client -> Call]
    BY <1>1, <2>2 DEF AppendEvent
  <2> QED BY <1>1, <2>1, <2>3 DEF AppendEvent, bounds
<1>2. CASE AppendElsewhere
  BY <1>2, WorkerAssumption DEF AppendElsewhere, LogSeq, bounds
<1>3. ASSUME NEW c \in Client, EnsureWorker(c) PROVE TypeOK'
  <2>1. worker' \in [Projection -> Worker]
    <3> DEFINE p == Names[client[c].next]
               w == IF Alive(p) THEN worker[p] ELSE Booted
    <3>1. worker' = [worker EXCEPT ![p] = w]
      BY <1>3 DEF EnsureWorker
    <3>2. p \in Projection => w \in Worker
      BY BootedIsWorker
    <3> QED BY <3>1, <3>2, Replaced
  <2>2. client' \in [Client -> Call]
    BY <1>3 DEF EnsureWorker, Call
  <2> QED BY <1>3, <2>1, <2>2 DEF EnsureWorker, bounds, database
<1>4. ASSUME NEW c \in Client, EnsureFails(c) PROVE TypeOK'
  <2>1. client' \in [Client -> Call]
    BY <1>4 DEF EnsureFails, Call
  <2> QED BY <1>4, <2>1 DEF EnsureFails, database
<1>5. ASSUME NEW c \in Client, CastSync(c) PROVE TypeOK'
  <2>1. worker' \in [Projection -> Worker]
    <3> DEFINE p == Names[client[c].next]
               w == IF Alive(p) THEN Delivered(worker[p]) ELSE worker[p]
    <3>1. worker' = [worker EXCEPT ![p] = w]
      BY <1>5 DEF CastSync
    <3>2. p \in Projection => w \in Worker
      BY CastFields
    <3> QED BY <3>1, <3>2, Replaced
  <2>2. client' \in [Client -> Call]
    <3>1. client[c] \in Call
      OBVIOUS
    <3> QED BY <1>5, <3>1, NextNameFields DEF CastSync
  <2> QED BY <1>5, <2>1, <2>2 DEF CastSync, bounds, database
<1>6. ASSUME NEW c \in Client, Answer(c) PROVE TypeOK'
  BY <1>6, NoCallIsCall DEF Answer, bounds, database, Call
<1>7. ASSUME NEW c \in Client, ClientDies(c) PROVE TypeOK'
  BY <1>7, NoCallIsCall DEF ClientDies, bounds, database
<1>8. ASSUME NEW p \in Projection, HandleCast(p) PROVE TypeOK'
  <2>1. worker' \in [Projection -> Worker]
    BY <1>8, HandledFields DEF HandleCast
  <2> QED BY <1>8, <2>1 DEF HandleCast, bounds, database
<1>9. ASSUME NEW p \in Projection, StartSync(p) PROVE TypeOK'
  <2>1. worker' \in [Projection -> Worker]
    BY <1>9, StartedFields DEF StartSync
  <2> QED BY <1>9, <2>1 DEF StartSync, bounds, database
<1>10. ASSUME NEW p \in Projection, NEW n \in LogSeq, ProjectBatch(p, n) PROVE TypeOK'
  BY <1>10 DEF ProjectBatch, bounds
<1>11. ASSUME NEW p \in Projection, SyncSucceeds(p) PROVE TypeOK'
  <2>1. worker' \in [Projection -> Worker]
    BY <1>11, SucceedFields DEF SyncSucceeds
  <2> QED BY <1>11, <2>1 DEF SyncSucceeds, bounds, database
<1>12. ASSUME NEW p \in Projection, SyncFails(p) PROVE TypeOK'
  <2>1. worker' \in [Projection -> Worker]
    <3>1. PICK n \in FailsAfter(p) : worker' = [worker EXCEPT ![p] =
             IF @.retry_count < MaxRetries THEN Retry(@) ELSE Terminal(@, n)]
      BY <1>12 DEF SyncFails
    <3>2. Retry(worker[p]) \in Worker
      BY RetryFields
    <3>3. Terminal(worker[p], n) \in Worker
      BY TerminalFields, ZeroIsLogSeq DEF FailsAfter
    <3> QED BY <3>1, <3>2, <3>3
  <2> QED BY <1>12, <2>1 DEF SyncFails, database
<1>13. ASSUME NEW p \in Projection, NEW n \in LogSeq, SyncRejects(p, n) PROVE TypeOK'
  <2>1. n - 1 \in LogSeq
    BY <1>13, WorkerAssumption DEF SyncRejects, LogSeq
  <2>2. worker' \in [Projection -> Worker]
    BY <1>13, <2>1, TerminalFields DEF SyncRejects
  <2> QED BY <1>13, <2>2 DEF SyncRejects, bounds, database
<1>14. ASSUME NEW p \in Projection, RecordFailure(p) PROVE TypeOK'
  <2>1. worker' \in [Projection -> Worker]
    BY <1>14, FinishFields DEF RecordFailure
  <2>2. ({worker[p].since + 1} \cap 1 .. log) \subseteq LogSeq
    BY WorkerAssumption DEF LogSeq
  <2>3. failures' \in [Projection -> SUBSET LogSeq]
    BY <1>14, <2>2 DEF RecordFailure
  <2> QED BY <1>14, <2>1, <2>3 DEF RecordFailure, bounds
<1>15. ASSUME NEW p \in Projection, FailedEventUnknown(p) PROVE TypeOK'
  <2>1. worker' \in [Projection -> Worker]
    BY <1>15, FinishFields DEF FailedEventUnknown
  <2> QED BY <1>15, <2>1 DEF FailedEventUnknown, database
<1>16. ASSUME NEW p \in Projection, ChildDied(p)
       PROVE  worker' \in [Projection -> Worker] /\ restarts' \in Nat
  <2>1. [Absent EXCEPT !.at = "restarting"] \in Worker
    BY AbsentIsWorker, Fields
  <2> QED BY <1>16, <2>1, AbsentIsWorker DEF ChildDied
<1>17. ASSUME NEW p \in Projection, WorkerDies(p) \/ RecordFails(p) PROVE TypeOK'
  BY <1>16, <1>17 DEF WorkerDies, RecordFails, database
<1>18. ASSUME NEW p \in Projection, RestartWorker(p) PROVE TypeOK'
  BY <1>18, BootedIsWorker DEF RestartWorker, bounds, database
<1>19. CASE WindowPasses
  BY <1>19 DEF WindowPasses, bounds, database
<1>20. CASE UNCHANGED vars
  BY <1>20 DEF vars
<1> QED BY <1>1, <1>2, <1>3, <1>4, <1>5, <1>6, <1>7, <1>8, <1>9, <1>10, <1>11, <1>12, <1>13, <1>14,
           <1>15, <1>17, <1>18, <1>19, <1>20 DEF Next, Proceed, Sync

\* Every variable has its type, in every behaviour.
THEOREM TypeCorrect == Spec => []TypeOK
BY TypeInit, TypeNext, PTL DEF Spec

-----------------------------------------------------------------------------
LEMMA InvInit == Init => Inv
<1> SUFFICES ASSUME Init PROVE Inv
  OBVIOUS
<1>1. TypeOK
  BY TypeInit
<1>2. \A c \in Client : CallOK(client[c], log) /\ \A i \in 1 .. Len(Names) : ~ Told(client[c], i)
  <2>1. Len(Names) \in Nat
    BY WorkerAssumption
  <2>2. ASSUME NEW c \in Client
        PROVE  CallOK(client[c], log) /\ client[c].next = 1 /\ client[c].at = "idle"
    BY DEF Init, NoCall, CallOK
  <2> QED BY <2>1, <2>2 DEF Told
<1> QED BY <1>1, <1>2 DEF Init, Inv

\* What a step has to keep.
LEMMA Carried ==
    ASSUME Inv, TypeOK', log <= log',
           \A n \in LogSeq, q \in Projection :
               n <= log /\ Followed(n, q) => Keeps(n, cursor'[q], worker'[q]),
           \A n \in answered' : \/ n \in answered
                                \/ n <= log /\ \A q \in Projection : Followed(n, q),
           \A c \in Client :
               \/ client'[c] = client[c]
               \/ /\ CallOK(client'[c], log')
                  /\ \A i \in 1 .. Len(Names) : Told(client'[c], i)
                        => Keeps(client'[c].log_seq, cursor'[Names[i]], worker'[Names[i]])
    PROVE  Inv'
<1> USE DEF Inv
<1>1. log \in Nat /\ log' \in Nat /\ answered \subseteq Nat /\ answered' \subseteq LogSeq
  BY WorkerAssumption DEF TypeOK, LogSeq
<1>2. \A n \in answered' : n <= log'
  <2> SUFFICES ASSUME NEW n \in answered' PROVE n <= log'
    OBVIOUS
  <2>1. n \in Nat /\ n <= log
    BY <1>1 DEF LogSeq
  <2> QED BY <1>1, <2>1
<1>3. \A n \in answered', p \in Projection : Keeps(n, cursor'[p], worker'[p])
  <2> SUFFICES ASSUME NEW n \in answered', NEW p \in Projection
               PROVE  Keeps(n, cursor'[p], worker'[p])
    OBVIOUS
  <2>1. n \in LogSeq /\ n <= log /\ Followed(n, p)
    BY <1>1
  <2> QED BY <2>1
<1>4. ASSUME NEW c \in Client
      PROVE  /\ CallOK(client'[c], log')
             /\ \A i \in 1 .. Len(Names) : Told(client'[c], i)
                   => Keeps(client'[c].log_seq, cursor'[Names[i]], worker'[Names[i]])
  <2>1. client[c].log_seq \in LogSeq /\ client[c].log_seq \in Nat /\ CallOK(client[c], log)
    BY WorkerAssumption DEF TypeOK, Call, LogSeq
  <2>2. CASE client'[c] = client[c]
    <3>1. CallOK(client'[c], log')
      BY <1>1, <2>1, <2>2 DEF CallOK
    <3>2. ASSUME NEW i \in 1 .. Len(Names), Told(client'[c], i)
          PROVE  Keeps(client'[c].log_seq, cursor'[Names[i]], worker'[Names[i]])
      BY <2>1, <2>2, <3>2, Named DEF CallOK
    <3> QED BY <3>1, <3>2
  <2> QED BY <2>2
<1> QED BY <1>2, <1>3, <1>4 DEF Followed

\* A step of one worker.
LEMMA OneWorker ==
    ASSUME TypeOK, NEW p, NEW w, worker' = [worker EXCEPT ![p] = w], cursor' = cursor,
           \A n \in LogSeq : p \in Projection /\ n <= log /\ Followed(n, p) => Keeps(n, cursor[p], w)
    PROVE  \A n \in LogSeq, q \in Projection :
               n <= log /\ Followed(n, q) => Keeps(n, cursor'[q], worker'[q])
<1> SUFFICES ASSUME NEW n \in LogSeq, NEW q \in Projection, n <= log, Followed(n, q)
             PROVE  Keeps(n, cursor'[q], worker'[q])
  OBVIOUS
<1>1. CASE q = p
  BY <1>1 DEF TypeOK
<1>2. CASE q # p
  BY <1>2 DEF TypeOK, Followed
<1> QED BY <1>1, <1>2

LEMMA InvNext == Inv /\ [Next]_vars => Inv'
<1> SUFFICES ASSUME Inv, [Next]_vars PROVE Inv'
  OBVIOUS
<1>1. TypeOK /\ TypeOK'
  BY TypeNext DEF Inv
<1>2. log \in Nat /\ (\A q \in Projection : cursor[q] \in Nat /\ worker[q] \in Worker) /\ Len(Names) \in Nat
  BY <1>1, WorkerAssumption DEF TypeOK, LogSeq
<1>3. \A c \in Client :
         client[c] \in Call /\ client[c].log_seq <= log /\ (client[c].triggered => client[c].at = "answer")
  BY <1>1 DEF Inv, TypeOK, CallOK
<1> DEFINE Kept == \A n \in LogSeq, q \in Projection :
                       n <= log /\ Followed(n, q) => Keeps(n, cursor'[q], worker'[q])
           SameCalls == client' = client /\ answered' = answered
<1>4. ASSUME Kept, log <= log', answered' = answered,
             NEW c \in Client, NEW call, client' = [client EXCEPT ![c] = call],
             call.log_seq <= log', call.triggered => call.at = "answer",
             \A i \in 1 .. Len(Names) :
                 Told(call, i) => Keeps(call.log_seq, cursor'[Names[i]], worker'[Names[i]])
      PROVE  Inv'
  <2>1. \A d \in Client : client'[d] = IF d = c THEN call ELSE client[d]
    BY <1>1, <1>4 DEF TypeOK
  <2> QED BY <1>1, <1>4, <2>1, Carried DEF CallOK
<1>5. ASSUME Kept, log <= log', SameCalls PROVE Inv'
  BY <1>1, <1>5, Carried
<1>6. ASSUME cursor' = cursor, worker' = worker PROVE Kept
  BY <1>6 DEF Followed
<1> HIDE DEF Kept, SameCalls
<1>7. ASSUME NEW c \in Client, AppendEvent(c) PROVE Inv'
  <2> DEFINE call == [NoCall EXCEPT !.at = "ensure", !.log_seq = log']
  <2>1. call.log_seq = log' /\ call.at = "ensure" /\ call.next = 1 /\ ~ call.triggered
    BY DEF NoCall
  <2>2. \A i \in 1 .. Len(Names) : ~ Told(call, i)
    BY <1>2, <2>1 DEF Told
  <2>3. client' = [client EXCEPT ![c] = call] /\ answered' = answered
        /\ log' = log + 1 /\ cursor' = cursor /\ worker' = worker
    BY <1>7 DEF AppendEvent
  <2> HIDE DEF call
  <2>4. log <= log' /\ call.log_seq <= log'
    BY <1>2, <2>1, <2>3
  <2> QED BY <1>4, <1>6, <2>1, <2>2, <2>3, <2>4
<1>8. CASE AppendElsewhere
  <2>1. log <= log' /\ cursor' = cursor /\ worker' = worker /\ SameCalls
    BY <1>2, <1>8 DEF AppendElsewhere, SameCalls
  <2> QED BY <1>5, <1>6, <2>1
<1>9. ASSUME NEW c \in Client, EnsureWorker(c) PROVE Inv'
  <2> DEFINE p == Names[client[c].next]
             w == IF Alive(p) THEN worker[p] ELSE Booted
             call == [client[c] EXCEPT !.at = "cast"]
  <2>1. /\ worker' = [worker EXCEPT ![p] = w] /\ client' = [client EXCEPT ![c] = call]
        /\ cursor' = cursor /\ log' = log /\ answered' = answered
    BY <1>9 DEF EnsureWorker, database
  <2>2. ASSUME NEW n \in LogSeq, p \in Projection, Followed(n, p) PROVE Keeps(n, cursor[p], w)
    BY <2>2, BootedIsWorker DEF Followed, Keeps
  <2>3. /\ call.log_seq = client[c].log_seq /\ client[c].at = "ensure" /\ call.at = "cast"
        /\ call.next = client[c].next /\ call.triggered = client[c].triggered
    BY <1>3, <1>9 DEF EnsureWorker, Call
  <2> HIDE DEF p, w, call
  <2>4. Kept
    BY <1>1, <2>1, <2>2, OneWorker DEF Kept
  <2>5. ASSUME NEW i \in 1 .. Len(Names), Told(call, i)
        PROVE  Keeps(call.log_seq, cursor'[Names[i]], worker'[Names[i]])
    <3>1. Told(client[c], i)
      BY <2>3, <2>5 DEF Told
    <3>2. Followed(client[c].log_seq, Names[i]) /\ client[c].log_seq \in LogSeq
      BY <1>3, <3>1 DEF Inv, Call
    <3> QED BY <1>3, <2>3, <2>4, <3>2, Named DEF Kept
  <2>6. log <= log' /\ call.log_seq <= log' /\ (call.triggered => call.at = "answer")
    BY <1>2, <1>3, <2>1, <2>3
  <2> QED BY <1>4, <2>1, <2>4, <2>5, <2>6
<1>10. ASSUME NEW c \in Client, EnsureFails(c) PROVE Inv'
  <2> DEFINE call == [client[c] EXCEPT !.at = "answer"]
  <2>1. /\ client' = [client EXCEPT ![c] = call] /\ worker' = worker
        /\ cursor' = cursor /\ log' = log /\ answered' = answered
    BY <1>10 DEF EnsureFails, database
  <2>2. call.log_seq = client[c].log_seq /\ call.at = "answer" /\ ~ call.triggered
    BY <1>3, <1>10 DEF EnsureFails, Call
  <2> HIDE DEF call
  <2>3. \A i \in 1 .. Len(Names) : ~ Told(call, i)
    BY <2>2 DEF Told
  <2>4. log <= log' /\ call.log_seq <= log' /\ (call.triggered => call.at = "answer") /\ Kept
    BY <1>2, <1>3, <1>6, <2>1, <2>2
  <2> QED BY <1>4, <2>1, <2>3, <2>4
<1>11. ASSUME NEW c \in Client, CastSync(c) PROVE Inv'
  <2> DEFINE p == Names[client[c].next]
             w == IF Alive(p) THEN Delivered(worker[p]) ELSE worker[p]
             call == NextName(client[c])
  <2>1. /\ worker' = [worker EXCEPT ![p] = w] /\ client' = [client EXCEPT ![c] = call]
        /\ cursor' = cursor /\ log' = log /\ answered' = answered
    BY <1>11 DEF CastSync, database
  <2>2. ASSUME p \in Projection, NEW n \in LogSeq PROVE Keeps(n, cursor[p], w)
    BY <1>2, <2>2, CastFields DEF Alive, Keeps
  <2>3. /\ call.log_seq = client[c].log_seq /\ client[c].at = "cast"
        /\ call.at \in {"ensure", "answer"}
        /\ call.at = "ensure" => call.next = client[c].next + 1
        /\ call.at = "answer" => client[c].next = Len(Names)
    BY <1>3, <1>11, NextNameFields DEF CastSync
  <2>4. call.triggered => call.at = "answer"
    <3>1. ~ client[c].triggered /\ client[c] \in Call
      BY <1>3, <2>3
    <3>2. CASE client[c].next = Len(Names)
      BY <3>1, <3>2 DEF NextName, Call
    <3>3. CASE client[c].next # Len(Names)
      BY <3>1, <3>3 DEF NextName, Call
    <3> QED BY <3>2, <3>3
  <2> HIDE DEF w, call
  <2>5. Kept
    <3> HIDE DEF p
    <3> QED BY <1>1, <2>1, <2>2, OneWorker DEF Kept
  <2>6. ASSUME NEW i \in 1 .. Len(Names), Told(call, i)
        PROVE  Keeps(call.log_seq, cursor'[Names[i]], worker'[Names[i]])
    <3>1. i < client[c].next \/ i = client[c].next
      BY <1>2, <1>3, <2>3, <2>6 DEF Told, Call
    <3>2. CASE i < client[c].next
      <4>1. Told(client[c], i)
        BY <2>3, <3>2 DEF Told
      <4>2. Followed(client[c].log_seq, Names[i]) /\ client[c].log_seq \in LogSeq
        BY <1>3, <4>1 DEF Inv, Call
      <4> QED BY <1>3, <2>3, <2>5, <4>2, Named DEF Kept
    <3>3. CASE i = client[c].next
      <4>1. p \in Projection /\ Names[i] = p /\ client[c].log_seq \in LogSeq
        BY <1>3, <3>3, Named DEF Call
      <4>2. worker'[p] = w /\ cursor'[p] = cursor[p]
        BY <1>1, <2>1, <4>1 DEF TypeOK
      <4> QED BY <2>2, <2>3, <4>1, <4>2
    <3> QED BY <3>1, <3>2, <3>3
  <2>7. log <= log' /\ call.log_seq <= log'
    BY <1>2, <1>3, <2>1, <2>3
  <2> QED BY <1>4, <2>1, <2>4, <2>5, <2>6, <2>7
<1>12. ASSUME NEW c \in Client, Answer(c) PROVE Inv'
  <2>1. /\ cursor' = cursor /\ worker' = worker /\ log' = log
        /\ client' = [client EXCEPT ![c] = NoCall] /\ client[c].at = "answer"
        /\ answered' = IF client[c].triggered THEN answered \cup {client[c].log_seq} ELSE answered
    BY <1>12 DEF Answer, database
  <2>2. \A d \in Client : client'[d] = IF d = c THEN NoCall ELSE client[d]
    BY <1>1, <2>1 DEF TypeOK
  <2>3. CallOK(NoCall, log') /\ \A i \in 1 .. Len(Names) : ~ Told(NoCall, i)
    BY <1>2, <2>1 DEF CallOK, NoCall, Told
  <2>4. ASSUME NEW n \in answered'
        PROVE  n \in answered \/ (n <= log /\ \A q \in Projection : Followed(n, q))
    <3>1. CASE n \in answered
      BY <3>1
    <3>2. CASE client[c].triggered /\ n = client[c].log_seq
      <4>1. ASSUME NEW q \in Projection PROVE Followed(n, q)
        <5>1. PICK i \in 1 .. Len(Names) : q = Names[i]
          BY DEF Projection
        <5>2. Told(client[c], i)
          BY <2>1, <3>2 DEF Told
        <5> QED BY <3>2, <5>1, <5>2 DEF Inv
      <4> QED BY <1>3, <3>2, <4>1
    <3> QED BY <2>1, <3>1, <3>2
  <2>5. log <= log' /\ Kept
    BY <1>2, <1>6, <2>1
  <2> QED BY <1>1, <2>2, <2>3, <2>4, <2>5, Carried DEF Kept
<1>13. ASSUME NEW c \in Client, ClientDies(c) PROVE Inv'
  <2>1. /\ cursor' = cursor /\ worker' = worker /\ log' = log /\ answered' = answered
        /\ client' = [client EXCEPT ![c] = NoCall]
    BY <1>13 DEF ClientDies, database
  <2>2. \A i \in 1 .. Len(Names) : ~ Told(NoCall, i)
    BY DEF NoCall, Told
  <2>3. NoCall.log_seq = 0 /\ ~ NoCall.triggered
    BY DEF NoCall
  <2>4. log <= log' /\ NoCall.log_seq <= log' /\ Kept
    BY <1>2, <1>6, <2>1, <2>3
  <2> QED BY <1>4, <2>1, <2>2, <2>3, <2>4
\* The steps of a worker.
<1>14. ASSUME NEW p \in Projection, NEW w, SameCalls, log' = log, cursor' = cursor,
              worker' = [worker EXCEPT ![p] = w],
              \A n \in LogSeq : n <= log /\ Followed(n, p) => Keeps(n, cursor[p], w)
       PROVE  Inv'
  <2>1. Kept
    BY <1>1, <1>14, OneWorker DEF Kept
  <2> QED BY <1>2, <1>5, <1>14, <2>1
<1>15. ASSUME NEW p \in Projection, HandleCast(p) PROVE Inv'
  <2>1. Forwarded(worker[p]).syncs > 0
    BY <1>2, <1>15, HandledFields DEF HandleCast
  <2>2. \A n \in LogSeq : Keeps(n, cursor[p], Forwarded(worker[p]))
    BY <2>1 DEF Keeps
  <2>3. /\ worker' = [worker EXCEPT ![p] = Forwarded(worker[p])]
        /\ SameCalls /\ log' = log /\ cursor' = cursor
    BY <1>15 DEF HandleCast, database, SameCalls
  <2> QED BY <1>14, <2>2, <2>3
<1>16. ASSUME NEW p \in Projection, StartSync(p) PROVE Inv'
  <2>1. Started(worker[p], log).at = "syncing" /\ Started(worker[p], log).began = log
    BY <1>1, <1>2, <1>16, StartedFields DEF StartSync, TypeOK
  <2>2. \A n \in LogSeq : n <= log => Keeps(n, cursor[p], Started(worker[p], log))
    BY <1>2, <2>1, WorkerAssumption DEF Keeps, LogSeq
  <2>3. /\ worker' = [worker EXCEPT ![p] = Started(worker[p], log)]
        /\ SameCalls /\ log' = log /\ cursor' = cursor
    BY <1>16 DEF StartSync, database, SameCalls
  <2> QED BY <1>14, <2>2, <2>3
<1>17. ASSUME NEW p \in Projection, NEW m \in LogSeq, ProjectBatch(p, m) PROVE Inv'
  <2>1. /\ cursor' = [cursor EXCEPT ![p] = m] /\ m \in cursor[p] + 1 .. log
        /\ worker' = worker /\ log' = log /\ SameCalls
    BY <1>17 DEF ProjectBatch, SameCalls
  <2>2. ASSUME NEW n \in LogSeq, NEW q \in Projection, Followed(n, q)
        PROVE  Keeps(n, cursor'[q], worker'[q])
    <3>1. CASE q = p
      <4>1. cursor'[q] = m /\ m > cursor[q] /\ m \in Nat /\ n \in Nat
        BY <1>1, <1>2, <2>1, <3>1, WorkerAssumption DEF TypeOK, LogSeq
      <4>2. cursor[q] >= n => cursor'[q] >= n
        BY <1>2, <4>1
      <4> QED BY <2>1, <2>2, <4>2 DEF Followed, Keeps
    <3>2. CASE q # p
      BY <1>1, <2>1, <2>2, <3>2 DEF Followed, TypeOK
    <3> QED BY <3>1, <3>2
  <2> QED BY <1>2, <1>5, <2>1, <2>2 DEF Kept
<1>18. ASSUME NEW p \in Projection, SyncSucceeds(p) PROVE Inv'
  <2>1. \A n \in LogSeq : Keeps(n, cursor[p], Succeed(worker[p]))
    BY <1>2, SucceedFields DEF Keeps
  <2>2. /\ worker' = [worker EXCEPT ![p] = Succeed(worker[p])]
        /\ SameCalls /\ log' = log /\ cursor' = cursor
    BY <1>18 DEF SyncSucceeds, database, SameCalls
  <2> QED BY <1>14, <2>1, <2>2
<1>19. ASSUME NEW p \in Projection, worker[p].at = "syncing", NEW n \in LogSeq, NEW m \in LogSeq,
              Followed(n, p)
       PROVE  Keeps(n, cursor[p], Terminal(worker[p], m))
  <2>1. /\ Terminal(worker[p], m).at = "recording" /\ Terminal(worker[p], m).began = worker[p].began
        /\ Terminal(worker[p], m).casts = worker[p].casts /\ Terminal(worker[p], m).syncs = worker[p].syncs
    BY <1>2, <1>19, TerminalFields
  <2> QED BY <1>19, <2>1 DEF Followed, Keeps
<1>20. ASSUME NEW p \in Projection, SyncFails(p) PROVE Inv'
  <2>1. PICK m \in FailsAfter(p) : worker' = [worker EXCEPT ![p] =
           IF @.retry_count < MaxRetries THEN Retry(@) ELSE Terminal(@, m)]
    BY <1>20 DEF SyncFails
  <2> DEFINE w == IF worker[p].retry_count < MaxRetries THEN Retry(worker[p]) ELSE Terminal(worker[p], m)
  <2>2. m \in LogSeq
    BY <1>1, ZeroIsLogSeq DEF FailsAfter, TypeOK
  <2>3. \A n \in LogSeq : Keeps(n, cursor[p], Retry(worker[p]))
    BY <1>2, RetryFields DEF Keeps
  <2>4. worker[p].at = "syncing" /\ SameCalls /\ log' = log /\ cursor' = cursor
    BY <1>20 DEF SyncFails, database, SameCalls
  <2>5. \A n \in LogSeq : Followed(n, p) => Keeps(n, cursor[p], w)
    BY <1>19, <2>2, <2>3, <2>4
  <2>6. worker' = [worker EXCEPT ![p] = w]
    BY <2>1
  <2> HIDE DEF w
  <2> QED BY <1>14, <2>4, <2>5, <2>6
<1>21. ASSUME NEW p \in Projection, NEW m \in LogSeq, SyncRejects(p, m) PROVE Inv'
  <2>1. m - 1 \in LogSeq
    BY <1>1, <1>21, WorkerAssumption DEF SyncRejects, TypeOK, LogSeq
  <2>2. /\ worker' = [worker EXCEPT ![p] = Terminal(worker[p], m - 1)] /\ worker[p].at = "syncing"
        /\ SameCalls /\ log' = log /\ cursor' = cursor
    BY <1>21 DEF SyncRejects, database, SameCalls
  <2>3. \A n \in LogSeq : Followed(n, p) => Keeps(n, cursor[p], Terminal(worker[p], m - 1))
    BY <1>19, <2>1, <2>2
  <2> QED BY <1>14, <2>2, <2>3
<1>22. ASSUME NEW p \in Projection, worker[p].at = "recording", NEW n \in LogSeq, Followed(n, p)
       PROVE  Keeps(n, cursor[p], Finish(worker[p], "failed"))
  <2> DEFINE w == Finish(worker[p], "failed")
  <2>1. /\ w.at = "waiting" /\ w.status = "failed" /\ w.synced = worker[p].began
        /\ w.casts = worker[p].casts /\ w.syncs = worker[p].syncs
    BY <1>2, FinishFields
  <2> HIDE DEF w
  <2>2. Keeps(n, cursor[p], w)
    BY <1>22, <2>1 DEF Followed, Keeps
  <2> QED BY <2>2 DEF w
<1>23. ASSUME NEW p \in Projection, RecordFailure(p) \/ FailedEventUnknown(p) PROVE Inv'
  <2>1. /\ worker' = [worker EXCEPT ![p] = Finish(worker[p], "failed")] /\ worker[p].at = "recording"
        /\ SameCalls /\ log' = log /\ cursor' = cursor
    BY <1>23 DEF RecordFailure, FailedEventUnknown, database, SameCalls
  <2> QED BY <1>14, <1>22, <2>1
<1>24. ASSUME NEW p \in Projection, WorkerDies(p) \/ RecordFails(p) PROVE Inv'
  <2>1. ChildDied(p) /\ SameCalls /\ log' = log /\ cursor' = cursor
    BY <1>24 DEF WorkerDies, RecordFails, database, SameCalls
  <2>2. CASE worker' = [q \in Projection |-> Absent]
    <3>1. \A n \in LogSeq, q \in Projection : Keeps(n, cursor'[q], worker'[q])
      BY <2>2 DEF Absent, Keeps
    <3> QED BY <1>2, <1>5, <2>1, <3>1 DEF Kept
  <2>3. CASE worker' = [worker EXCEPT ![p] = [Absent EXCEPT !.at = "restarting"]]
    <3>1. [Absent EXCEPT !.at = "restarting"].at = "restarting"
      BY DEF Absent
    <3>2. \A n \in LogSeq : Keeps(n, cursor[p], [Absent EXCEPT !.at = "restarting"])
      BY <3>1 DEF Keeps
    <3> QED BY <1>14, <2>1, <2>3, <3>2
  <2> QED BY <2>1, <2>2, <2>3 DEF ChildDied
<1>25. ASSUME NEW p \in Projection, RestartWorker(p) PROVE Inv'
  <2>1. \A n \in LogSeq : Keeps(n, cursor[p], Rebooted)
    BY BootedIsWorker DEF Keeps
  <2>2. worker' = [worker EXCEPT ![p] = Rebooted] /\ SameCalls /\ log' = log /\ cursor' = cursor
    BY <1>25 DEF RestartWorker, database, SameCalls
  <2> QED BY <1>14, <2>1, <2>2
<1>26. CASE WindowPasses \/ UNCHANGED vars
  <2>1. log <= log' /\ cursor' = cursor /\ worker' = worker /\ SameCalls
    BY <1>2, <1>26 DEF WindowPasses, vars, database, SameCalls
  <2> QED BY <1>5, <1>6, <2>1
<1> QED BY <1>7, <1>8, <1>9, <1>10, <1>11, <1>12, <1>13, <1>15, <1>16, <1>17, <1>18, <1>20, <1>21,
           <1>23, <1>24, <1>25, <1>26 DEF Next, Proceed, Sync

LEMMA Invariance == Spec => []Inv
BY InvInit, InvNext, PTL DEF Spec

LEMMA InvImplies == Inv => NoWakeupIsLost
<1> SUFFICES ASSUME Inv, NEW n \in answered, NEW p \in Projection
             PROVE  cursor[p] >= n \/ GaveUp(p, n) \/ Pending(p) \/ worker[p].at = "absent"
  BY DEF NoWakeupIsLost
<1>1. Keeps(n, cursor[p], worker[p])
  BY DEF Inv, Followed
<1>2. worker[p].casts \in Nat /\ worker[p].syncs \in Nat /\ worker[p] \in Worker
  BY DEF Inv, TypeOK, Worker
<1>3. worker[p].casts > 0 \/ worker[p].syncs > 0 => worker[p].casts + worker[p].syncs > 0
  BY <1>2
<1> QED BY <1>1, <1>3 DEF Keeps, GaveUp, Pending, Alive

\* An event acknowledged with projection_sync_triggered is projected, or its
\* worker gave up with the event before it, or syncs again, or the supervisor
\* has died since (Api.Events, ProjectionWorker).
THEOREM NoWakeupLost == Spec => []NoWakeupIsLost
BY Invariance, InvImplies, PTL
=============================================================================
