--------------------------- MODULE ProjectionWorker ---------------------------
(***************************************************************************)
(* The workers of a tenant, one per projection, and the API call that      *)
(* appends an event, starts them and tells them to sync: mailboxes,        *)
(* timers, retries, the supervisor, and what is lost when processes die.   *)
(*                                                                         *)
(* What a catch-up does to the tables and how it meets other runs of its   *)
(* scope is the matter of Projection; here a batch moves the cursor. The   *)
(* log is its last log_seq, and stands for the time as well.               *)
(***************************************************************************)
EXTENDS Naturals, Sequences

CONSTANTS
    Client,          \* the processes that call append_event
    Names,           \* Runtime.projection_names, in their order
    MaxRetries,      \* :projection_max_retries
    MaxRestarts,     \* restarts that the supervisor allows in a window
    MaxLogSeq,       \* bound on the log
    MaxCrashes,      \* bound on deaths of processes
    MaxFaults        \* bound on failures of the database

Projection == {Names[i] : i \in 1 .. Len(Names)}

ASSUME WorkerAssumption ==
    /\ Names \in Seq(STRING)
    /\ MaxRetries \in Nat /\ MaxRestarts \in Nat
    /\ MaxLogSeq \in Nat /\ MaxCrashes \in Nat /\ MaxFaults \in Nat

VARIABLES
    log,       \* the last log_seq
    bad,       \* the events that no projection accepts
    cursor,    \* dg_projection_cursors
    failures,  \* open rows of dg_projection_failures, by log_seq
    worker,    \* the process of each projection
    restarts,  \* restarts in the window of the supervisor
    client,    \* the call of each client
    answered,  \* events acknowledged with projection_sync_triggered
    crashes,   \* deaths so far
    faults     \* failures so far

vars == <<log, bad, cursor, failures, worker, restarts, client, answered, crashes, faults>>

LogSeq == 0 .. MaxLogSeq

\* at: "absent" without a process, "restarting" while the supervisor has still
\* to start it again, "waiting" for a message, "syncing" in perform_sync, and
\* "recording" in record_terminal_failure. casts: messages of clients; syncs:
\* those it has sent itself, also with send_after, which arrive some time;
\* began: the time at which its sync began; synced: last_sync_at; since: where
\* the search for the failed event begins.
Worker == [at : {"absent", "restarting", "waiting", "syncing", "recording"},
           status : {"idle", "retrying", "failed"},
           retry_count : Nat, began : LogSeq, synced : LogSeq, since : LogSeq,
           casts : Nat, syncs : Nat]

Absent == [at |-> "absent", status |-> "idle", retry_count |-> 0, began |-> 0, synced |-> 0,
           since |-> 0, casts |-> 0, syncs |-> 0]

\* What init leaves: the boot message in the mailbox.
Booted == [Absent EXCEPT !.at = "waiting", !.syncs = 1]

Alive(p) == worker[p].at \notin {"absent", "restarting"}

\* at: "ensure" or "cast" for Names[next], or "answer".
Call == [at : {"idle", "ensure", "cast", "answer"}, log_seq : LogSeq, next : Nat,
         triggered : BOOLEAN]
NoCall == [at |-> "idle", log_seq |-> 0, next |-> 1, triggered |-> FALSE]

Init ==
    /\ log = 0
    /\ bad = {}
    /\ cursor = [p \in Projection |-> 0]
    /\ failures = [p \in Projection |-> {}]
    /\ worker = [p \in Projection |-> Absent]
    /\ restarts = 0
    /\ client = [c \in Client |-> NoCall]
    /\ answered = {}
    /\ crashes = 0
    /\ faults = 0

database == <<log, bad, cursor, failures>>
bounds == <<crashes, faults>>

-----------------------------------------------------------------------------
\* Api.Events.append_event: the event is committed.
AppendEvent(c) ==
    /\ client[c].at = "idle"
    /\ log < MaxLogSeq
    /\ log' = log + 1
    /\ bad' \in {bad, bad \cup {log'}}
    /\ client' = [client EXCEPT ![c] = [NoCall EXCEPT !.at = "ensure", !.log_seq = log']]
    /\ UNCHANGED <<cursor, failures, worker, restarts, answered, bounds>>

\* An append on another node, or past Api.Events, tells no worker of this one.
AppendElsewhere ==
    /\ log < MaxLogSeq
    /\ log' = log + 1
    /\ bad' \in {bad, bad \cup {log'}}
    /\ UNCHANGED <<cursor, failures, worker, restarts, client, answered, bounds>>

\* ensure_worker_started: a worker that runs is as good as a new one. The
\* supervisor restarts a dead child before it handles the next call.
EnsureWorker(c) ==
    LET p == Names[client[c].next] IN
    /\ client[c].at = "ensure"
    /\ worker[p].at # "restarting"
    /\ worker' = [worker EXCEPT ![p] = IF Alive(p) THEN @ ELSE Booted]
    /\ client' = [client EXCEPT ![c].at = "cast"]
    /\ UNCHANGED <<database, restarts, answered, bounds>>

\* The supervisor does not answer: the others are not told either.
EnsureFails(c) ==
    /\ client[c].at = "ensure"
    /\ faults < MaxFaults
    /\ faults' = faults + 1
    /\ client' = [client EXCEPT ![c].at = "answer"]
    /\ UNCHANGED <<database, worker, restarts, answered, crashes>>

\* Enum.each: on to the next name, or true.
NextName(call) ==
    IF call.next = Len(Names) THEN [call EXCEPT !.at = "answer", !.triggered = TRUE]
    ELSE [call EXCEPT !.at = "ensure", !.next = @ + 1]

Delivered(w) == [w EXCEPT !.casts = @ + 1]

\* GenServer.cast by a name: nobody notices when no process has it.
CastSync(c) ==
    LET p == Names[client[c].next] IN
    /\ client[c].at = "cast"
    /\ worker' = [worker EXCEPT ![p] = IF Alive(p) THEN Delivered(@) ELSE @]
    /\ client' = [client EXCEPT ![c] = NextName(@)]
    /\ UNCHANGED <<database, restarts, answered, bounds>>

Answer(c) ==
    /\ client[c].at = "answer"
    /\ answered' = IF client[c].triggered THEN answered \cup {client[c].log_seq} ELSE answered
    /\ client' = [client EXCEPT ![c] = NoCall]
    /\ UNCHANGED <<database, worker, restarts, bounds>>

\* The request dies; its event is in the log.
ClientDies(c) ==
    /\ client[c].at # "idle"
    /\ crashes < MaxCrashes
    /\ crashes' = crashes + 1
    /\ client' = [client EXCEPT ![c] = NoCall]
    /\ UNCHANGED <<database, worker, restarts, answered, faults>>

-----------------------------------------------------------------------------
Forwarded(w) == [w EXCEPT !.casts = @ - 1, !.syncs = @ + 1]

\* handle_cast: the worker sends itself the message.
HandleCast(p) ==
    /\ worker[p].at = "waiting"
    /\ worker[p].casts > 0
    /\ worker' = [worker EXCEPT ![p] = Forwarded(@)]
    /\ UNCHANGED <<database, restarts, client, answered, bounds>>

Started(w, now) == [w EXCEPT !.at = "syncing", !.syncs = @ - 1, !.began = now]

\* handle_info: a sync begins.
StartSync(p) ==
    /\ worker[p].at = "waiting"
    /\ worker[p].syncs > 0
    /\ worker' = [worker EXCEPT ![p] = Started(@, log)]
    /\ UNCHANGED <<database, restarts, client, answered, bounds>>

\* A batch of catch_up, up to n; it resolves the failures it has passed.
ProjectBatch(p, n) ==
    /\ worker[p].at = "syncing"
    /\ n \in cursor[p] + 1 .. log
    /\ bad \cap (cursor[p] + 1 .. n) = {}
    /\ cursor' = [cursor EXCEPT ![p] = n]
    /\ failures' = [failures EXCEPT ![p] = {f \in @ : f > n}]
    /\ UNCHANGED <<log, bad, worker, restarts, client, answered, bounds>>

\* The worker waits again.
Finish(w, status) == [w EXCEPT !.at = "waiting", !.status = status, !.synced = w.began,
                               !.began = 0, !.since = 0]

Succeed(w) == [Finish(w, "idle") EXCEPT !.retry_count = 0, !.syncs = @ + 1]

\* Nothing is left: the next poll.
SyncSucceeds(p) ==
    /\ worker[p].at = "syncing"
    /\ cursor[p] = log
    /\ worker' = [worker EXCEPT ![p] = Succeed(@)]
    /\ UNCHANGED <<database, restarts, client, answered, bounds>>

\* Mutant: the message of the retry is forgotten.
RetryUnscheduled(w) == [Finish(w, "retrying") EXCEPT !.retry_count = @ + 1]

\* A recoverable error, and retries are left.
Retry(w) == [Finish(w, "retrying") EXCEPT !.retry_count = @ + 1, !.syncs = @ + 1]

\* Any other: the event it is about comes after n.
Terminal(w, n) == [w EXCEPT !.at = "recording", !.retry_count = @ + 1, !.since = n]

\* The database fails: the error is recoverable (failure_recoverable?). It is
\* about an event of the batch, or has the cursor, unless that was not read.
FailsAfter(p) == {0, cursor[p]} \cup {n \in LogSeq : n + 1 \in cursor[p] + 1 .. log}
SyncFails(p) ==
    /\ worker[p].at = "syncing"
    /\ faults < MaxFaults
    /\ faults' = faults + 1
    /\ \E n \in FailsAfter(p) : worker' = [worker EXCEPT ![p] =
           IF @.retry_count < MaxRetries THEN Retry(@) ELSE Terminal(@, n)]
    /\ UNCHANGED <<database, restarts, client, answered, crashes>>

\* A batch has an event that is rejected, which no retry changes.
SyncRejects(p, n) ==
    /\ worker[p].at = "syncing"
    /\ n \in bad
    /\ bad \cap (cursor[p] + 1 .. n) = {n}
    /\ worker' = [worker EXCEPT ![p] = Terminal(@, n - 1)]
    /\ UNCHANGED <<database, restarts, client, answered, bounds>>

\* failed_event_for and record_failure!, if there is such an event. No message
\* is sent: the worker waits for a cast, or for the poll of an earlier one.
RecordFailure(p) ==
    /\ worker[p].at = "recording"
    /\ failures' = [failures EXCEPT ![p] = @ \cup ({worker[p].since + 1} \cap 1 .. log)]
    /\ worker' = [worker EXCEPT ![p] = Finish(@, "failed")]
    /\ UNCHANGED <<log, bad, cursor, restarts, client, answered, bounds>>

\* The event cannot be read, which is rescued: nothing is recorded.
FailedEventUnknown(p) ==
    /\ worker[p].at = "recording"
    /\ faults < MaxFaults
    /\ faults' = faults + 1
    /\ worker' = [worker EXCEPT ![p] = Finish(@, "failed")]
    /\ UNCHANGED <<database, restarts, client, answered, crashes>>

-----------------------------------------------------------------------------
\* A child of the supervisor has died. With too many restarts in its window the
\* supervisor dies with all its children, and is restarted without any.
ChildDied(p) ==
    IF restarts < MaxRestarts
    THEN /\ restarts' = restarts + 1
         /\ worker' = [worker EXCEPT ![p] = [Absent EXCEPT !.at = "restarting"]]
    ELSE /\ restarts' = 0
         /\ worker' = [q \in Projection |-> Absent]

\* The worker is killed, its messages and timers with it.
WorkerDies(p) ==
    /\ Alive(p)
    /\ crashes < MaxCrashes
    /\ crashes' = crashes + 1
    /\ ChildDied(p)
    /\ UNCHANGED <<database, client, answered, faults>>

\* record_failure! raises, which nobody rescues.
RecordFails(p) ==
    /\ worker[p].at = "recording"
    /\ faults < MaxFaults
    /\ faults' = faults + 1
    /\ ChildDied(p)
    /\ UNCHANGED <<database, client, answered, crashes>>

\* Mutant: a restarted worker waits for its first message.
RebootedSilent == [Booted EXCEPT !.syncs = 0]

\* init again.
Rebooted == Booted

RestartWorker(p) ==
    /\ worker[p].at = "restarting"
    /\ worker' = [worker EXCEPT ![p] = Rebooted]
    /\ UNCHANGED <<database, restarts, client, answered, bounds>>

\* The restarts leave the window.
WindowPasses ==
    /\ restarts > 0
    /\ restarts' = 0
    /\ UNCHANGED <<database, worker, client, answered, bounds>>

-----------------------------------------------------------------------------
\* What a client, and a worker, does as long as it lives.
Proceed(c) == EnsureWorker(c) \/ CastSync(c) \/ Answer(c)
Sync(p) ==
    \/ StartSync(p)
    \/ \E n \in LogSeq : ProjectBatch(p, n) \/ SyncRejects(p, n)
    \/ SyncSucceeds(p) \/ RecordFailure(p)

Next ==
    \/ AppendElsewhere \/ WindowPasses
    \/ \E c \in Client : AppendEvent(c) \/ Proceed(c) \/ EnsureFails(c) \/ ClientDies(c)
    \/ \E p \in Projection :
          \/ HandleCast(p) \/ Sync(p) \/ SyncFails(p) \/ FailedEventUnknown(p)
          \/ WorkerDies(p) \/ RecordFails(p) \/ RestartWorker(p)

Spec == Init /\ [][Next]_vars

\* Processes run, the mailbox is a queue (so that every message has its turn),
\* timers fire, and the supervisor restarts its children.
FairSpec ==
    /\ Spec
    /\ \A c \in Client : WF_vars(Proceed(c))
    /\ \A p \in Projection :
          SF_vars(HandleCast(p)) /\ WF_vars(Sync(p)) /\ WF_vars(RestartWorker(p))

-----------------------------------------------------------------------------
\* Every variable has its type.
TypeOK ==
    /\ log \in LogSeq
    /\ bad \subseteq LogSeq
    /\ cursor \in [Projection -> LogSeq]
    /\ failures \in [Projection -> SUBSET LogSeq]
    /\ worker \in [Projection -> Worker]
    /\ restarts \in Nat
    /\ client \in [Client -> Call]
    /\ answered \subseteq LogSeq
    /\ crashes \in Nat
    /\ faults \in Nat

\* Something makes the worker of p sync again.
Pending(p) ==
    \/ worker[p].at \in {"restarting", "syncing", "recording"}
    \/ Alive(p) /\ worker[p].casts + worker[p].syncs > 0

\* The worker gave up in a sync that had the event before it.
GaveUp(p, n) == worker[p].status = "failed" /\ worker[p].synced >= n

\* No wakeup is lost: an event whose append was answered with
\* projection_sync_triggered is projected, or its worker gave up with the event
\* before it, or a sync is still to come, although casts to dead processes are
\* dropped without a word and messages and timers die with a worker; unless the
\* supervisor itself has died (Api.Events, ProjectionWorker).
NoWakeupIsLost ==
    \A n \in answered, p \in Projection :
        cursor[p] >= n \/ GaveUp(p, n) \/ Pending(p) \/ worker[p].at = "absent"

\* It is projected or given up in the end.
AcknowledgedIsSynced ==
    \A n \in LogSeq, p \in Projection :
        n \in answered ~> cursor[p] >= n \/ GaveUp(p, n) \/ worker[p].at = "absent"

\* What does not hold. "After a successful sync the worker schedules the next
\* poll" (docs/architecture/BEAM_PROJECTION_RUNTIME.md:69): every cast begins a
\* chain of polls of its own, which only ends in an error.
OnePoll ==
    \A p \in Projection : worker[p].synced > 0 /\ worker[p].casts = 0 => worker[p].syncs <= 1

\* "If [...] retries are exhausted, the worker records the failure in
\* dg_projection_failures" (ibid.:89): the database that failed fails again.
FailedIsRecorded ==
    \A p \in Projection : worker[p].status = "failed" /\ cursor[p] < worker[p].synced
        => failures[p] # {}
=============================================================================
