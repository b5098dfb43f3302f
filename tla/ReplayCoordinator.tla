-------------------------- MODULE ReplayCoordinator --------------------------
(***************************************************************************)
(* DecisionGraph.Projector.ReplayCoordinator for one tenant: a GenServer   *)
(* that admits replay and rebuild jobs, one task process per job, and the  *)
(* rows of dg_projection_runs that both of them update.                    *)
(*                                                                         *)
(* The coordinator handles one message at a time.  A call may be handled   *)
(* before messages that a task sent after it, so calls are actions of      *)
(* their own and only the messages of tasks are queued.  An exit signal    *)
(* reaches a task some time after Process.exit returned.  What a task does *)
(* to a projection is the subject of module Projection.                    *)
(***************************************************************************)
EXTENDS Naturals, Sequences

CONSTANTS
    Projection, \* projection names
    Scope,      \* what a job may be started for: projections, or "all" of them
    Mode,       \* "catch_up", "rebuild"
    NoJob,      \* the job of a free scope
    MaxJobs,    \* bound on the jobs ever started
    MaxFaults   \* bound on crashes of tasks and of the coordinator

Job == 1 .. MaxJobs

ASSUME CoordinatorAssumption ==
    /\ Scope \subseteq Projection \cup {"all"}
    /\ Mode \subseteq {"catch_up", "rebuild"}
    /\ NoJob \notin Job
    /\ MaxJobs \in Nat /\ MaxFaults \in Nat

VARIABLES
    jobs,       \* the coordinator's map of jobs: absent, listed, or nil
    scopes,     \* its map from a scope to the job that runs there
    mailbox,    \* the messages of tasks it has not handled
    task,       \* the task processes
    run,        \* status of each job's row in dg_projection_runs
    nextJob,    \* the next job id
    faults      \* crashes so far

vars == <<jobs, scopes, mailbox, task, run, nextJob, faults>>

NoTask == [stage |-> "none", scope |-> NoJob, mode |-> "catch_up", left |-> {},
           killed |-> FALSE, orphan |-> FALSE]

Stage == {"none", "start", "work", "finish", "ended", "crashed"}

Status == {"none", "queued", "running", "completed", "failed", "cancelled"}

Alive(j) == task[j].stage \in {"start", "work", "finish"}

Targets(s) == IF s = "all" THEN Projection ELSE {s}

-----------------------------------------------------------------------------
Init ==
    /\ jobs = [j \in Job |-> "absent"]
    /\ scopes = [s \in Scope |-> NoJob]
    /\ mailbox = <<>>
    /\ task = [j \in Job |-> NoTask]
    /\ run = [j \in Job |-> "none"]
    /\ nextJob = 1
    /\ faults = 0

(***************************************************************************)
(* Calls.                                                                  *)
(***************************************************************************)
\* Mutant: the scope is not checked.
StartUnchecked(s, m) ==
    /\ nextJob \in Job
    /\ run' = [run EXCEPT ![nextJob] = "queued"]
    /\ task' = [task EXCEPT ![nextJob] = [NoTask EXCEPT !.stage = "start", !.scope = s,
                                                        !.mode = m, !.left = Targets(s)]]
    /\ jobs' = [jobs EXCEPT ![nextJob] = "listed"]
    /\ scopes' = [scopes EXCEPT ![s] = nextJob]
    /\ nextJob' = nextJob + 1
    /\ UNCHANGED <<mailbox, faults>>

\* start_replay and start_rebuild; a scope that is taken is a conflict.
StartJob(s, m) ==
    /\ nextJob \in Job
    /\ scopes[s] = NoJob
    /\ run' = [run EXCEPT ![nextJob] = "queued"]
    /\ task' = [task EXCEPT ![nextJob] = [NoTask EXCEPT !.stage = "start", !.scope = s,
                                                        !.mode = m, !.left = Targets(s)]]
    /\ jobs' = [jobs EXCEPT ![nextJob] = "listed"]
    /\ scopes' = [scopes EXCEPT ![s] = nextJob]
    /\ nextJob' = nextJob + 1
    /\ UNCHANGED <<mailbox, faults>>

\* Mutant: the scope of a job that ended stays taken.
RemoveJobOnly(j) ==
    IF jobs[j] = "listed"
    THEN jobs' = [jobs EXCEPT ![j] = "absent"] /\ UNCHANGED scopes
    ELSE UNCHANGED <<jobs, scopes>>

RemoveJob(j) ==
    IF jobs[j] = "listed"
    THEN /\ jobs' = [jobs EXCEPT ![j] = "absent"]
         /\ scopes' = [scopes EXCEPT ![task[j].scope] = NoJob]
    ELSE UNCHANGED <<jobs, scopes>>

Cancel(j) ==
    /\ jobs[j] = "listed"
    /\ task' = [task EXCEPT ![j].killed = TRUE]
    /\ run' = [run EXCEPT ![j] = "cancelled"]
    /\ RemoveJob(j)
    /\ UNCHANGED <<mailbox, nextJob, faults>>

(***************************************************************************)
(* The supervisor restarts the coordinator with empty maps.  The tasks go  *)
(* on; their messages go to the process that is gone.                      *)
(***************************************************************************)
\* Mutant: the new coordinator inherits the map of scopes.
RestartKeepScopes ==
    /\ jobs' = [j \in Job |-> "absent"]
    /\ mailbox' = <<>>
    /\ task' = [j \in Job |-> [task[j] EXCEPT !.orphan = task[j].stage # "none"]]
    /\ UNCHANGED <<scopes, run, nextJob>>

Restart ==
    /\ jobs' = [j \in Job |-> "absent"]
    /\ scopes' = [s \in Scope |-> NoJob]
    /\ mailbox' = <<>>
    /\ task' = [j \in Job |-> [task[j] EXCEPT !.orphan = task[j].stage # "none"]]
    /\ UNCHANGED <<run, nextJob>>

\* active_jobs takes fields of every job: a nil among them raises.
ActiveJobs ==
    /\ \E j \in Job : jobs[j] = "nil"
    /\ Restart
    /\ UNCHANGED faults

\* An update of the run's row raises in a handler.
CoordinatorFails ==
    /\ faults < MaxFaults
    /\ Restart
    /\ faults' = faults + 1

(***************************************************************************)
(* Messages.                                                               *)
(***************************************************************************)
\* update_in(state.jobs[job_id], ...) stores nil for a job it does not find.
HandleProgress ==
    /\ mailbox # <<>> /\ Head(mailbox).kind = "progress"
    /\ jobs' = [jobs EXCEPT ![Head(mailbox).job] = IF @ = "listed" THEN "listed" ELSE "nil"]
    /\ mailbox' = Tail(mailbox)
    /\ UNCHANGED <<scopes, task, run, nextJob, faults>>

\* job_finished: the row takes the outcome, whatever its status was.
HandleFinished ==
    /\ mailbox # <<>> /\ Head(mailbox).kind # "progress"
    /\ run' = [run EXCEPT ![Head(mailbox).job] = Head(mailbox).kind]
    /\ RemoveJob(Head(mailbox).job)
    /\ mailbox' = Tail(mailbox)
    /\ UNCHANGED <<task, nextJob, faults>>

-----------------------------------------------------------------------------
(***************************************************************************)
(* execute_job, in the task's process.                                     *)
(***************************************************************************)
Send(j, kind) ==
    mailbox' = IF task[j].orphan THEN mailbox
               ELSE Append(mailbox, [job |-> j, kind |-> kind])

Step(j, from, to) ==
    /\ task[j].stage = from
    /\ task' = [task EXCEPT ![j].stage = to]
    /\ UNCHANGED <<jobs, scopes, nextJob>>

MarkRunning(j) ==
    /\ Step(j, "start", "work")
    /\ run' = [run EXCEPT ![j] = "running"]
    /\ UNCHANGED <<mailbox, faults>>

\* Mutant: a job for "all" ends after its first projection.
ProjectOne(j, p) ==
    /\ task[j].stage = "work" /\ p \in task[j].left
    /\ task' = [task EXCEPT ![j].stage = "finish", ![j].left = @ \ {p}]
    /\ Send(j, "progress")
    /\ UNCHANGED <<jobs, scopes, run, nextJob, faults>>

\* Engine.catch_up or Engine.rebuild of one projection.
Project(j, p) ==
    /\ task[j].stage = "work" /\ p \in task[j].left
    /\ task' = [task EXCEPT ![j].left = @ \ {p}]
    /\ IF task[j].scope = "all" /\ task[j].mode = "catch_up"
       THEN Send(j, "progress")
       ELSE UNCHANGED mailbox
    /\ UNCHANGED <<jobs, scopes, run, nextJob, faults>>

Announce(j) ==
    /\ task[j].left = {}
    /\ Step(j, "work", "finish")
    /\ Send(j, "progress")
    /\ UNCHANGED <<run, faults>>

Finish(j) ==
    /\ Step(j, "finish", "ended")
    /\ Send(j, "completed")
    /\ UNCHANGED <<run, faults>>

\* Mutant: the error is not reported.
FailSilently(j) ==
    /\ task[j].left # {}
    /\ Step(j, "work", "ended")
    /\ UNCHANGED <<mailbox, run, faults>>

\* The engine returns an error or raises one.
Fail(j) ==
    /\ task[j].left # {}
    /\ Step(j, "work", "ended")
    /\ Send(j, "failed")
    /\ UNCHANGED <<run, faults>>

\* An exit is not rescued, nor an error of mark_run_running!.
TaskCrashes(j) ==
    /\ Alive(j) /\ faults < MaxFaults
    /\ Step(j, task[j].stage, "crashed")
    /\ faults' = faults + 1
    /\ UNCHANGED <<mailbox, run>>

\* The exit signal of Cancel arrives.
Die(j) ==
    /\ Alive(j) /\ task[j].killed
    /\ Step(j, task[j].stage, "ended")
    /\ UNCHANGED <<mailbox, run, faults>>

-----------------------------------------------------------------------------
TaskRuns(j) == MarkRunning(j) \/ (\E p \in Projection : Project(j, p)) \/ Announce(j) \/ Finish(j)

Next ==
    \/ \E s \in Scope, m \in Mode : StartJob(s, m)
    \/ ActiveJobs
    \/ CoordinatorFails
    \/ HandleProgress
    \/ HandleFinished
    \/ \E j \in Job : Cancel(j) \/ TaskRuns(j) \/ Fail(j) \/ TaskCrashes(j) \/ Die(j)

\* The processes run and handle their messages.
Fairness ==
    /\ WF_vars(HandleProgress \/ HandleFinished)
    /\ \A j \in Job : WF_vars(TaskRuns(j)) /\ WF_vars(Die(j))

Spec == Init /\ [][Next]_vars

FairSpec == Spec /\ Fairness

-----------------------------------------------------------------------------
(***************************************************************************)
(* The types of the variables.                                             *)
(***************************************************************************)
TypeOK ==
    /\ jobs \in [Job -> {"absent", "listed", "nil"}]
    /\ scopes \in [Scope -> Job \cup {NoJob}]
    /\ mailbox \in Seq([job : Job, kind : {"progress", "completed", "failed"}])
    /\ task \in [Job -> [stage : Stage, scope : Scope \cup {NoJob},
                         mode : {"catch_up", "rebuild"}, left : SUBSET Projection,
                         killed : BOOLEAN, orphan : BOOLEAN]]
    /\ run \in [Job -> Status]
    /\ nextJob \in 1 .. MaxJobs + 1
    /\ faults \in 0 .. MaxFaults

(***************************************************************************)
(* The coordinator's two maps agree: a scope is taken exactly by the       *)
(* listed job that was started for it, also after late messages of jobs    *)
(* that were cancelled, and after a restart.                               *)
(***************************************************************************)
ScopesMatchJobs ==
    /\ \A s \in Scope : scopes[s] # NoJob => /\ jobs[scopes[s]] = "listed"
                                             /\ task[scopes[s]].scope = s
    /\ \A j \in Job : jobs[j] = "listed" => scopes[task[j].scope] = j

(***************************************************************************)
(* Of the jobs the present coordinator started and did not cancel, no two  *)
(* run for one scope.                                                      *)
(***************************************************************************)
Governed(j) == Alive(j) /\ ~task[j].killed /\ ~task[j].orphan

OneJobPerScope ==
    \A j, k \in Job :
        Governed(j) /\ Governed(k) /\ task[j].scope = task[k].scope => j = k

(***************************************************************************)
(* A run is reported as completed only if every projection it was started  *)
(* for has been processed, whatever order cancels, crashes and messages    *)
(* come in.                                                                *)
(***************************************************************************)
CompletedRunsRan == \A j \in Job : run[j] = "completed" => task[j].left = {}

(***************************************************************************)
(* A run does not stay queued or running: it ends in one of the other      *)
(* statuses, unless its task was killed or crashed, or the coordinator     *)
(* that started it did.                                                    *)
(***************************************************************************)
Lost(j) == task[j].killed \/ task[j].orphan \/ task[j].stage = "crashed"

EveryRunEnds ==
    \A j \in Job : run[j] \in {"queued", "running"}
                       ~> run[j] \in {"completed", "failed", "cancelled"} \/ Lost(j)

(***************************************************************************)
(* A scope does not stay taken, unless the task that runs for it crashed   *)
(* (the coordinator does not monitor its tasks).                           *)
(***************************************************************************)
ScopesAreReleased ==
    \A s \in Scope : scopes[s] # NoJob
        ~> scopes[s] = NoJob \/ task[scopes[s]].stage = "crashed"

(***************************************************************************)
(* Only one replay job runs for a projection at a time.                    *)
(***************************************************************************)
OneJobPerProjection ==
    \A j, k \in Job :
        /\ j # k /\ Alive(j) /\ Alive(k)
        /\ ~task[j].killed /\ ~task[k].killed
        => Targets(task[j].scope) \cap Targets(task[k].scope) = {}

(***************************************************************************)
(* A run that was marked cancelled does not become completed or failed.    *)
(***************************************************************************)
CancelledIsFinal ==
    [][\A j \in Job : run[j] = "cancelled" => run'[j] \notin {"completed", "failed"}]_vars
=============================================================================
