----------------------- MODULE ReplayCoordinatorProofs -----------------------
(***************************************************************************)
(* Safety of the replay coordinator, for any number of projections, jobs   *)
(* and crashes.                                                            *)
(***************************************************************************)
EXTENDS ReplayCoordinator, TLAPS

(***************************************************************************)
(* The inductive invariant.  ScopesMatchJobs and CompletedRunsRan are not  *)
(* inductive alone: the first needs that a job id yet to be given out is   *)
(* unknown, the second that the last message of a task tells the truth.    *)
(***************************************************************************)
JobsStarted ==
    \A j \in Job :
        /\ j >= nextJob => task[j].stage = "none" /\ jobs[j] # "listed" /\ run[j] = "none"
        /\ j < nextJob => task[j].stage # "none" /\ task[j].scope \in Scope

GovernedListed == \A j \in Job : Governed(j) => jobs[j] = "listed"

FinishedWork == \A j \in Job : task[j].stage = "finish" => task[j].left = {}

LastMessages ==
    \A i \in 1 .. Len(mailbox) :
        /\ mailbox[i].kind # "progress" => task[mailbox[i].job].stage = "ended"
        /\ mailbox[i].kind = "completed" => task[mailbox[i].job].left = {}

IInv ==
    /\ TypeOK
    /\ ScopesMatchJobs
    /\ JobsStarted
    /\ GovernedListed
    /\ FinishedWork
    /\ LastMessages
    /\ CompletedRunsRan

-----------------------------------------------------------------------------
TaskType ==
    [stage : Stage, scope : Scope \cup {NoJob}, mode : {"catch_up", "rebuild"},
     left : SUBSET Projection, killed : BOOLEAN, orphan : BOOLEAN]

MessageType == [job : Job, kind : {"progress", "completed", "failed"}]

LEMMA MessageOfJob ==
    TypeOK => \A i \in 1 .. Len(mailbox) : mailbox[i] \in MessageType /\ mailbox[i].job \in Job
<1> SUFFICES ASSUME TypeOK, NEW i \in 1 .. Len(mailbox)
             PROVE  mailbox[i] \in MessageType /\ mailbox[i].job \in Job
  OBVIOUS
<1>1. mailbox \in Seq(MessageType)
  BY DEF TypeOK, MessageType
<1>2. mailbox[i] \in MessageType
  BY <1>1
<1> QED
  BY <1>2 DEF MessageType

LEMMA TargetsType == \A s \in Scope : Targets(s) \in SUBSET Projection
BY CoordinatorAssumption DEF Targets

LEMMA InitIInv == Init => IInv
<1> SUFFICES ASSUME Init PROVE IInv
  OBVIOUS
<1> USE CoordinatorAssumption DEF Init
<1>1. NoTask \in TaskType
  BY DEF NoTask, TaskType, Stage
<1>2. TypeOK
  <2>1. mailbox \in Seq(MessageType)
    OBVIOUS
  <2>2. task \in [Job -> TaskType]
    BY <1>1
  <2>3. nextJob \in 1 .. MaxJobs + 1 /\ faults \in 0 .. MaxFaults
    OBVIOUS
  <2> QED
    BY <2>1, <2>2, <2>3 DEF TypeOK, TaskType, MessageType, Status
<1>3. \A j \in Job : task[j].stage = "none" /\ task[j].left = {}
  BY DEF NoTask
<1> QED
  BY <1>2, <1>3 DEF IInv, ScopesMatchJobs, JobsStarted, GovernedListed, Governed, Alive,
                    FinishedWork, LastMessages, CompletedRunsRan, Job

-----------------------------------------------------------------------------
(***************************************************************************)
(* A task changes its own stage only, and never leaves "ended".            *)
(***************************************************************************)
TaskMoves(j) ==
    \E new \in TaskType :
        /\ task' = [task EXCEPT ![j] = new]
        /\ Alive(j)
        /\ new.stage # "none"
        /\ new.scope = task[j].scope /\ new.mode = task[j].mode
        /\ new.killed = task[j].killed /\ new.orphan = task[j].orphan
        /\ new.left \subseteq task[j].left
        /\ new.stage = "finish" => new.left = {}

LEMMA StepMoves ==
    ASSUME TypeOK, FinishedWork, NEW j \in Job, NEW from \in {"start", "work", "finish"},
           NEW to \in Stage \ {"none"}, Step(j, from, to),
           to = "finish" => task[j].left = {}
    PROVE  TaskMoves(j)
<1> DEFINE new == [task[j] EXCEPT !.stage = to]
<1>1. task[j] \in TaskType /\ task[j].stage = from
  BY DEF TypeOK, TaskType, Step
<1>2. new \in TaskType
  BY <1>1 DEF TaskType, Stage
<1>3. task' = [task EXCEPT ![j] = new]
  BY DEF Step
<1>4. /\ new.stage = to /\ new.scope = task[j].scope /\ new.mode = task[j].mode
      /\ new.killed = task[j].killed /\ new.orphan = task[j].orphan /\ new.left = task[j].left
  BY <1>1 DEF TaskType
<1> QED
  BY <1>1, <1>2, <1>3, <1>4 DEF TaskMoves, Alive, Step

LEMMA MovesKeep ==
    ASSUME IInv, NEW j \in Job, TaskMoves(j), UNCHANGED <<jobs, scopes, nextJob>>,
           run' = run \/ run' = [run EXCEPT ![j] = "running"], faults' \in 0 .. MaxFaults
    PROVE  /\ task' \in [Job -> TaskType]
           /\ run' \in [Job -> Status]
           /\ ScopesMatchJobs'
           /\ JobsStarted'
           /\ GovernedListed'
           /\ FinishedWork'
           /\ CompletedRunsRan'
<1> USE DEF IInv
<1>1. PICK new \in TaskType :
        /\ task' = [task EXCEPT ![j] = new]
        /\ Alive(j)
        /\ new.stage # "none"
        /\ new.scope = task[j].scope /\ new.mode = task[j].mode
        /\ new.killed = task[j].killed /\ new.orphan = task[j].orphan
        /\ new.left \subseteq task[j].left
        /\ new.stage = "finish" => new.left = {}
  BY DEF TaskMoves
<1>2. task \in [Job -> TaskType] /\ run \in [Job -> Status]
  BY DEF TypeOK, TaskType
<1>3. task' \in [Job -> TaskType] /\ task'[j] = new /\ \A k \in Job \ {j} : task'[k] = task[k]
  BY <1>1, <1>2
<1>4. \A k \in Job : task'[k].scope = task[k].scope
  BY <1>1, <1>3
<1>5. run' \in [Job -> Status] /\ \A k \in Job : run'[k] = run[k] \/ (k = j /\ run'[k] = "running")
  BY <1>2 DEF Status
<1>6. ScopesMatchJobs'
  <2>1. \A s \in Scope : scopes[s] # NoJob => scopes[s] \in Job
    BY DEF TypeOK
  <2> QED
    BY <1>4, <2>1 DEF ScopesMatchJobs
<1>7. JobsStarted'
  <2>1. j < nextJob
    BY <1>1 DEF JobsStarted, Alive, Job, TypeOK
  <2> QED
    BY <1>1, <1>3, <1>4, <1>5, <2>1 DEF JobsStarted, Job, TypeOK
<1>8. GovernedListed'
  BY <1>1, <1>3 DEF GovernedListed, Governed, Alive
<1>9. FinishedWork'
  BY <1>1, <1>3 DEF FinishedWork
<1>10. CompletedRunsRan'
  BY <1>1, <1>3, <1>5 DEF CompletedRunsRan
<1> QED
  BY <1>3, <1>5, <1>6, <1>7, <1>8, <1>9, <1>10

(***************************************************************************)
(* Messages stay truthful: those under way, because a task that ended does *)
(* not go on, and the one that is sent.                                    *)
(***************************************************************************)
LEMMA MessagesKept ==
    ASSUME IInv, NEW j \in Job, TaskMoves(j), mailbox' = mailbox
    PROVE  mailbox' \in Seq(MessageType) /\ LastMessages'
<1> USE DEF IInv
<1>1. task \in [Job -> TaskType] /\ mailbox \in Seq(MessageType)
  BY DEF TypeOK, TaskType, MessageType
<1>2. \A k \in Job : task[k].stage = "ended" => task'[k] = task[k]
  BY <1>1 DEF TaskMoves, Alive
<1>3. \A i \in 1 .. Len(mailbox) : mailbox[i].job \in Job
  BY MessageOfJob
<1>4. ASSUME NEW i \in 1 .. Len(mailbox')
      PROVE  /\ mailbox'[i].kind # "progress" => task'[mailbox'[i].job].stage = "ended"
             /\ mailbox'[i].kind = "completed" => task'[mailbox'[i].job].left = {}
  BY <1>2, <1>3, <1>4 DEF LastMessages
<1> QED
  BY <1>1, <1>4 DEF LastMessages

LEMMA MessageSent ==
    ASSUME IInv, NEW j \in Job, TaskMoves(j), NEW kind \in {"progress", "completed", "failed"},
           Send(j, kind),
           kind # "progress" => task'[j].stage = "ended",
           kind = "completed" => task'[j].left = {}
    PROVE  mailbox' \in Seq(MessageType) /\ LastMessages'
<1>1. CASE task[j].orphan
  BY <1>1, MessagesKept DEF Send
<1>2. CASE ~task[j].orphan
  <2> USE DEF IInv
  <2> DEFINE m == [job |-> j, kind |-> kind]
  <2>1. task \in [Job -> TaskType] /\ mailbox \in Seq(MessageType) /\ m \in MessageType
    BY DEF TypeOK, TaskType, MessageType
  <2>2. mailbox' = Append(mailbox, m)
    BY <1>2 DEF Send
  <2>3. mailbox' \in Seq(MessageType) /\ Len(mailbox') = Len(mailbox) + 1
    BY <2>1, <2>2
  <2>4. \A k \in Job : task[k].stage = "ended" => task'[k] = task[k]
    BY <2>1 DEF TaskMoves, Alive
  <2>5. \A i \in 1 .. Len(mailbox) : mailbox[i].job \in Job /\ mailbox'[i] = mailbox[i]
    BY <2>1, <2>2, MessageOfJob
  <2>6. mailbox'[Len(mailbox) + 1] = m
    BY <2>1, <2>2
  <2>7. ASSUME NEW i \in 1 .. Len(mailbox')
        PROVE  /\ mailbox'[i].kind # "progress" => task'[mailbox'[i].job].stage = "ended"
               /\ mailbox'[i].kind = "completed" => task'[mailbox'[i].job].left = {}
    <3>1. CASE i \in 1 .. Len(mailbox)
      BY <2>4, <2>5, <3>1 DEF LastMessages
    <3>2. CASE i = Len(mailbox) + 1
      BY <2>6, <3>2
    <3> QED
      BY <2>1, <2>3, <2>7, <3>1, <3>2
  <2> QED
    BY <2>3, <2>7 DEF LastMessages
<1> QED
  BY <1>1, <1>2

\* What is left of the invariant after a step of a task.
LEMMA TaskStep ==
    ASSUME IInv, NEW j \in Job, TaskMoves(j), UNCHANGED <<jobs, scopes, nextJob>>,
           run' = run \/ run' = [run EXCEPT ![j] = "running"], faults' \in 0 .. MaxFaults,
           mailbox' \in Seq(MessageType), LastMessages'
    PROVE  IInv'
<1>1. /\ task' \in [Job -> TaskType]
      /\ run' \in [Job -> Status]
      /\ ScopesMatchJobs' /\ JobsStarted' /\ GovernedListed' /\ FinishedWork' /\ CompletedRunsRan'
  BY MovesKeep
<1>2. TypeOK'
  BY <1>1 DEF IInv, TypeOK, TaskType, MessageType
<1> QED
  BY <1>1, <1>2 DEF IInv

-----------------------------------------------------------------------------
(***************************************************************************)
(* The steps of a task.                                                    *)
(***************************************************************************)
LEMMA TaskPreserves ==
    ASSUME IInv, NEW j \in Job, TaskRuns(j) \/ Fail(j) \/ TaskCrashes(j) \/ Die(j)
    PROVE  IInv'
<1> USE DEF IInv
<1>0. /\ faults \in 0 .. MaxFaults /\ task \in [Job -> TaskType] /\ task[j] \in TaskType
      /\ {"work", "finish", "ended", "crashed"} \subseteq Stage \ {"none"}
  BY DEF TypeOK, TaskType, Stage
<1>1. CASE MarkRunning(j)
  <2>1. TaskMoves(j)
    BY <1>0, <1>1, StepMoves DEF MarkRunning
  <2>2. mailbox' \in Seq(MessageType) /\ LastMessages'
    BY <1>1, <2>1, MessagesKept DEF MarkRunning
  <2> QED
    BY <1>0, <1>1, <2>1, <2>2, TaskStep DEF MarkRunning, Step
<1>2. ASSUME NEW p \in Projection, Project(j, p)
      PROVE  IInv'
  <2> DEFINE new == [task[j] EXCEPT !.left = @ \ {p}]
  <2>1. task' = [task EXCEPT ![j] = new]
    BY <1>2 DEF Project
  <2>2. /\ new \in TaskType
        /\ new.stage = task[j].stage /\ new.scope = task[j].scope /\ new.mode = task[j].mode
        /\ new.killed = task[j].killed /\ new.orphan = task[j].orphan
        /\ new.left \subseteq task[j].left
    BY <1>0 DEF TaskType
  <2>3. task[j].stage = "work"
    BY <1>2 DEF Project
  <2>4. TaskMoves(j)
    BY <2>1, <2>2, <2>3 DEF TaskMoves, Alive
  <2>5. mailbox' \in Seq(MessageType) /\ LastMessages'
    <3>1. CASE mailbox' = mailbox
      BY <2>4, <3>1, MessagesKept
    <3>2. CASE Send(j, "progress")
      BY <2>4, <3>2, MessageSent
    <3> QED
      BY <1>2, <3>1, <3>2 DEF Project
  <2> QED
    BY <1>0, <1>2, <2>4, <2>5, TaskStep DEF Project
<1>3. CASE Announce(j)
  <2>1. TaskMoves(j)
    BY <1>0, <1>3, StepMoves DEF Announce
  <2>2. mailbox' \in Seq(MessageType) /\ LastMessages'
    BY <1>3, <2>1, MessageSent DEF Announce
  <2> QED
    BY <1>0, <1>3, <2>1, <2>2, TaskStep DEF Announce, Step
<1>4. CASE Finish(j)
  <2>1. TaskMoves(j)
    BY <1>0, <1>4, StepMoves DEF Finish
  <2>2. task'[j].stage = "ended" /\ task'[j].left = {}
    BY <1>0, <1>4 DEF Finish, Step, FinishedWork, TaskType
  <2>3. mailbox' \in Seq(MessageType) /\ LastMessages'
    BY <1>4, <2>1, <2>2, MessageSent DEF Finish
  <2> QED
    BY <1>0, <1>4, <2>1, <2>3, TaskStep DEF Finish, Step
<1>5. CASE Fail(j)
  <2>1. TaskMoves(j)
    BY <1>0, <1>5, StepMoves DEF Fail
  <2>2. task'[j].stage = "ended"
    BY <1>0, <1>5 DEF Fail, Step, TaskType
  <2>3. mailbox' \in Seq(MessageType) /\ LastMessages'
    BY <1>5, <2>1, <2>2, MessageSent DEF Fail
  <2> QED
    BY <1>0, <1>5, <2>1, <2>3, TaskStep DEF Fail, Step
<1>6. CASE TaskCrashes(j)
  <2>1. TaskMoves(j)
    BY <1>0, <1>6, StepMoves DEF TaskCrashes, Alive
  <2>2. mailbox' \in Seq(MessageType) /\ LastMessages'
    BY <1>6, <2>1, MessagesKept DEF TaskCrashes
  <2>3. faults' \in 0 .. MaxFaults
    BY <1>0, <1>6, CoordinatorAssumption DEF TaskCrashes
  <2> QED
    BY <1>6, <2>1, <2>2, <2>3, TaskStep DEF TaskCrashes, Step
<1>7. CASE Die(j)
  <2>1. TaskMoves(j)
    BY <1>0, <1>7, StepMoves DEF Die, Alive
  <2>2. mailbox' \in Seq(MessageType) /\ LastMessages'
    BY <1>7, <2>1, MessagesKept DEF Die
  <2> QED
    BY <1>0, <1>7, <2>1, <2>2, TaskStep DEF Die, Step
<1> QED
  BY <1>1, <1>2, <1>3, <1>4, <1>5, <1>6, <1>7 DEF TaskRuns

-----------------------------------------------------------------------------
(***************************************************************************)
(* The steps of the coordinator.                                           *)
(***************************************************************************)
LEMMA StartPreserves ==
    ASSUME IInv, NEW s \in Scope, NEW m \in Mode, StartJob(s, m)
    PROVE  IInv'
<1> USE DEF IInv
<1> DEFINE j == nextJob
           new == [NoTask EXCEPT !.stage = "start", !.scope = s, !.mode = m, !.left = Targets(s)]
<1>1. j \in Job /\ MaxJobs \in Nat
  BY CoordinatorAssumption DEF StartJob
<1>2. new \in TaskType /\ new.stage = "start" /\ new.scope = s
  <2>1. m \in {"catch_up", "rebuild"}
    BY CoordinatorAssumption
  <2>2. Targets(s) \in SUBSET Projection
    BY TargetsType
  <2> QED
    BY <2>1, <2>2 DEF NoTask, TaskType, Stage
<1>3. /\ task \in [Job -> TaskType] /\ run \in [Job -> Status]
      /\ jobs \in [Job -> {"absent", "listed", "nil"}]
      /\ scopes \in [Scope -> Job \cup {NoJob}]
  BY DEF TypeOK, TaskType
<1>4. /\ task' = [task EXCEPT ![j] = new]
      /\ run' = [run EXCEPT ![j] = "queued"]
      /\ jobs' = [jobs EXCEPT ![j] = "listed"]
      /\ scopes' = [scopes EXCEPT ![s] = j]
      /\ nextJob' = nextJob + 1 /\ mailbox' = mailbox /\ faults' = faults
      /\ scopes[s] = NoJob
  BY DEF StartJob
<1>5. TypeOK'
  <2>1. nextJob' \in 1 .. MaxJobs + 1
    BY <1>1, <1>4 DEF Job
  <2>2. task' \in [Job -> TaskType] /\ run' \in [Job -> Status]
    BY <1>2, <1>3, <1>4 DEF Status
  <2> QED
    BY <1>1, <1>3, <1>4, <2>1, <2>2 DEF TypeOK, TaskType
<1>6. ScopesMatchJobs'
  <2>1. jobs[j] # "listed" /\ NoJob \notin Job
    BY <1>1, CoordinatorAssumption DEF JobsStarted, Job
  <2>2. \A t \in Scope : scopes[t] # NoJob => scopes[t] \in Job /\ scopes[t] # j
    BY <1>3, <2>1 DEF ScopesMatchJobs
  <2>3. \A k \in Job : jobs[k] = "listed" => task[k].scope \in Scope /\ task[k].scope # s
    BY <1>4, <2>1 DEF ScopesMatchJobs, JobsStarted, Job, TypeOK
  <2> QED
    BY <1>1, <1>2, <1>3, <1>4, <2>1, <2>2, <2>3 DEF ScopesMatchJobs
<1>7. JobsStarted'
  BY <1>1, <1>2, <1>3, <1>4 DEF JobsStarted, Job
<1>8. GovernedListed' /\ FinishedWork'
  BY <1>1, <1>2, <1>3, <1>4 DEF GovernedListed, FinishedWork, Governed, Alive
<1>9. LastMessages'
  <2>1. task[j].stage = "none" /\ run[j] = "none"
    BY <1>1 DEF JobsStarted, Job
  <2>2. \A i \in 1 .. Len(mailbox) : mailbox[i].job \in Job /\ mailbox[i] \in MessageType
    BY MessageOfJob
  <2>3. \A i \in 1 .. Len(mailbox) : mailbox[i].job = j => mailbox[i].kind = "progress"
    BY <2>1 DEF LastMessages
  <2> QED
    BY <1>1, <1>3, <1>4, <2>2, <2>3 DEF LastMessages
<1>10. CompletedRunsRan'
  BY <1>1, <1>3, <1>4 DEF CompletedRunsRan
<1> QED
  BY <1>5, <1>6, <1>7, <1>8, <1>9, <1>10

LEMMA RemoveKeeps ==
    ASSUME IInv, NEW j \in Job, RemoveJob(j)
    PROVE  /\ jobs' \in [Job -> {"absent", "listed", "nil"}]
           /\ scopes' \in [Scope -> Job \cup {NoJob}]
           /\ (\A k \in Job : task'[k].scope = task[k].scope) => ScopesMatchJobs'
           /\ \A k \in Job : jobs'[k] = IF k = j /\ jobs[k] = "listed" THEN "absent" ELSE jobs[k]
<1> USE DEF IInv
<1>1. /\ jobs \in [Job -> {"absent", "listed", "nil"}]
      /\ scopes \in [Scope -> Job \cup {NoJob}] /\ NoJob \notin Job
  BY CoordinatorAssumption DEF TypeOK
<1>2. CASE jobs[j] # "listed"
  <2>1. jobs' = jobs /\ scopes' = scopes
    BY <1>2 DEF RemoveJob
  <2>2. \A s \in Scope : scopes[s] # NoJob => scopes[s] \in Job
    BY <1>1
  <2> QED
    BY <1>1, <1>2, <2>1, <2>2 DEF ScopesMatchJobs
<1>3. CASE jobs[j] = "listed"
  <2>1. /\ jobs' = [jobs EXCEPT ![j] = "absent"]
        /\ scopes' = [scopes EXCEPT ![task[j].scope] = NoJob]
    BY <1>3 DEF RemoveJob
  <2>2. \A k \in Job : jobs[k] = "listed" => task[k].scope \in Scope /\ scopes[task[k].scope] = k
    BY DEF ScopesMatchJobs, JobsStarted, Job, TypeOK
  <2>3. \A s \in Scope : scopes[s] # NoJob => scopes[s] \in Job
    BY <1>1
  <2> QED
    BY <1>1, <1>3, <2>1, <2>2, <2>3 DEF ScopesMatchJobs
<1> QED
  BY <1>2, <1>3

LEMMA CancelPreserves ==
    ASSUME IInv, NEW j \in Job, Cancel(j)
    PROVE  IInv'
<1> USE DEF IInv
<1> DEFINE new == [task[j] EXCEPT !.killed = TRUE]
<1>1. task \in [Job -> TaskType] /\ run \in [Job -> Status] /\ task[j] \in TaskType
  BY DEF TypeOK, TaskType
<1>2. task' = [task EXCEPT ![j] = new] /\ run' = [run EXCEPT ![j] = "cancelled"]
  BY DEF Cancel
<1>3. /\ new \in TaskType /\ new.stage = task[j].stage /\ new.scope = task[j].scope
      /\ new.left = task[j].left /\ new.killed /\ new.orphan = task[j].orphan
  BY <1>1 DEF TaskType
<1>4. /\ task' \in [Job -> TaskType] /\ run' \in [Job -> Status]
      /\ \A k \in Job : /\ task'[k].stage = task[k].stage /\ task'[k].scope = task[k].scope
                        /\ task'[k].left = task[k].left
                        /\ Governed(k)' => Governed(k) /\ k # j
  BY <1>1, <1>2, <1>3 DEF Status, Governed, Alive
<1>5. /\ jobs' \in [Job -> {"absent", "listed", "nil"}]
      /\ scopes' \in [Scope -> Job \cup {NoJob}]
      /\ ScopesMatchJobs'
      /\ \A k \in Job : jobs'[k] = IF k = j /\ jobs[k] = "listed" THEN "absent" ELSE jobs[k]
  BY <1>4, RemoveKeeps DEF Cancel
<1>6. UNCHANGED <<mailbox, nextJob, faults>>
  BY DEF Cancel
<1>7. TypeOK'
  BY <1>4, <1>5, <1>6 DEF TypeOK, TaskType
<1>8. JobsStarted'
  <2>1. j < nextJob
    BY DEF JobsStarted, Job, TypeOK, Cancel
  <2> QED
    BY <1>1, <1>2, <1>4, <1>5, <1>6, <2>1 DEF JobsStarted, Job, TypeOK
<1>9. GovernedListed' /\ FinishedWork'
  BY <1>4, <1>5 DEF GovernedListed, FinishedWork
<1>10. LastMessages'
  <2>1. \A i \in 1 .. Len(mailbox) : mailbox[i].job \in Job
    BY MessageOfJob
  <2> QED
    BY <1>4, <1>6, <2>1 DEF LastMessages
<1>11. CompletedRunsRan'
  BY <1>1, <1>2, <1>4 DEF CompletedRunsRan
<1> QED
  BY <1>5, <1>7, <1>8, <1>9, <1>10, <1>11

LEMMA RestartPreserves ==
    ASSUME IInv, Restart, faults' \in 0 .. MaxFaults
    PROVE  IInv'
<1> USE DEF IInv
<1>1. task \in [Job -> TaskType]
  BY DEF TypeOK, TaskType
<1>2. \A k \in Job : task'[k] = [task[k] EXCEPT !.orphan = task[k].stage # "none"]
  BY DEF Restart
<1>3. \A k \in Job : /\ task'[k] \in TaskType
                     /\ task'[k].stage = task[k].stage /\ task'[k].scope = task[k].scope
                     /\ task'[k].left = task[k].left /\ task'[k].killed = task[k].killed
                     /\ task'[k].orphan = (task[k].stage # "none")
  <2> SUFFICES ASSUME NEW k \in Job
               PROVE  /\ task'[k] \in TaskType
                      /\ task'[k].stage = task[k].stage /\ task'[k].scope = task[k].scope
                      /\ task'[k].left = task[k].left /\ task'[k].killed = task[k].killed
                      /\ task'[k].orphan = (task[k].stage # "none")
    OBVIOUS
  <2>1. task[k] \in TaskType
    BY <1>1
  <2> DEFINE b == task[k].stage # "none"
  <2>2. b \in BOOLEAN /\ task'[k] = [task[k] EXCEPT !.orphan = b]
    BY <1>2
  <2> HIDE DEF b
  <2>3. task'[k] \in TaskType
    BY <2>1, <2>2 DEF TaskType
  <2>4. /\ task'[k].stage = task[k].stage /\ task'[k].scope = task[k].scope
        /\ task'[k].left = task[k].left /\ task'[k].killed = task[k].killed
        /\ task'[k].orphan = b
    BY <2>1, <2>2 DEF TaskType
  <2> QED BY <2>3, <2>4 DEF b
<1>4. task' \in [Job -> TaskType]
  BY <1>3 DEF Restart
<1>5. TypeOK'
  <2>1. mailbox' \in Seq(MessageType)
    BY DEF Restart
  <2>2. /\ jobs' \in [Job -> {"absent", "listed", "nil"}]
        /\ scopes' \in [Scope -> Job \cup {NoJob}] /\ run' = run /\ nextJob' = nextJob
    BY DEF Restart
  <2> QED
    BY <1>4, <2>1, <2>2 DEF TypeOK, TaskType, MessageType
<1>6. ScopesMatchJobs'
  BY DEF ScopesMatchJobs, Restart
<1>7. JobsStarted'
  BY <1>3 DEF JobsStarted, Restart
<1>8. GovernedListed' /\ FinishedWork' /\ CompletedRunsRan'
  <2>1. GovernedListed'
    BY <1>3 DEF GovernedListed, Governed, Alive
  <2>2. FinishedWork'
    BY <1>3 DEF FinishedWork
  <2>3. run' = run
    BY DEF Restart
  <2>4. CompletedRunsRan'
    BY <1>3, <2>3 DEF CompletedRunsRan
  <2> QED BY <2>1, <2>2, <2>4
<1>9. LastMessages'
  BY DEF LastMessages, Restart
<1> QED
  BY <1>5, <1>6, <1>7, <1>8, <1>9

LEMMA TailOfMailbox ==
    ASSUME IInv, mailbox # <<>>, mailbox' = Tail(mailbox), task' = task
    PROVE  mailbox' \in Seq(MessageType) /\ LastMessages'
<1> USE DEF IInv
<1>1. mailbox \in Seq(MessageType)
  BY DEF TypeOK, MessageType
<1>2. mailbox' \in Seq(MessageType) /\ Len(mailbox') = Len(mailbox) - 1
  BY <1>1
<1>3. \A i \in 1 .. Len(mailbox') : i + 1 \in 1 .. Len(mailbox) /\ mailbox'[i] = mailbox[i + 1]
  BY <1>1, <1>2
<1> QED
  BY <1>2, <1>3 DEF LastMessages

LEMMA ProgressPreserves ==
    ASSUME IInv, HandleProgress
    PROVE  IInv'
<1> USE DEF IInv
<1>1. mailbox # <<>> /\ mailbox' = Tail(mailbox) /\ UNCHANGED <<scopes, task, run, nextJob, faults>>
  BY DEF HandleProgress
<1>2. mailbox' \in Seq(MessageType) /\ LastMessages'
  BY <1>1, TailOfMailbox
<1>3. /\ jobs' \in [Job -> {"absent", "listed", "nil"}]
      /\ \A k \in Job : jobs'[k] = "listed" <=> jobs[k] = "listed"
  BY DEF HandleProgress, TypeOK
<1>4. TypeOK'
  BY <1>1, <1>2, <1>3 DEF TypeOK, MessageType
<1>5. ScopesMatchJobs' /\ JobsStarted' /\ GovernedListed'
  <2>1. \A s \in Scope : scopes[s] # NoJob => scopes[s] \in Job
    BY DEF TypeOK
  <2> QED
    BY <1>1, <1>3, <2>1 DEF ScopesMatchJobs, JobsStarted, GovernedListed, Governed, Alive
<1> QED
  BY <1>1, <1>2, <1>4, <1>5 DEF FinishedWork, CompletedRunsRan

LEMMA FinishedPreserves ==
    ASSUME IInv, HandleFinished
    PROVE  IInv'
<1> USE DEF IInv
<1> DEFINE j == Head(mailbox).job
           kind == Head(mailbox).kind
<1>1. /\ mailbox # <<>> /\ mailbox' = Tail(mailbox) /\ UNCHANGED <<task, nextJob, faults>>
      /\ run' = [run EXCEPT ![j] = kind] /\ RemoveJob(j) /\ kind # "progress"
  BY DEF HandleFinished
<1>2. mailbox' \in Seq(MessageType) /\ LastMessages'
  BY <1>1, TailOfMailbox
<1>3. 1 \in 1 .. Len(mailbox) /\ Head(mailbox) = mailbox[1]
  BY <1>1 DEF TypeOK
<1>4. j \in Job /\ kind \in {"completed", "failed"}
  BY <1>1, <1>3, MessageOfJob DEF MessageType
<1>5. task[j].stage = "ended" /\ (kind = "completed" => task[j].left = {})
  BY <1>1, <1>3 DEF LastMessages
<1>6. /\ jobs' \in [Job -> {"absent", "listed", "nil"}]
      /\ scopes' \in [Scope -> Job \cup {NoJob}]
      /\ ScopesMatchJobs'
      /\ \A k \in Job : jobs'[k] = IF k = j /\ jobs[k] = "listed" THEN "absent" ELSE jobs[k]
  BY <1>1, <1>4, RemoveKeeps
<1>7. run \in [Job -> Status] /\ run' \in [Job -> Status]
  BY <1>1, <1>4 DEF TypeOK, Status
<1>8. TypeOK'
  BY <1>1, <1>2, <1>6, <1>7 DEF TypeOK, MessageType
<1>9. JobsStarted'
  <2>1. j < nextJob
    BY <1>4, <1>5 DEF JobsStarted, Job, TypeOK
  <2> QED
    BY <1>1, <1>4, <1>6, <1>7, <2>1 DEF JobsStarted, Job, TypeOK
<1>10. GovernedListed' /\ FinishedWork'
  BY <1>1, <1>5, <1>6 DEF GovernedListed, Governed, Alive, FinishedWork
<1>11. CompletedRunsRan'
  BY <1>1, <1>4, <1>5, <1>7 DEF CompletedRunsRan
<1> QED
  BY <1>2, <1>6, <1>8, <1>9, <1>10, <1>11

-----------------------------------------------------------------------------
LEMMA StepIInv ==
    ASSUME IInv, [Next]_vars
    PROVE  IInv'
<1>1. ASSUME NEW s \in Scope, NEW m \in Mode, StartJob(s, m)
      PROVE  IInv'
  BY <1>1, StartPreserves
<1>2. CASE ActiveJobs
  BY <1>2, RestartPreserves DEF ActiveJobs, IInv, TypeOK
<1>3. CASE CoordinatorFails
  <2>1. faults' \in 0 .. MaxFaults
    BY <1>3, CoordinatorAssumption DEF CoordinatorFails, IInv, TypeOK
  <2> QED
    BY <1>3, <2>1, RestartPreserves DEF CoordinatorFails
<1>4. CASE HandleProgress
  BY <1>4, ProgressPreserves
<1>5. CASE HandleFinished
  BY <1>5, FinishedPreserves
<1>6. ASSUME NEW j \in Job, Cancel(j)
      PROVE  IInv'
  BY <1>6, CancelPreserves
<1>7. ASSUME NEW j \in Job, TaskRuns(j) \/ Fail(j) \/ TaskCrashes(j) \/ Die(j)
      PROVE  IInv'
  BY <1>7, TaskPreserves
<1>8. CASE UNCHANGED vars
  BY <1>8 DEF vars, IInv, TypeOK, ScopesMatchJobs, JobsStarted, GovernedListed, Governed, Alive,
              FinishedWork, LastMessages, CompletedRunsRan
<1> QED
  BY <1>1, <1>2, <1>3, <1>4, <1>5, <1>6, <1>7, <1>8 DEF Next

(***************************************************************************)
(* The coordinator keeps its invariant through starts, cancels, crashes    *)
(* and messages in any order.                                              *)
(***************************************************************************)
THEOREM Invariance == Spec => []IInv
BY InitIInv, StepIInv, PTL DEF Spec

(***************************************************************************)
(* The variables keep their types: no message ends up as a run's status.   *)
(***************************************************************************)
THEOREM TypeCorrect == Spec => []TypeOK
BY Invariance, PTL DEF IInv

(***************************************************************************)
(* The coordinator's maps of jobs and of scopes agree.                     *)
(***************************************************************************)
THEOREM MapsAgree == Spec => []ScopesMatchJobs
BY Invariance, PTL DEF IInv

(***************************************************************************)
(* No two jobs the coordinator governs run for one scope.                  *)
(***************************************************************************)
THEOREM ScopesExclude == Spec => []OneJobPerScope
<1>1. IInv => OneJobPerScope
  BY DEF IInv, OneJobPerScope, GovernedListed, ScopesMatchJobs
<1> QED
  BY <1>1, Invariance, PTL

(***************************************************************************)
(* A run is completed only if its job has processed all it was asked to.   *)
(***************************************************************************)
THEOREM CompletedRan == Spec => []CompletedRunsRan
BY Invariance, PTL DEF IInv
=============================================================================
