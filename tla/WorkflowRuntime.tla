--------------------------- MODULE WorkflowRuntime ---------------------------
(***************************************************************************)
(* DecisionGraph.Api.Workflows for one tenant with one trace: the items of *)
(* the inbox, derived from the log by refreshes and changed by the actions *)
(* of reviewers.                                                           *)
(*                                                                         *)
(* A refresh is one transaction that holds the tenant's row of             *)
(* dg_workflow_runtime; its writes are drafts until it commits.  The       *)
(* statements of an action run each in a transaction of their own, and     *)
(* write an item whole from the row read before.                           *)
(*                                                                         *)
(* The log is the trace after its first event.  Appends to one trace       *)
(* commit in the order of their log_seq (EventStore), so an append is one  *)
(* step.  Assignees, priorities, reasons and policies are left out: they   *)
(* decide nothing.                                                         *)
(***************************************************************************)
EXTENDS Naturals, Sequences, FiniteSets

CONSTANTS
    Requester,          \* the processes that serve API calls
    Workflow,           \* ids of items
    ExceptionWorkflow,  \* those of kind exception_review
    RequestId,          \* ids of calls; a retry repeats its id
    NoRequest,          \* the id of a call for which the id does not matter
    External,           \* the events that other producers append
    MaxActive,          \* bound on the calls served at once
    MaxExternal,        \* bound on the log's length when others append
    MaxCalls,           \* bound on the calls
    MaxCrashes          \* bound on the requests that die

VARIABLES
    log,        \* the events of the trace
    cursor,     \* last_log_seq in dg_workflow_runtime
    items,      \* dg_workflow_items
    actions,    \* dg_workflow_actions; rows that say the same count once
    notices,    \* dg_workflow_notifications, by dedupe_key
    due,        \* how near each item's sla_due_at is
    run,        \* what each process does, with its local variables
    calls,      \* calls so far
    crashes     \* crashes so far

vars == <<log, cursor, items, actions, notices, due, run, calls, crashes>>

OpenStatus == {"requested", "in_review", "changes_requested", "escalated"}
TerminalStatus == {"approved", "rejected", "overridden"}
Status == OpenStatus \cup TerminalStatus \cup {"none"}

Decision == {"approve", "reject", "override"}
Manual == {"request_change", "escalate", "reassign", "comment"}
Call == Decision \cup Manual \cup {"start_review", "read"}

Managed == {"ExceptionRequested", "ApprovalRecorded", "WorkflowReviewRequested"}

Event == [type : Managed \cup {"TraceFinished"}, workflow : Workflow,
          status : TerminalStatus \cup {"none"}, \* what an approval decides
          request : RequestId \cup {NoRequest},
          own : BOOLEAN]                         \* appended by this service

ASSUME WorkflowAssumption ==
    /\ Workflow # {} /\ ExceptionWorkflow \subseteq Workflow
    /\ NoRequest \notin RequestId
    /\ External \subseteq {e \in Event : ~e.own}
    /\ \A e \in External : e.type = "ApprovalRecorded" <=> e.status # "none"
    /\ MaxActive \in Nat /\ MaxExternal \in Nat /\ MaxCalls \in Nat /\ MaxCrashes \in Nat

\* The columns of an item: approval is approval_event_id, escalations is
\* escalation_count in metadata_json.
Item == [status : Status, resolved : BOOLEAN, approval : Nat, escalations : Nat]
NoItem == [status |-> "none", resolved |-> FALSE, approval |-> 0, escalations |-> 0]
NoItems == [w \in Workflow |-> NoItem]

Nearness == {"later", "soon", "past"}

ActionRow == [type : Manual \cup {"requested", "decided"}, workflow : Workflow,
              event : Nat, escalations : Nat]
Notice == [category : {"assignment", "approval", "deadline_risk", "escalation", "failure"},
           workflow : Workflow, n : Nat]

InRefresh == {"apply", "write", "sweep", "escalate"}
Stage == InRefresh \cup {"idle", "lock", "fetch", "sequence", "append", "reread",
                         "upsert", "record", "notify", "answered"}

\* read: the item that was validated; seen: the row the next write starts
\* from; sweep: the rows that the sweep has to look at.
Run == [stage : Stage, call : Call, workflow : Workflow, request : RequestId \cup {NoRequest},
        then : {"fetch", "again", "answer"}, now : [Workflow -> Nearness],
        upto : Nat, pos : Nat, drafts : [Workflow -> Item], rows : SUBSET ActionRow,
        keys : SUBSET Notice, sweep : [Workflow -> Item], at : Workflow, seen : Item,
        read : Item, seq : Nat, event : Nat]

Idle == [stage |-> "idle", call |-> "read", workflow |-> CHOOSE w \in Workflow : TRUE,
         request |-> NoRequest, then |-> "fetch", now |-> [w \in Workflow |-> "later"],
         upto |-> 0, pos |-> 0, drafts |-> NoItems, rows |-> {}, keys |-> {},
         sweep |-> NoItems, at |-> CHOOSE w \in Workflow : TRUE, seen |-> NoItem,
         read |-> NoItem, seq |-> 0, event |-> 0]

Active == {r \in Requester : run[r].stage # "idle"}

-----------------------------------------------------------------------------
Init ==
    /\ log = <<>>
    /\ cursor = 0
    /\ items = NoItems
    /\ actions = {}
    /\ notices = {}
    /\ due = [w \in Workflow |-> "later"]
    /\ run = [r \in Requester |-> Idle]
    /\ calls = 0
    /\ crashes = 0

(***************************************************************************)
(* Around the service: other producers, time, calls, and processes that    *)
(* die.  The connection of a dead process closes; its transaction is       *)
(* rolled back.                                                            *)
(***************************************************************************)
Finished == \E n \in 1 .. Len(log) : log[n].type = "TraceFinished"

AppendExternal(e) ==
    /\ Len(log) < MaxExternal
    /\ ~Finished
    /\ log' = Append(log, e)
    /\ UNCHANGED <<cursor, items, actions, notices, due, run, calls, crashes>>

TimePasses(w) ==
    /\ due[w] # "past"
    /\ due' = [due EXCEPT ![w] = IF @ = "later" THEN "soon" ELSE "past"]
    /\ UNCHANGED <<log, cursor, items, actions, notices, run, calls, crashes>>

\* A process goes on at s with the changes in its variables.
Goto(r, s, local) == run' = [run EXCEPT ![r] = [local EXCEPT !.stage = s]]

\* refresh_runtime! takes the time before it waits for the row.
StartRefresh(r, then, local) ==
    Goto(r, "lock", [local EXCEPT !.then = then, !.now = due])

Return(r) == run' = [run EXCEPT ![r] = Idle]

BeginCall(r, c, w, q) ==
    /\ c = "start_review" => w \notin ExceptionWorkflow
    /\ c = "read" => w = Idle.workflow
    /\ q \in IF c \in Decision THEN RequestId ELSE {NoRequest}
    /\ run[r].stage = "idle"
    /\ calls < MaxCalls
    /\ Cardinality(Active) < MaxActive
    /\ StartRefresh(r, IF c = "read" THEN "answer" ELSE "fetch",
                    [Idle EXCEPT !.call = c, !.workflow = w, !.request = q])
    /\ calls' = calls + 1
    /\ UNCHANGED <<log, cursor, items, actions, notices, due, crashes>>

Crash(r) ==
    /\ run[r].stage # "idle"
    /\ crashes < MaxCrashes
    /\ Return(r)
    /\ crashes' = crashes + 1
    /\ UNCHANGED <<log, cursor, items, actions, notices, due, calls>>

(***************************************************************************)
(* refresh_runtime_transaction!                                            *)
(***************************************************************************)
\* The row is locked, then the cursor and the events after it are read.
LockRuntime(r) ==
    /\ run[r].stage = "lock"
    /\ \A o \in Requester : run[o].stage \notin InRefresh
    /\ Goto(r, "apply", [run[r] EXCEPT !.upto = Len(log), !.pos = cursor])
    /\ UNCHANGED <<log, cursor, items, actions, notices, due, calls, crashes>>

\* raw_workflow inside the transaction of r, which sees its own writes.
Seen(r, w) == IF run[r].drafts[w] # NoItem THEN run[r].drafts[w] ELSE items[w]

Pending(r) == {n \in run[r].pos + 1 .. run[r].upto : log[n].type \in Managed}

\* The first of the events that are not applied.
IsNext(r, n) == n \in Pending(r) /\ \A m \in Pending(r) : n <= m

ReadItem(r) ==
    /\ run[r].stage = "apply"
    /\ \E n \in 1 .. Len(log) :
        /\ IsNext(r, n)
        /\ Goto(r, "write", [run[r] EXCEPT !.pos = n, !.at = log[n].workflow,
                                           !.seen = Seen(r, log[n].workflow)])
    /\ UNCHANGED <<log, cursor, items, actions, notices, due, calls, crashes>>

\* What a request makes of the item.  ExceptionRequested writes
\* metadata_json anew, WorkflowReviewRequested merges it.
Requested(item, keepMetadata) ==
    [item EXCEPT !.status = IF @ \in TerminalStatus THEN @ ELSE "requested",
                 !.resolved = @ /\ item.status \in TerminalStatus,
                 !.escalations = IF keepMetadata THEN @ ELSE 0]

Decided(item, n) ==
    [item EXCEPT !.status = log[n].status, !.resolved = TRUE, !.approval = n]

ItemAfter(item, n) ==
    IF log[n].type = "ApprovalRecorded" THEN Decided(item, n)
    ELSE Requested(item, log[n].type = "WorkflowReviewRequested")

NoticeOf(n) ==
    IF log[n].type = "ApprovalRecorded"
    THEN [category |-> "approval", workflow |-> log[n].workflow, n |-> n]
    ELSE [category |-> "assignment", workflow |-> log[n].workflow, n |-> 0]

SourceRow(n) ==
    [type |-> IF log[n].type = "ApprovalRecorded" THEN "decided" ELSE "requested",
     workflow |-> log[n].workflow, event |-> n, escalations |-> 0]

\* apply_source_event!: the item, its audit row, its notification.
WriteItem(r) ==
    LET n == run[r].pos IN
    /\ run[r].stage = "write"
    /\ Goto(r, "apply", [run[r] EXCEPT !.drafts[run[r].at] = ItemAfter(run[r].seen, n),
                                       !.rows = @ \cup {SourceRow(n)},
                                       !.keys = @ \cup {NoticeOf(n)}])
    /\ UNCHANGED <<log, cursor, items, actions, notices, due, calls, crashes>>

IsOpen(item) == item.status \in OpenStatus

\* Mutant: the sweep reads the items as they were before this refresh.
SweepCommitted(r) ==
    /\ run[r].stage = "apply" /\ Pending(r) = {}
    /\ Goto(r, "sweep", [run[r] EXCEPT !.sweep =
           [w \in Workflow |-> IF IsOpen(items[w]) THEN items[w] ELSE NoItem]])
    /\ UNCHANGED <<log, cursor, items, actions, notices, due, calls, crashes>>

\* All events are applied; open_workflow_rows.
BeginSweep(r) ==
    /\ run[r].stage = "apply" /\ Pending(r) = {}
    /\ Goto(r, "sweep", [run[r] EXCEPT !.sweep =
           [w \in Workflow |-> IF IsOpen(Seen(r, w)) THEN Seen(r, w) ELSE NoItem]])
    /\ UNCHANGED <<log, cursor, items, actions, notices, due, calls, crashes>>

Overdue(r, w) ==
    /\ run[r].sweep[w].status \in {"requested", "in_review", "changes_requested"}
    /\ run[r].now[w] = "past"

\* An item of the sweep that is not overdue.
WarnDeadline(r, w) ==
    /\ run[r].stage = "sweep"
    /\ run[r].sweep[w] # NoItem /\ ~Overdue(r, w)
    /\ Goto(r, "sweep", [run[r] EXCEPT !.sweep[w] = NoItem,
           !.keys = @ \cup {k \in {[category |-> "deadline_risk", workflow |-> w, n |-> 0]} :
                              run[r].now[w] = "soon"}])
    /\ UNCHANGED <<log, cursor, items, actions, notices, due, calls, crashes>>

\* maybe_auto_escalate!, up to the row that update_workflow_item! reads again.
ReadOverdue(r, w) ==
    /\ run[r].stage = "sweep"
    /\ run[r].sweep[w] # NoItem /\ Overdue(r, w)
    /\ Goto(r, "escalate", [run[r] EXCEPT !.at = w, !.seen = Seen(r, w)])
    /\ UNCHANGED <<log, cursor, items, actions, notices, due, calls, crashes>>

\* escalate_workflow!: metadata comes from the row that was listed or
\* validated, all other columns from the row read again.
Escalated(listed, item) ==
    [item EXCEPT !.status = "escalated", !.escalations = listed.escalations + 1]

EscalateRow(w, listed) ==
    [type |-> "escalate", workflow |-> w, event |-> 0, escalations |-> listed.escalations + 1]

EscalationNotice(w, listed) ==
    [category |-> "escalation", workflow |-> w, n |-> listed.escalations + 1]

EscalateOverdue(r) ==
    LET w == run[r].at
        listed == run[r].sweep[w] IN
    /\ run[r].stage = "escalate"
    /\ Goto(r, "sweep", [run[r] EXCEPT !.drafts[w] = Escalated(listed, run[r].seen),
                                       !.sweep[w] = NoItem,
                                       !.rows = @ \cup {EscalateRow(w, listed)},
                                       !.keys = @ \cup {EscalationNotice(w, listed)}])
    /\ UNCHANGED <<log, cursor, items, actions, notices, due, calls, crashes>>

\* Mutant: the cursor is left to a transaction of its own.
CommitInTwo(r) ==
    LET local == [Idle EXCEPT !.call = run[r].call, !.workflow = run[r].workflow,
                              !.request = run[r].request, !.event = run[r].event] IN
    /\ run[r].stage = "sweep" /\ run[r].sweep = NoItems
    /\ items' = [w \in Workflow |-> Seen(r, w)]
    /\ UNCHANGED cursor
    /\ actions' = actions \cup run[r].rows
    /\ notices' = notices \cup run[r].keys
    /\ CASE run[r].then = "fetch" -> Goto(r, "fetch", local)
         [] run[r].then = "again" -> StartRefresh(r, "answer", local)
         [] run[r].then = "answer" -> Goto(r, "answered", [local EXCEPT !.now = run[r].now])
    /\ UNCHANGED <<log, due, calls, crashes>>

CommitRefresh(r) ==
    LET local == [Idle EXCEPT !.call = run[r].call, !.workflow = run[r].workflow,
                              !.request = run[r].request, !.event = run[r].event] IN
    /\ run[r].stage = "sweep" /\ run[r].sweep = NoItems
    /\ items' = [w \in Workflow |-> Seen(r, w)]
    /\ cursor' = run[r].pos
    /\ actions' = actions \cup run[r].rows
    /\ notices' = notices \cup run[r].keys
    /\ CASE run[r].then = "fetch" -> Goto(r, "fetch", local)
         [] run[r].then = "again" -> StartRefresh(r, "answer", local)
         [] run[r].then = "answer" -> Goto(r, "answered", [local EXCEPT !.now = run[r].now])
    /\ UNCHANGED <<log, due, calls, crashes>>

(***************************************************************************)
(* act_on_workflow and start_trace_review, after their first refresh.      *)
(***************************************************************************)
\* Mutant: an item that is closed may be acted on.
ValidWhenClosed(r, item) ==
    /\ run[r].call = "escalate" => item.status # "escalated"
    /\ run[r].call = "override" => run[r].workflow \in ExceptionWorkflow

\* validate_transition
ValidTransition(r, item) ==
    \/ run[r].call = "comment"
    \/ /\ item.status \notin TerminalStatus
       /\ run[r].call = "escalate" => item.status # "escalated"
       /\ run[r].call = "override" => run[r].workflow \in ExceptionWorkflow

\* Whether a call goes on with the item it fetched.
Accepted(r, item) ==
    IF run[r].call = "start_review" THEN item = NoItem
    ELSE item # NoItem /\ ValidTransition(r, item)

Fetch(r) ==
    LET item == items[run[r].workflow] IN
    /\ run[r].stage = "fetch"
    /\ Accepted(r, item)
    /\ Goto(r, IF run[r].call \in Manual THEN "reread" ELSE "sequence",
            [run[r] EXCEPT !.read = item])
    /\ UNCHANGED <<log, cursor, items, actions, notices, due, calls, crashes>>

\* Not found, an illegal transition, or a review that exists already.
Refuse(r) ==
    /\ run[r].stage = "fetch"
    /\ ~Accepted(r, items[run[r].workflow])
    /\ Return(r)
    /\ UNCHANGED <<log, cursor, items, actions, notices, due, calls, crashes>>

\* get_next_trace_seq
ReadSequence(r) ==
    /\ run[r].stage = "sequence"
    /\ Goto(r, "append", [run[r] EXCEPT !.seq = Len(log)])
    /\ UNCHANGED <<log, cursor, items, actions, notices, due, calls, crashes>>

StatusOf(c) == CASE c = "approve" -> "approved" [] c = "reject" -> "rejected"
                 [] c = "override" -> "overridden" [] c = "start_review" -> "none"

OwnEvent(r) ==
    [type |-> IF run[r].call = "start_review" THEN "WorkflowReviewRequested"
              ELSE "ApprovalRecorded",
     workflow |-> run[r].workflow, status |-> StatusOf(run[r].call),
     request |-> run[r].request, own |-> TRUE]

\* Mutant: the key is made of unique_id alone.
KeyIsFresh(e) == FALSE

\* approval_idempotency_key: the item, the action and the id of the call; the
\* item alone for a review.
KeyTaken(e) == \E n \in 1 .. Len(log) : log[n] = e

\* The answer of the store.  A retry differs from the event that has its key
\* in trace_seq, event_id and approval_id and is a conflict.
Storable(r) ==
    /\ ~KeyTaken(OwnEvent(r))
    /\ ~Finished
    /\ run[r].seq = Len(log)

\* Mutant: the decision is answered without a refresh.
AppendAndAnswer(r) ==
    /\ run[r].stage = "append"
    /\ Storable(r)
    /\ log' = Append(log, OwnEvent(r))
    /\ Goto(r, "answered", [run[r] EXCEPT !.event = Len(log) + 1])
    /\ UNCHANGED <<cursor, items, actions, notices, due, calls, crashes>>

\* append_approval_event and append_trace_review_request; the second refresh
\* of a review is get_workflow's.
AppendOwn(r) ==
    /\ run[r].stage = "append"
    /\ Storable(r)
    /\ log' = Append(log, OwnEvent(r))
    /\ StartRefresh(r, IF run[r].call = "start_review" THEN "again" ELSE "answer",
                    [run[r] EXCEPT !.event = Len(log) + 1])
    /\ UNCHANGED <<cursor, items, actions, notices, due, calls, crashes>>

\* Mutant: a rejected append is tried again with the next trace_seq.
RetryAppend(r) ==
    /\ run[r].stage = "append"
    /\ ~Storable(r)
    /\ Goto(r, "sequence", run[r])
    /\ UNCHANGED <<log, cursor, items, actions, notices, due, calls, crashes>>

RejectAppend(r) ==
    /\ run[r].stage = "append"
    /\ ~Storable(r)
    /\ Return(r)
    /\ notices' = notices \cup {[category |-> "failure", workflow |-> run[r].workflow, n |-> 0] :
                                  c \in {run[r].call} \cap Decision}
    /\ UNCHANGED <<log, cursor, items, actions, due, calls, crashes>>

\* update_workflow_item!: raw_workflow
Reread(r) ==
    /\ run[r].stage = "reread"
    /\ Goto(r, "upsert", [run[r] EXCEPT !.seen = items[run[r].workflow]])
    /\ UNCHANGED <<log, cursor, items, actions, notices, due, calls, crashes>>

\* Mutant: a request for changes clears resolved_at and leaves the status.
MergedUnresolved(r) ==
    CASE run[r].call = "request_change" -> [run[r].seen EXCEPT !.resolved = FALSE]
      [] run[r].call = "escalate" -> Escalated(run[r].read, run[r].seen)
      [] run[r].call \in {"reassign", "comment"} -> run[r].seen

\* The columns an action changes, over the row read again.
Merged(r) ==
    CASE run[r].call = "request_change" ->
            [run[r].seen EXCEPT !.status = "changes_requested", !.resolved = FALSE]
      [] run[r].call = "escalate" -> Escalated(run[r].read, run[r].seen)
      [] run[r].call \in {"reassign", "comment"} -> run[r].seen

\* No refresh holds the lock of the item's row.
RowIsFree(w) == \A o \in Requester : run[o].drafts[w] = NoItem

\* Mutant: the notification is sent before the action is recorded.
UpsertAndNotify(r) ==
    LET w == run[r].workflow IN
    /\ run[r].stage = "upsert"
    /\ RowIsFree(w)
    /\ items' = [items EXCEPT ![w] = Merged(r)]
    /\ notices' = notices \cup {EscalationNotice(w, run[r].read) :
                                  c \in {run[r].call} \cap {"escalate"}}
    /\ Goto(r, "record", run[r])
    /\ UNCHANGED <<log, cursor, actions, due, calls, crashes>>

\* upsert_workflow!
Upsert(r) ==
    LET w == run[r].workflow IN
    /\ run[r].stage = "upsert"
    /\ RowIsFree(w)
    /\ items' = [items EXCEPT ![w] = Merged(r)]
    /\ Goto(r, "record", run[r])
    /\ UNCHANGED <<log, cursor, actions, notices, due, calls, crashes>>

ManualRow(r) ==
    IF run[r].call = "escalate" THEN EscalateRow(run[r].workflow, run[r].read)
    ELSE [type |-> run[r].call, workflow |-> run[r].workflow, event |-> 0, escalations |-> 0]

\* insert_manual_action!
Record(r) ==
    /\ run[r].stage = "record"
    /\ actions' = actions \cup {ManualRow(r)}
    /\ IF run[r].call \in {"escalate", "reassign"} THEN Goto(r, "notify", run[r]) ELSE Return(r)
    /\ UNCHANGED <<log, cursor, items, notices, due, calls, crashes>>

Notify(r) ==
    /\ run[r].stage = "notify"
    /\ notices' = notices \cup
          {IF run[r].call = "escalate" THEN EscalationNotice(run[r].workflow, run[r].read)
           ELSE [category |-> "assignment", workflow |-> run[r].workflow, n |-> 1]}
    /\ Return(r)
    /\ UNCHANGED <<log, cursor, items, actions, due, calls, crashes>>

Answer(r) ==
    /\ run[r].stage = "answered"
    /\ Return(r)
    /\ UNCHANGED <<log, cursor, items, actions, notices, due, calls, crashes>>

-----------------------------------------------------------------------------
\* The statements of a refresh, and those of an action.
Refresh(r) ==
    \/ LockRuntime(r) \/ ReadItem(r) \/ WriteItem(r) \/ BeginSweep(r)
    \/ EscalateOverdue(r) \/ CommitRefresh(r)
    \/ \E w \in Workflow : WarnDeadline(r, w) \/ ReadOverdue(r, w)

Act(r) ==
    \/ Fetch(r) \/ Refuse(r) \/ ReadSequence(r) \/ AppendOwn(r) \/ RejectAppend(r)
    \/ Reread(r) \/ Upsert(r) \/ Record(r) \/ Notify(r) \/ Answer(r)

Next ==
    \/ \E e \in External : AppendExternal(e)
    \/ \E w \in Workflow : TimePasses(w)
    \/ \E r \in Requester, c \in Call, w \in Workflow, q \in RequestId \cup {NoRequest} :
          BeginCall(r, c, w, q)
    \/ \E r \in Requester : Refresh(r) \/ Act(r) \/ Crash(r)

Spec == Init /\ [][Next]_vars

\* A process whose next statement can run runs it, also when that is to wait
\* for a row lock that is free again and again: waiters are queued.
FairSpec == Spec /\ \A r \in Requester : SF_vars(Refresh(r) \/ Act(r))

-----------------------------------------------------------------------------
\* Every variable has its type.
TypeOK ==
    /\ log \in Seq(Event)
    /\ cursor \in Nat
    /\ items \in [Workflow -> Item]
    /\ actions \subseteq ActionRow
    /\ notices \subseteq Notice
    /\ due \in [Workflow -> Nearness]
    /\ run \in [Requester -> Run]
    /\ calls \in 0 .. MaxCalls
    /\ crashes \in 0 .. MaxCrashes

\* The cursor, the items and the audit rows move together: exactly the managed
\* events up to the cursor have an audit row, whatever overlaps and dies
\* (refresh_runtime_transaction!).
AppliedUpToCursor ==
    {a.event : a \in {b \in actions : b.event # 0}} =
        {n \in 1 .. Len(log) : n <= cursor /\ log[n].type \in Managed}

\* The decision on a closed item is in the log: it has resolved_at and its
\* approval_event_id is an event that decided this status of this item, even
\* when an action wrote the row back from an older read.
ClosedIsBacked ==
    \A w \in Workflow : items[w].status \in TerminalStatus =>
        /\ items[w].resolved
        /\ items[w].approval \in 1 .. Len(log)
        /\ log[items[w].approval].type = "ApprovalRecorded"
        /\ log[items[w].approval].workflow = w
        /\ log[items[w].approval].status = items[w].status

\* A reviewer who is told that a decision was recorded finds it applied
\* (act_on_workflow refreshes after the append).
AnsweredIsApplied ==
    \A r \in Requester : run[r].stage = "answered" /\ run[r].event # 0 =>
        /\ run[r].event <= cursor
        /\ \E a \in actions : a.event = run[r].event /\ a.workflow = run[r].workflow

\* A request that is sent again, at once or after its answer was lost, records
\* its decision once (approval_idempotency_key).
OneDecisionPerRequest ==
    \A m, n \in 1 .. Len(log) : log[m].own /\ log[m] = log[n] => m = n

\* Nobody is notified of an escalation that the audit does not have
\* (escalate_workflow! in an action that may die, and in a refresh).
NotifiedIsRecorded ==
    \A k \in notices : k.category = "escalation" =>
        \E a \in actions : a.type = "escalate" /\ a.workflow = k.workflow
                           /\ a.escalations = k.n

\* Requests and refreshes that wait for each other's rows all end.
EveryCallEnds == \A r \in Requester : run[r].stage # "idle" ~> run[r].stage = "idle"

(***************************************************************************)
(* Calls that overlap.  No statement locks the row it reads, so that a     *)
(* write may undo what was written since.                                  *)
(***************************************************************************)
Drafted(w) == {run[o].drafts[w] : o \in Requester} \ {NoItem}

\* The newest version of a row: that of the refresh that holds its lock.
Newest(w) == IF Drafted(w) = {} THEN items[w] ELSE CHOOSE d \in Drafted(w) : TRUE

\* r is about to write w, which has changed since it was validated or read.
StaleWrite(r, w) ==
    \/ /\ run[r].stage = "upsert" /\ run[r].workflow = w
       /\ ~(run[r].read = Newest(w) /\ run[r].seen = Newest(w))
    \/ /\ run[r].stage \in {"write", "escalate"} /\ run[r].at = w
       /\ run[r].seen # Newest(w)
    \/ /\ run[r].stage = "escalate" /\ run[r].at = w
       /\ run[r].sweep[w] # Newest(w)

\* A closed item is opened again only by a call that writes it from a row that
\* has changed since (validate_transition, update_workflow_item!), or when the
\* refresh that closed it dies with its transaction.
OnlyStaleWritesReopen ==
    [][\A w \in Workflow :
           Newest(w).status \in TerminalStatus /\ Newest(w)'.status \notin TerminalStatus
             => \E r \in Requester : \/ StaleWrite(r, w) /\ run'[r] # run[r]
                                     \/ Crash(r) /\ run[r].drafts[w] # NoItem]_vars

\* The refresh of r began after the deadline of w, shows w open and not
\* escalated, and has not listed it as overdue either.
Neglects(r, w) ==
    /\ run[r].stage \in {"sweep", "escalate", "answered"}
    /\ run[r].now[w] = "past"
    /\ IsOpen(Seen(r, w)) /\ Seen(r, w).status # "escalated"
    /\ ~Overdue(r, w)

\* From the moment it lists them to its answer, the sweep of a refresh neglects
\* no item, unless another call writes the item meanwhile (maybe_auto_escalate!).
SweptUnlessWritten ==
    [][\A r \in Requester, w \in Workflow :
           ~Neglects(r, w) /\ Neglects(r, w)'
             => \E o \in Requester \ {r} :
                   \/ Upsert(o) /\ run[o].workflow = w
                   \/ CommitRefresh(o) /\ run[r].stage = "answered"]_vars

\* What a reader is shown is swept: with one call at a time, an open item whose
\* deadline had passed when the refresh began is escalated, also one that the
\* refresh itself created.
OverdueIsEscalated ==
    \A r \in Requester, w \in Workflow :
        run[r].stage = "answered" /\ run[r].now[w] = "past" /\ IsOpen(items[w])
            => items[w].status = "escalated"

\* A closed item is never opened again (docs/reference/
\* WORKFLOW_STATE_MACHINE.md: "all other actions are rejected").
TerminalIsFinal ==
    [][\A w \in Workflow : items[w].status \in TerminalStatus
                              => items'[w].status \in TerminalStatus]_vars
=============================================================================
