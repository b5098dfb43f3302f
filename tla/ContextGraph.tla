---------------------------- MODULE ContextGraph ----------------------------
(***************************************************************************)
(* What the Python package derives from one event: the ten typed calls of  *)
(* DecisionGraph, the nodes and edges of ContextGraphEmitter, and the      *)
(* tables of SQLiteProjector they end up in.                               *)
(*                                                                         *)
(* A payload is abstracted to two references, "about" and "with", and to   *)
(* whether it has an object whose keys are not all strings.  A node is     *)
(* identified by <<kind, reference>>; an event, and with it an edge, by    *)
(* its log_seq, which is as unique as the event_id.                        *)
(***************************************************************************)
EXTENDS Integers, Sequences, FiniteSets

CONSTANTS
    None    \* a reference that is absent, or a column that is NULL

-----------------------------------------------------------------------------
(***************************************************************************)
(* The calls: the event type and payload each one appends.                 *)
(***************************************************************************)
Payload(type, about, with) ==
    [type |-> type, about |-> about, with |-> with, keys |-> "strings"]

\* The same with a nested object whose keys are numbers, in another order than as strings.
NumberedKeys(p) == [p EXCEPT !.keys = "numbers"]

Policy(id, version) == [id |-> id, version |-> version]

HasPolicy(policy) == policy.id # None /\ policy.version # None

ALL_EVENT_TYPES ==
    {"TraceStarted", "InputObserved", "EntityObserved", "PolicyEvaluated", "ExceptionRequested",
     "ApprovalRecorded", "PrecedentCited", "ActionProposed", "ActionCommitted", "TraceFinished"}

start_trace(primary_entity, actor) == Payload("TraceStarted", primary_entity, actor)
observe_input(input)               == Payload("InputObserved", input, None)
observe_entity(entity)             == Payload("EntityObserved", entity, None)
evaluate_policy(policy)            == Payload("PolicyEvaluated", policy, None)
request_exception(exc, policy)     == Payload("ExceptionRequested", exc, policy)
record_approval(subject, approver) == Payload("ApprovalRecorded", subject, approver)
cite_precedent(trace)              == Payload("PrecedentCited", trace, None)
propose_action(action, entity)     == Payload("ActionProposed", action, entity)
commit_action(action)              == Payload("ActionCommitted", action, None)
finish_trace(outcome)              == Payload("TraceFinished", outcome, None)

\* Mutant: the version of a policy may be left out.
validate_ids_only(p) ==
    /\ p.type \in ALL_EVENT_TYPES
    /\ p.about # None
    /\ p.type \in {"ExceptionRequested", "ApprovalRecorded", "ActionProposed"} => p.with # None
    /\ p.type = "PolicyEvaluated" => p.about.id # None
    /\ p.type = "ExceptionRequested" => p.with.id # None

\* Every reference the event type needs is a string that is not empty.
validate_payload_schema(p) ==
    /\ p.type \in ALL_EVENT_TYPES
    /\ p.about # None
    /\ p.type \in {"ExceptionRequested", "ApprovalRecorded", "ActionProposed"} => p.with # None
    /\ p.type = "PolicyEvaluated" => HasPolicy(p.about)
    /\ p.type = "ExceptionRequested" => HasPolicy(p.with)

\* What is read back of payload_json: the keys of a JSON object are strings.
json_round_trip(p) == [p EXCEPT !.keys = "strings"]

\* The hash of the canonical JSON, which sorts numbers as numbers: as good as the payload.
compute_payload_hash(p) == p

-----------------------------------------------------------------------------
(***************************************************************************)
(* Emission, on payloads that passed the validation: the emitter's         *)
(* fallbacks for absent references are then out of use.  Rows of one event *)
(* with the same id are the same row, so that their order does not matter. *)
(***************************************************************************)
make_node_id(kind, reference) == <<kind, reference>>

TraceNode(e) == make_node_id("trace", e.trace)

NodeRow(id, e) == [id |-> id, trace |-> e.trace, log_seq |-> e.log_seq]

EdgeRow(type, from, to, e) ==
    [type |-> type, from |-> from, to |-> to, trace |-> e.trace, log_seq |-> e.log_seq]

Emission(nodes, edges) == [nodes |-> nodes, edges |-> edges]

\* A node the event introduces, and an edge from its trace to that node.
EmitFromTrace(e, edgeType, kind) ==
    LET id == make_node_id(kind, e.about)
    IN  Emission({NodeRow(id, e)}, {EdgeRow(edgeType, TraceNode(e), id, e)})

emit_trace_started(e) ==
    LET involves == EmitFromTrace(e, "trace_involves_entity", "entity")
    IN  Emission({NodeRow(TraceNode(e), e), NodeRow(make_node_id("actor", e.with), e)}
                    \cup involves.nodes,
                 involves.edges)

emit_input_observed(e) == EmitFromTrace(e, "trace_observed_input", "input")

emit_entity_observed(e) == EmitFromTrace(e, "trace_involves_entity", "entity")

emit_policy_evaluated(e) == EmitFromTrace(e, "trace_evaluated_policy", "policy")

emit_exception_requested(e) == EmitFromTrace(e, "trace_requested_exception", "exception")

\* The subject of an approval is a node; only an exception gets an edge.
emit_approval_recorded(e) ==
    LET approver == make_node_id("actor", e.with)
    IN  Emission({NodeRow(approver, e)},
                 IF e.about[1] = "exception"
                 THEN {EdgeRow("exception_approved_by", e.about, approver, e)} ELSE {})

\* The cited trace is left to its own TraceStarted.
emit_precedent_cited(e) ==
    Emission({}, {EdgeRow("trace_cited_precedent", TraceNode(e),
                          make_node_id("trace", e.about), e)})

emit_action_proposed(e) ==
    LET proposed == EmitFromTrace(e, "trace_proposed_action", "action")
    IN  Emission(proposed.nodes,
                 proposed.edges \cup
                    {EdgeRow("action_targets_entity", make_node_id("action", e.about),
                             make_node_id("entity", e.with), e)})

emit_action_committed(e) ==
    Emission({}, {EdgeRow("trace_committed_action", TraceNode(e),
                          make_node_id("action", e.about), e)})

emit_trace_finished(e) == Emission({}, {})

emit(e) ==
    CASE e.type = "TraceStarted"       -> emit_trace_started(e)
      [] e.type = "InputObserved"      -> emit_input_observed(e)
      [] e.type = "EntityObserved"     -> emit_entity_observed(e)
      [] e.type = "PolicyEvaluated"    -> emit_policy_evaluated(e)
      [] e.type = "ExceptionRequested" -> emit_exception_requested(e)
      [] e.type = "ApprovalRecorded"   -> emit_approval_recorded(e)
      [] e.type = "PrecedentCited"     -> emit_precedent_cited(e)
      [] e.type = "ActionProposed"     -> emit_action_proposed(e)
      [] e.type = "ActionCommitted"    -> emit_action_committed(e)
      [] e.type = "TraceFinished"      -> emit_trace_finished(e)

-----------------------------------------------------------------------------
(***************************************************************************)
(* The tables.  cursor is the row of dg_projection_meta, 0 if absent.      *)
(***************************************************************************)
EmptyTables == [nodes |-> {}, edges |-> {}, summaries |-> {}, policies |-> {},
                precedents |-> {}, cursor |-> 0]

\* INSERT OR IGNORE
insert_nodes(db, rows) ==
    [db EXCEPT !.nodes = @ \cup {row \in rows : \A n \in db.nodes : n.id # row.id}]

\* A node without attributes, for one no event has introduced.
Placeholder(id, e) == [NodeRow(id, e) EXCEPT !.trace = IF id[1] = "trace" THEN id[2] ELSE @]

Ends(edges) == UNION {{edge.from, edge.to} : edge \in edges}

ensure_nodes_exist(db, edges, e) == insert_nodes(db, {Placeholder(id, e) : id \in Ends(edges)})

insert_edges(db, edges, e) == [ensure_nodes_exist(db, edges, e) EXCEPT !.edges = @ \cup edges]

\* event_count counts these two event types only.
on_trace_started(db, e) ==
    IF \E s \in db.summaries : s.trace = e.trace
    THEN [db EXCEPT !.summaries =
             {IF s.trace = e.trace THEN [s EXCEPT !.event_count = @ + 1, !.last_log_seq = e.log_seq]
              ELSE s : s \in @}]
    ELSE [db EXCEPT !.summaries =
             @ \cup {[trace |-> e.trace, entity |-> e.about, outcome |-> None,
                      event_count |-> 1, last_log_seq |-> e.log_seq]}]

on_policy_evaluated(db, e) ==
    [db EXCEPT !.policies =
        @ \cup {[trace |-> e.trace, policy |-> e.about, log_seq |-> e.log_seq]}]

\* One entry per policy evaluation and exception request of the trace.
PrecedentRow(e, entity) ==
    [trace |-> e.trace, log_seq |-> e.log_seq, entity |-> entity,
     policy |-> IF e.type = "PolicyEvaluated" THEN e.about ELSE e.with,
     exception |-> IF e.type = "PolicyEvaluated" THEN None ELSE e.about]

\* events are all of the trace's in the log.
PrimaryEntity(events) == (CHOOSE e \in events : e.type = "TraceStarted").about

build_precedent_index(db, trace, events) ==
    [db EXCEPT !.precedents =
        {r \in @ : r.trace # trace}
          \cup {PrecedentRow(e, PrimaryEntity(events)) :
            e \in {f \in events : f.type \in {"PolicyEvaluated", "ExceptionRequested"}}}]

finished_summary(s, e) ==
    [s EXCEPT !.outcome = e.about, !.event_count = @ + 1, !.last_log_seq = e.log_seq]

on_trace_finished(db, e, events) ==
    build_precedent_index(
        [db EXCEPT !.summaries = {IF s.trace = e.trace THEN finished_summary(s, e) ELSE s : s \in @}],
        e.trace, events)

-----------------------------------------------------------------------------
(***************************************************************************)
(* The digests: canonical JSON of the rows in the order of their keys,     *)
(* hashed.  Two are equal when the sets of rows are.                       *)
(***************************************************************************)
context_graph_digest(db) == <<db.nodes, db.edges>>
trace_summary_digest(db) == db.summaries
precedent_index_digest(db) == db.precedents

full_projection_digest(db) ==
    <<context_graph_digest(db), trace_summary_digest(db), precedent_index_digest(db)>>
=============================================================================
