------------------------- MODULE MCReferenceQueries -------------------------
(***************************************************************************)
(* ReferenceQueries on two traces: one evaluates a policy and asks for an  *)
(* exception, the other cites it, evaluates the same policy, or proposes   *)
(* and commits an action.  Payloads without a policy version are offered,  *)
(* and one that is read back in another order than it was hashed in.       *)
(***************************************************************************)
EXTENDS ReferenceQueries

CONSTANTS t1, t2, e1, e2, a1, a2, i1, refund, v1, v2, x1, c1, yes, no

MCTrace == {t1, t2}

MCScripts ==
    [t \in MCTrace |->
        LET start == start_trace(e1, IF t = t1 THEN a1 ELSE a2)
        IN  IF t = t1
            THEN { <<start, request_exception(x1, Policy(refund, v2)), evaluate_policy(Policy(refund, v1)),
                     finish_trace(yes)>>,
                   <<start, request_exception(x1, Policy(refund, v2)),
                     record_approval(make_node_id("exception", x1), a2)>>,
                   <<start, observe_entity(e2), evaluate_policy(Policy(refund, None))>>,
                   <<start, observe_input(i1), request_exception(x1, Policy(refund, None))>> }
            ELSE { <<start, finish_trace(no)>>,
                   <<start, propose_action(c1, e2), commit_action(c1)>>,
                   <<start, cite_precedent(t1), NumberedKeys(observe_input(i1))>> }]

References == <<None, t1, t2, a1, a2, c1, e1, e2, i1, refund, v1, v2, x1>>

EdgeTypes == <<"action_targets_entity", "exception_approved_by", "trace_cited_precedent",
               "trace_committed_action", "trace_evaluated_policy", "trace_involves_entity",
               "trace_observed_input", "trace_proposed_action", "trace_requested_exception">>

PositionIn(s) == [x \in Range(s) |-> CHOOSE i \in DOMAIN s : s[i] = x]

ReferenceRank == PositionIn(References)
EdgeTypeRank == PositionIn(EdgeTypes)

NodeRank(id) ==
    IF id[1] = "policy" THEN 100 * ReferenceRank[id[2].id] + ReferenceRank[id[2].version]
    ELSE 100 * ReferenceRank[id[2]]

EdgeKey(e) == <<EdgeTypeRank[e.type], NodeRank(e.from), NodeRank(e.to), e.log_seq>>

MCEdgeIdBefore(e, f) ==
    \E i \in 1 .. 4 : /\ EdgeKey(e)[i] < EdgeKey(f)[i]
                      /\ \A j \in 1 .. i - 1 : EdgeKey(e)[j] = EdgeKey(f)[j]

Subgraph(center, depth, edge_types, node_types, nodes, edges) ==
    [center |-> center, max_depth |-> depth, edge_types |-> edge_types,
     node_types |-> node_types, max_nodes |-> nodes, max_edges |-> edges]

MCGraphQueries ==
    { Subgraph(<<"trace", t1>>, 3, {}, {}, 20, 20),
      Subgraph(<<"trace", t1>>, 2, {}, {}, 20, 3),
      Subgraph(<<"entity", e1>>, 2, {}, {}, 4, 20),
      Subgraph(<<"entity", e1>>, 3, {}, {"trace", "action"}, 4, 5),
      Subgraph(<<"action", c1>>, 2, {"trace_proposed_action", "trace_involves_entity"}, {}, 20, 2),
      Subgraph(<<"entity", e2>>, 0, {}, {}, 1, 1) }

EdgeQuery(node, direction, limit) == [node |-> node, direction |-> direction, limit |-> limit]

MCEdgeQueries == { EdgeQuery(<<"action", c1>>, "both", 1) }

Precedents(policy_id, policy_version, entity, outcome, limit) ==
    [policy_id |-> policy_id, policy_version |-> policy_version, entity |-> entity,
     outcome |-> outcome, limit |-> limit]

MCPrecedentQueries == { Precedents(refund, None, None, None, 2), Precedents(refund, v1, e1, None, 1),
                        Precedents(None, None, e1, None, 1), Precedents(None, None, None, no, 2) }
=============================================================================
