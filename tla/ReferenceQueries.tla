-------------------------- MODULE ReferenceQueries --------------------------
(***************************************************************************)
(* The queries of the Python package over the projections of               *)
(* ReferenceGraph: the bounded traversal around a node, the pages of a     *)
(* node's edges, and the precedents.                                       *)
(*                                                                         *)
(* A query belongs to the process that projects and runs between its       *)
(* calls.  It raises PROJECTION_OUT_OF_DATE when the log is ahead of the   *)
(* projector's cursor; an append of another process right after that check *)
(* changes no projection, so check and query are one step.                 *)
(***************************************************************************)
EXTENDS ReferenceGraph

CONSTANTS
    EdgeIdBefore(_, _), \* the order of the strings that make_edge_id builds
    GraphQueries,       \* what get_context_subgraph is asked
    EdgeQueries,        \* what list_node_edges is asked, page by page
    PrecedentQueries    \* what find_precedents is asked

\* The edges a log can lead to.
Payloads(t) == {p \in UNION {Range(s) : s \in Scripts[t]} : validate_payload_schema(p)}

EventRows(t) ==
    {[log_seq |-> n, trace |-> t, type |-> p.type, about |-> p.about, with |-> p.with] :
        n \in 1 .. MaxLogSeq, p \in Payloads(t)}

EdgeRows == UNION {UNION {emit(e).edges : e \in EventRows(t)} : t \in Trace}

\* Of two different edges one has the lesser edge_id, and limits are positive.
ASSUME QueryAssumption ==
    /\ \A e, f \in EdgeRows :
           /\ EdgeIdBefore(e, f) <=> e # f /\ ~EdgeIdBefore(f, e)
           /\ EdgeIdBefore(e, f) => \A g \in EdgeRows : EdgeIdBefore(f, g) => EdgeIdBefore(e, g)
    /\ None \notin EdgeRows
    /\ \A q \in GraphQueries : /\ q.max_depth \in Nat
                                /\ q.max_nodes \in Nat \ {0} /\ q.max_edges \in Nat \ {0}
    /\ \A q \in EdgeQueries \cup PrecedentQueries : q.limit \in Nat \ {0}

VARIABLES
    reading,    \* a caller going through the pages of a node's edges
    astray      \* whether one of his pages was read from tables out of step

NotReading == [query |-> None, after |-> None, edges |-> << >>]

is_stale == memory.cursor < get_last_log_seq

Answers == Idle /\ ~is_stale

\* ORDER BY
OrderBy(rows, before(_, _)) ==
    [i \in 1 .. Cardinality(rows) |->
        CHOOSE r \in rows : Cardinality({s \in rows : before(s, r)}) = i - 1]

-----------------------------------------------------------------------------
(***************************************************************************)
(* get_context_subgraph: a breadth-first walk w, whose edges come in the   *)
(* order of edge_id.  An empty set of types is no filter.                  *)
(***************************************************************************)
Passes(types, type) == types = {} \/ type \in types

visit_node(q, w, id) ==
    CASE w.truncated \/ id \in w.nodes \/ ~Passes(q.node_types, id[1]) -> w
      [] OTHER -> IF Cardinality(w.nodes) >= q.max_nodes
                  THEN [w EXCEPT !.truncated = TRUE]
                  ELSE [w EXCEPT !.nodes = @ \cup {id}, !.next = @ \cup {id}]

\* Mutant: an edge already visited counts against the limit.
visit_edge_again(q, w, edge) ==
    CASE w.truncated -> w
      [] OTHER -> IF Cardinality(w.edges) >= q.max_edges
                  THEN [w EXCEPT !.truncated = TRUE]
                  ELSE visit_node(q, visit_node(q, [w EXCEPT !.edges = @ \cup {edge}], edge.from),
                                  edge.to)

visit_edge(q, w, edge) ==
    CASE w.truncated \/ edge \in w.edges -> w
      [] OTHER -> IF Cardinality(w.edges) >= q.max_edges
                  THEN [w EXCEPT !.truncated = TRUE]
                  ELSE visit_node(q, visit_node(q, [w EXCEPT !.edges = @ \cup {edge}], edge.from),
                                  edge.to)

visit_edges(q, w, edges) ==
    LET visited[n \in 0 .. Len(edges)] ==
            IF n = 0 THEN w ELSE visit_edge(q, visited[n - 1], edges[n])
    IN  visited[Len(edges)]

Incident(q, ids) ==
    {e \in db.edges : {e.from, e.to} \cap ids # {} /\ Passes(q.edge_types, e.type)}

visit_frontier(q, w) ==
    IF w.truncated THEN w
    ELSE visit_edges(q, [w EXCEPT !.next = {}], OrderBy(Incident(q, w.next), EdgeIdBefore))

walk_from_center(q) ==
    LET walk[depth \in 0 .. q.max_depth] ==
            IF depth = 0
            THEN [nodes |-> {q.center}, edges |-> {}, next |-> {q.center}, truncated |-> FALSE]
            ELSE visit_frontier(q, walk[depth - 1])
    IN  walk[q.max_depth]

get_context_subgraph(q) ==
    LET walk == walk_from_center(q)
    IN  [nodes |-> {n \in db.nodes : n.id \in walk.nodes}, edges |-> walk.edges,
         truncated |-> walk.truncated]

-----------------------------------------------------------------------------
(***************************************************************************)
(* list_node_edges: after is the last edge of the page before, which holds *)
(* the log_seq and edge_id of the cursor.                                  *)
(***************************************************************************)
Touches(edge, q) ==
    \/ q.direction # "incoming" /\ edge.from = q.node
    \/ q.direction # "outgoing" /\ edge.to = q.node

edge_before(e, f) == e.log_seq < f.log_seq \/ (e.log_seq = f.log_seq /\ EdgeIdBefore(e, f))

\* Mutant: the cursor is the log_seq alone.
log_seq_past(cursor, e) == e.log_seq > cursor.log_seq

past_cursor(cursor, e) ==
    e.log_seq > cursor.log_seq \/ (e.log_seq = cursor.log_seq /\ EdgeIdBefore(cursor, e))

list_node_edges(q, after) ==
    LET rows == OrderBy({e \in db.edges : /\ Touches(e, q)
                                          /\ after = None \/ past_cursor(after, e)},
                        edge_before)
        page == SubSeq(rows, 1, Min({q.limit, Len(rows)}))
    IN  [edges |-> page, next_cursor |-> IF Len(rows) > q.limit THEN Last(page) ELSE None]

StartReading(q) ==
    /\ reading = NotReading
    /\ reading' = [NotReading EXCEPT !.query = q]
    /\ UNCHANGED <<vars, astray>>

ReadPage ==
    /\ reading # NotReading
    /\ Answers
    /\ LET page == list_node_edges(reading.query, reading.after)
       IN  /\ reading' = IF page.next_cursor = None THEN NotReading
                         ELSE [reading EXCEPT !.after = page.next_cursor, !.edges = @ \o page.edges]
           /\ astray' = (page.next_cursor # None /\ (astray \/ ~InStep))
    /\ UNCHANGED vars

-----------------------------------------------------------------------------
(***************************************************************************)
(* find_precedents, on the summaries and the precedent index.              *)
(***************************************************************************)
PolicyMatches(q, policy) ==
    policy.id = q.policy_id /\ (q.policy_version = None \/ policy.version = q.policy_version)

SummaryMatches(q, s) ==
    /\ s.outcome # None
    /\ q.outcome \in {None, s.outcome}
    /\ q.entity \in {None, s.entity}

\* Mutant: the latest entry comes first, exception or not.
outranks_by_age(r, s) == r.log_seq > s.log_seq

\* Within a trace exceptions come first, and the latest of them.
outranks(r, s) ==
    \/ r.exception # None /\ s.exception = None
    \/ (r.exception = None <=> s.exception = None) /\ r.log_seq > s.log_seq

PolicyRows(q, t) == {r \in db.precedents : r.trace = t /\ PolicyMatches(q, r.policy)}

BestRow(q, t) == CHOOSE r \in PolicyRows(q, t) : \A s \in PolicyRows(q, t) \ {r} : outranks(r, s)

find_precedents(q) ==
    LET found == {s \in db.summaries :
                     SummaryMatches(q, s) /\ (q.policy_id = None \/ PolicyRows(q, s.trace) # {})}
        recent == OrderBy(found, LAMBDA r, s : r.last_log_seq > s.last_log_seq)
        hit(s) == [trace |-> s.trace,
                   policy |-> IF q.policy_id = None THEN None ELSE BestRow(q, s.trace).policy]
    IN  [i \in 1 .. Min({q.limit, Len(recent)}) |-> hit(recent[i])]

-----------------------------------------------------------------------------
QueryInit == Init /\ reading = NotReading /\ astray = FALSE

QueryNext ==
    \/ Next /\ UNCHANGED <<reading, astray>>
    \/ \E q \in EdgeQueries : StartReading(q)
    \/ ReadPage

queryVars == <<vars, reading, astray>>

QuerySpec == QueryInit /\ [][QueryNext]_queryVars

-----------------------------------------------------------------------------
(***************************************************************************)
(* A subgraph that is not truncated is all there is, in the whole log,     *)
(* within max_depth of the center; one that is truncated lacks something;  *)
(* and the limits are kept.  (Of this and what follows a rebuild that      *)
(* failed is excepted, until the tables are in step again.)                *)
(***************************************************************************)
EdgesWithin(q) == {e \in EdgesUpTo(Len(log)) : Passes(q.edge_types, e.type)}

\* The edges at some nodes, and those nodes with the ones at the other ends.
EdgesAt(q, ids) == {e \in EdgesWithin(q) : {e.from, e.to} \cap ids # {}}

WithNeighbours(q, ids) ==
    ids \cup {id \in UNION {{e.from, e.to} : e \in EdgesAt(q, ids)} : Passes(q.node_types, id[1])}

Near(q) ==
    LET near[d \in 0 .. q.max_depth] ==
            IF d = 0 THEN {q.center} ELSE WithNeighbours(q, near[d - 1])
    IN  near

SubgraphIsTruthful ==
    Answers /\ InStep => \A q \in GraphQueries :
        LET found == get_context_subgraph(q)
            nodes == {n \in NodesUpTo(Len(log)) : n.id \in Near(q)[q.max_depth]}
            edges == IF q.max_depth = 0 THEN {} ELSE EdgesAt(q, Near(q)[q.max_depth - 1])
        IN  /\ found.nodes \subseteq nodes /\ Cardinality(found.nodes) <= q.max_nodes
            /\ found.edges \subseteq edges /\ Cardinality(found.edges) <= q.max_edges
            /\ found.truncated <=> found.nodes # nodes \/ found.edges # edges

(***************************************************************************)
(* Whoever reads a node's edges page by page has, with the last page, read *)
(* each edge once and in order, those included that were appended and      *)
(* replayed while he was reading.                                          *)
(***************************************************************************)
PagesAreComplete ==
    reading # NotReading /\ Answers /\ InStep /\ ~astray =>
        LET q == reading.query
            page == list_node_edges(q, reading.after)
        IN  page.next_cursor = None =>
                reading.edges \o page.edges =
                    OrderBy({e \in EdgesUpTo(Len(log)) : Touches(e, q)},
                            LAMBDA e, f : \/ e.log_seq < f.log_seq
                                          \/ e.log_seq = f.log_seq /\ EdgeIdBefore(e, f))

(***************************************************************************)
(* The uses of a policy in a trace, and what is a precedent in the log.    *)
(***************************************************************************)
Uses(q, t, type) ==
    {i \in 1 .. Len(log) :
        /\ log[i].trace = t /\ log[i].type = type
        /\ PolicyMatches(q, IF type = "PolicyEvaluated" THEN log[i].about ELSE log[i].with)}

Matching(q) ==
    {i \in 1 .. Len(log) :
        /\ log[i].type = "TraceFinished"
        /\ q.outcome \in {None, log[i].about}
        /\ q.entity = None \/ q.entity = PrimaryEntity(get_trace_events(log[i].trace))
        /\ \/ q.policy_id = None
           \/ Uses(q, log[i].trace, "PolicyEvaluated") # {}
           \/ Uses(q, log[i].trace, "ExceptionRequested") # {}}

PolicyOf(q, t) ==
    CASE q.policy_id = None -> None
      [] q.policy_id # None /\ Uses(q, t, "ExceptionRequested") # {} ->
            log[Max(Uses(q, t, "ExceptionRequested"))].with
      [] OTHER -> log[Max(Uses(q, t, "PolicyEvaluated"))].about

(***************************************************************************)
(* The precedents are the finished traces of the log that match, the one   *)
(* finished last first, each once, with the policy of its last matching    *)
(* exception or, without one, of its last matching evaluation.             *)
(***************************************************************************)
PrecedentsMatchLog ==
    Answers /\ InStep => \A q \in PrecedentQueries :
        LET hits == find_precedents(q)
        IN  /\ Len(hits) = Min({q.limit, Cardinality(Matching(q))})
            /\ \A n \in 1 .. Len(hits) :
                   \E i \in Matching(q) :
                       /\ Cardinality({j \in Matching(q) : j > i}) = n - 1
                       /\ hits[n] = [trace |-> log[i].trace, policy |-> PolicyOf(q, log[i].trace)]
=============================================================================
