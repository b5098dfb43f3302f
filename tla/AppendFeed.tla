----------------------------- MODULE AppendFeed -----------------------------
(***************************************************************************)
(* The event log as the projectors see it: rows get their log_seq when     *)
(* they are inserted and become visible when their transaction commits,    *)
(* so that two traces may commit in the other order.  DecisionGraph.Store  *)
(* (module EventStore) implements this specification; the projections      *)
(* read from it.                                                           *)
(***************************************************************************)
EXTENDS EventLog

VARIABLES
    nextLogSeq, \* the next value of dg_event_log_log_seq_seq
    inserted    \* the rows of running transactions, visible to nobody else

feedVars == <<log, nextLogSeq, inserted>>

InitFeed == log = {} /\ nextLogSeq = 1 /\ inserted = {}

\* The trace's lock keeps a second transaction from inserting into the trace.
InsertRow(e) ==
    /\ Follows(e)
    /\ \A s \in inserted : s.event.trace # e.trace
    /\ inserted' = inserted \cup {Stored(nextLogSeq, e)}
    /\ nextLogSeq' = nextLogSeq + 1
    /\ UNCHANGED log

CommitRow(s) ==
    /\ \A r \in log : r.event.key # s.event.key /\ r.event.id # s.event.id
    /\ log' = log \cup {s}
    /\ inserted' = inserted \ {s}
    /\ UNCHANGED nextLogSeq

\* The log_seq is not given out again.
RollbackRow(s) ==
    /\ inserted' = inserted \ {s}
    /\ UNCHANGED <<log, nextLogSeq>>

NextFeed ==
    \/ \E e \in Envelope : InsertRow(e)
    \/ \E s \in inserted : CommitRow(s) \/ RollbackRow(s)

SpecFeed == InitFeed /\ [][NextFeed]_feedVars
=============================================================================
