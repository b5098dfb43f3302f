---------------------------- MODULE DecisionLog ----------------------------
(***************************************************************************)
(* What an append-only decision log promises to its callers, whatever      *)
(* locks, constraints and retries a backend uses to keep the promise.      *)
(*                                                                         *)
(* An append takes effect in one step, and every answer is justified by    *)
(* the log at the moment it is given.  DecisionGraph.Store (module         *)
(* EventStore) implements this specification.                              *)
(***************************************************************************)
EXTENDS EventLog

CONSTANTS
    Writer,     \* the callers of append_event
    NoEvent     \* no envelope yet, or no stored event in the answer

VARIABLES
    request,    \* the envelope each caller last submitted
    answer      \* what append_event last told each caller

dlVars == <<log, request, answer>>

(***************************************************************************)
(* "idle" is a caller that has not called, "none" a call that has not been *)
(* answered, "storage" an answer that leaves the caller uncertain: the     *)
(* connection was lost, before or after the commit.                        *)
(***************************************************************************)
AnswerKind == {"idle", "none", "inserted", "reused", "idempotency_conflict",
               "event_sequence_invalid", "conflict", "storage"}

Answer == [kind : AnswerKind, event : StoredEvent \cup {NoEvent}]

Reply(kind) == [kind |-> kind, event |-> NoEvent]

ReplyWith(kind, s) == [kind |-> kind, event |-> s]

-----------------------------------------------------------------------------
(***************************************************************************)
(* Which answers the log justifies for envelope e.                         *)
(***************************************************************************)
JustifiedReuse(e, a) ==
    \E s \in StoredUnder(e.key) : MatchesStored(e, s) /\ a = ReplyWith("reused", s)

JustifiedError(e, kind) ==
    CASE kind = "idempotency_conflict" ->
            \E s \in StoredUnder(e.key) : ~MatchesStored(e, s)
      [] kind = "event_sequence_invalid" ->
            ~ValidSequence(e)
      [] kind = "conflict" ->
            TraceIsFinished(e.trace) \/ \E s \in log : s.event.id = e.id
      [] kind = "storage" -> TRUE
      [] OTHER -> FALSE

Justified(e, a) == JustifiedReuse(e, a) \/ (JustifiedError(e, a.kind) /\ a = Reply(a.kind))

\* Neither the key nor the id of e is in the log.
Unused(e) == \A s \in log : s.event.key # e.key /\ s.event.id # e.id

\* e may become the next event of its trace.
Acceptable(e) == Follows(e) /\ Unused(e)

-----------------------------------------------------------------------------
Init == /\ log = {}
        /\ request = [w \in Writer |-> NoEvent]
        /\ answer = [w \in Writer |-> Reply("idle")]

\* A caller submits envelope e.
Submit(w, e) == /\ request' = [request EXCEPT ![w] = e]
                /\ answer' = [answer EXCEPT ![w] = Reply("none")]
                /\ UNCHANGED log

\* The event becomes part of the log; the acknowledgement may get lost.
Insert(w) ==
    /\ \E s \in log' :
          /\ s \in StoredEvent /\ s.event = request[w]
          /\ \A r \in log : r.log_seq # s.log_seq
          /\ log' = log \cup {s}
          /\ answer'[w] \in {ReplyWith("inserted", s), Reply("storage")}
    /\ answer' = [answer EXCEPT ![w] = answer'[w]]
    /\ UNCHANGED request

Accept(w) ==
    /\ answer[w] = Reply("none")
    /\ Acceptable(request[w])
    /\ Insert(w)

\* The call ends and the log is as it was.
Respond(w) ==
    /\ answer[w] = Reply("none")
    /\ Justified(request[w], answer'[w])
    /\ answer' = [answer EXCEPT ![w] = answer'[w]]
    /\ UNCHANGED <<log, request>>

Next == \E w \in Writer : (\E e \in Envelope : Submit(w, e)) \/ Accept(w) \/ Respond(w)

Spec == Init /\ [][Next]_dlVars
=============================================================================
