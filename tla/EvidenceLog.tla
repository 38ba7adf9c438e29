---------------------------- MODULE EvidenceLog ----------------------------
(***************************************************************************)
(* What an evidence accumulator promises its callers, whatever its threads *)
(* do: one run's events, each accepted once, at the end, only after it was *)
(* made durable, up to a limit, until the run is closed for good with a    *)
(* completeness the caller asserts.                                        *)
(***************************************************************************)
EXTENDS Naturals, Sequences

CONSTANTS
    Acceptable,   \* the events that may enter the log, with their event_id
    MaxEvents,    \* the most events a run may hold
    Durable       \* TRUE when acceptance needs a durable acknowledgement

VARIABLES
    log,          \* the accepted events, in acceptance order
    durable,      \* ids of the events a durable store holds
    sealed,       \* the run is closed
    completeness  \* the caller's assertion about the closed run

logVars == <<log, durable, sealed, completeness>>

Accepted == {log[i].event_id : i \in 1..Len(log)}

LogInit ==
    /\ log = << >>
    /\ durable = {}
    /\ sealed = FALSE
    /\ completeness = "unknown"

Persist(e) ==
    /\ Durable
    /\ ~sealed
    /\ e.event_id \notin Accepted
    /\ Len(log) < MaxEvents
    /\ durable' = durable \cup {e.event_id}
    /\ UNCHANGED <<log, sealed, completeness>>

Accept(e) ==
    /\ ~sealed
    /\ e.event_id \notin Accepted
    /\ Len(log) < MaxEvents
    /\ Durable => e.event_id \in durable
    /\ log' = Append(log, e)
    /\ UNCHANGED <<durable, sealed, completeness>>

Seal(c) ==
    /\ ~sealed
    /\ sealed' = TRUE
    /\ completeness' = c
    /\ UNCHANGED <<log, durable>>

LogNext ==
    \/ \E e \in Acceptable : Persist(e) \/ Accept(e)
    \/ \E c \in {"complete", "incomplete", "unknown"} : Seal(c)

LogSpec == LogInit /\ [][LogNext]_logVars
=============================================================================
