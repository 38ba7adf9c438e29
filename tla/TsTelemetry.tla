---------------------------- MODULE TsTelemetry ----------------------------
(***************************************************************************)
(* The TypeScript SDK's client and accumulator (client.ts, evidence.ts).   *)
(* One thread, and every call is synchronous: what can come between two    *)
(* steps of a call is the host's own code, which emit and append call out  *)
(* to (the span resolver, the durable callback, the three projections) and *)
(* which may call in again.  The calls in progress form a stack; code of   *)
(* the host runs on top of it, or below everything when it is empty.  What *)
(* the SDK does until it calls out again is one step.  There is a durable  *)
(* callback: without one append calls nobody and is one step.              *)
(***************************************************************************)
EXTENDS Naturals, Sequences, SequencesExt

CONSTANTS
    Documents,   \* events: event_id, valid (for the schema), chainable (of
                 \*   this run, with a canonical form)
    MaxEvents,   \* options.maxEvents
    MaxDepth     \* bound: calls in progress at once

ASSUME LimitsAssumption == MaxEvents \in Nat \ {0} /\ MaxDepth \in Nat \ {0}

EventIds == {e.event_id : e \in Documents}

ASSUME DocumentsAssumption ==
    Documents \subseteq [event_id : EventIds, valid : BOOLEAN, chainable : BOOLEAN]

VARIABLES
    log,                 \* the events of #entries
    durable,             \* ids of the events the callback's store holds
    sealed, completeness,
    mutating,            \* #mutating
    stack,               \* calls in progress: each an emit or an append, the
                         \*   event it has, and where it called out
    projected            \* the channels each event id reached

vars == <<log, durable, sealed, completeness, mutating, stack, projected>>

Evidence == INSTANCE EvidenceLog WITH
    Acceptable <- {e \in Documents : e.valid /\ e.chainable}, Durable <- TRUE

Init ==
    /\ Evidence!LogInit
    /\ mutating = FALSE
    /\ stack = << >>
    /\ projected = {}

Top == Last(stack)
TopAt(place) == stack # << >> /\ Top.at = place

Moved(frames, place) == [frames EXCEPT ![Len(frames)].at = place]

-----------------------------------------------------------------------------
\* What becomes of the caller of an append that returns, or throws: an emit goes
\* on to its projections or throws itself, the host's code just goes on.
Returned(frames) ==
    IF frames # << >> /\ Last(frames).at = "append"
    THEN Moved(frames, "span") ELSE frames

\* Mutant of Thrown: emit catches it.
ThrownToNobody(frames) == Returned(frames)

Thrown(frames) ==
    IF frames # << >> /\ Last(frames).at = "append"
    THEN Front(frames) ELSE frames

\* Mutant of Admitted: the event emit has validated is not validated again.
AdmittedUnvalidated(e) ==
    /\ e.chainable
    /\ ~mutating
    /\ ~sealed
    /\ e.event_id \notin Evidence!Accepted
    /\ Len(log) < MaxEvents

\* append does not throw before it calls the callback.
Admitted(e) ==
    /\ e.valid /\ e.chainable
    /\ ~mutating
    /\ ~sealed
    /\ e.event_id \notin Evidence!Accepted
    /\ Len(log) < MaxEvents

\* append, up to the callback or to its end, called with these frames below.
\* The frame keeps a copy of the event, and the position drafted for it.
append(e, frames) ==
    \/ /\ Admitted(e)
       /\ stack' = Append(frames, [at |-> "callback", event |-> e,
                                   position |-> Len(log)])
       /\ mutating' = TRUE
       /\ UNCHANGED log
    \/ /\ ~Admitted(e)
       /\ stack' = Thrown(frames)
       /\ UNCHANGED <<log, mutating>>

\* Mutant of CallAppend: a reentrant call clears the flag on its way out.
CallAppendClearing(e) ==
    /\ Len(stack) < MaxDepth
    /\ \/ Admitted(e) /\ append(e, stack)
       \/ ~Admitted(e) /\ mutating' = FALSE /\ UNCHANGED <<log, stack>>
    /\ UNCHANGED <<durable, sealed, completeness, projected>>

\* The host's code calls append.
CallAppend(e) ==
    /\ Len(stack) < MaxDepth
    /\ append(e, stack)
    /\ UNCHANGED <<durable, sealed, completeness, projected>>

\* The callback writes the entry, and answers: true, or anything else.
StoreWrites ==
    /\ TopAt("callback")
    /\ durable' = durable \cup {Top.event.event_id}
    /\ UNCHANGED <<log, sealed, completeness, mutating, stack, projected>>

CallbackReturns ==
    /\ TopAt("callback")
    /\ mutating' = FALSE
    /\ \/ /\ Top.event.event_id \in durable
          /\ log' = Append(log, Top.event)
          /\ stack' = Returned(Front(stack))
       \/ /\ stack' = Thrown(Front(stack))
          /\ UNCHANGED log
    /\ UNCHANGED <<durable, sealed, completeness, projected>>

\* The host's code calls seal, with a completeness seal knows.
CallSeal(c) ==
    /\ ~mutating
    /\ Evidence!Seal(c)
    /\ UNCHANGED <<mutating, stack, projected>>

-----------------------------------------------------------------------------
\* The host's code calls emit, which validates the event and calls the resolver.
CallEmit(e) ==
    /\ Len(stack) < MaxDepth - 1
    /\ e.valid
    /\ stack' = Append(stack, [at |-> "resolver", event |-> e, position |-> 0])
    /\ UNCHANGED <<log, durable, sealed, completeness, mutating, projected>>

\* The resolver throws or answers with a span whose ids disagree, or emit goes on
\* to append.
ResolverReturns ==
    /\ TopAt("resolver")
    /\ \/ stack' = Front(stack) /\ UNCHANGED <<log, mutating>>
       \/ append(Top.event, Moved(stack, "append"))
    /\ UNCHANGED <<durable, sealed, completeness, projected>>

After == [span |-> "log", log |-> "metric"]

\* A projection succeeds, or fails and is noted; a span that is not there is
\* passed over.
ProjectionReturns ==
    /\ stack # << >> /\ Top.at \in {"span", "log", "metric"}
    /\ projected' \in {projected, projected \cup {<<Top.at, Top.event.event_id>>}}
    /\ stack' = IF Top.at = "metric" THEN Front(stack)
                ELSE Moved(stack, After[Top.at])
    /\ UNCHANGED <<log, durable, sealed, completeness, mutating>>

\* The host's code changes an event it has given to an emit in progress.
ChangeEvent ==
    \E i \in 1..Len(stack) :
        /\ stack[i].at # "callback"
        /\ stack' = [stack EXCEPT ![i].event.valid = FALSE]
        /\ UNCHANGED <<log, durable, sealed, completeness, mutating, projected>>

Next ==
    \/ \E e \in Documents : CallAppend(e) \/ CallEmit(e)
    \/ \E c \in {"complete", "incomplete", "unknown"} : CallSeal(c)
    \/ StoreWrites \/ CallbackReturns \/ ResolverReturns \/ ProjectionReturns
    \/ ChangeEvent

Spec == Init /\ [][Next]_vars

-----------------------------------------------------------------------------
\* The accumulator promises what the Python one does, whatever the host's code
\* calls from where: each event once, valid, after it was made durable, none
\* after the seal (evidence.ts:48-83).
ImplementsEvidenceLog == Evidence!LogSpec

\* At most one append waits for its callback, exactly while #mutating is set, and
\* the position and previous digest it drafted are still the next ones of the
\* chain when it returns, whatever ran in between (evidence.ts:52-73).
DraftIsNextEntry ==
    LET appends == {i \in 1..Len(stack) : stack[i].at = "callback"}
    IN  /\ \A i, j \in appends : i = j
        /\ mutating <=> appends # {}
        /\ \A i \in appends : stack[i].position = Len(log)

\* Nothing is projected that is not evidence, by whichever of the nested calls
\* (client.ts:19-23).
ProjectedIsEvidence ==
    \A x \in projected : x[2] \in Evidence!Accepted
=============================================================================
