-------------------------- MODULE TelemetryClient --------------------------
(***************************************************************************)
(* TelemetryClient.emit (client.py) under the batch sink an AGT host calls *)
(* (adapters/agt.py) and the OpenTelemetry emitters it projects to         *)
(* (otel.py).  Workers are host threads: each hands its batch of source    *)
(* records to the sink, which maps them to events, and may hand the same   *)
(* batch in again when the answer is FAILURE: it is then mapped anew.      *)
(* They share one client, whose evidence sink is an evidence log:          *)
(* EvidenceAccumulator is proved to implement EvidenceLog.                 *)
(***************************************************************************)
EXTENDS Naturals, Sequences, Bags

CONSTANTS
    Workers,      \* host threads
    Batch,        \* the batch of each worker, a sequence of sources: records of
                  \*   source_id, named (its adapter derives the event_id from
                  \*   it), mappable (the mapper accepts it), and of the event:
                  \*   event_type, observed (the amounts of a usage event),
                  \*   valid (the schema accepts it), chainable (the run does)
    SpanOf,       \* each worker's active span: "none" or "valid"
    Mismatched,   \* workers whose events name another span than the active one
    Shared,       \* workers whose events other code of the host may change
    HasEvidence,  \* an evidence sink is configured
    HasLog,       \* a log emitter is configured
    HasMetrics,   \* a metric emitter is configured
    Durable,      \* the evidence sink acknowledges through a durable callback
    MaxEvents,    \* max_events of the evidence run
    Sealable,     \* the run may be sealed while workers emit
    MaxFailures,  \* bound: destination failures in one behaviour
    MaxTries      \* bound: retries of a batch that left something behind

Sources(w) == {Batch[w][i] : i \in 1..Len(Batch[w])}

EventTypes == {"policy.decision", "action.executed", "approval",
               "data_flow.observed", "usage.recorded", "evidence"}

ASSUME WorkersAssumption ==
    /\ \A w \in Workers :
           /\ Batch[w] \in Seq(Sources(w)) \ {<< >>}
           /\ \A s \in Sources(w) :
                  /\ s.event_type \in EventTypes
                  /\ {s.named, s.mappable, s.valid, s.chainable} \subseteq BOOLEAN
    /\ Mismatched \subseteq {w \in Workers : SpanOf[w] = "valid"}

ASSUME BoundsAssumption ==
    /\ MaxFailures \in Nat /\ MaxTries \in Nat
    /\ MaxEvents \in Nat \ {0}

\* The adapter's id, derived from the source, or else one EventFactory.build
\* makes up for this mapping.
IdOf(w, source, try) ==
    IF source.named THEN <<source.source_id>> ELSE <<source.source_id, w, try>>

\* The event a worker's batch holds at a position, when mapped in a try.
EventOf(w, i, try) ==
    LET source == Batch[w][i]
    IN  [event_id   |-> IdOf(w, source, try),
         event_type |-> source.event_type, observed |-> source.observed,
         valid      |-> source.valid, chainable |-> source.chainable]

Events == UNION {{EventOf(w, i, try) : i \in 1..Len(Batch[w]),
                                       try \in 0..MaxTries} : w \in Workers}

EventIds == {e.event_id : e \in Events}

Invalid(e) == [e EXCEPT !.valid = FALSE]

Documents == Events \cup {Invalid(e) : e \in Events}

Labels == {"map", "emit", "copy", "evidence", "project", "answered"}

VARIABLES
    log, durable, sealed, completeness,   \* the evidence run
    pc,         \* where each worker's call of the sink is
    tries,      \* how often its batch was retried with fresh ids
    pos,        \* the index of the event it is emitting
    changed,    \* workers whose event was made invalid after emit validated it
    copy,       \* the copy of the event that append was given
    todo,       \* the channels that event is still to be projected to
    errors,     \* that event has projection errors
    answer,     \* the answer to the batch, "none" while it is open
    projected,  \* how often each event reached each channel, a bag
    failures    \* destination failures left to happen

evidenceVars == <<log, durable, sealed, completeness>>
emitVars == <<pos, changed, copy, todo, errors>>
vars == <<evidenceVars, emitVars, pc, tries, answer, projected, failures>>

Evidence == INSTANCE EvidenceLog WITH
    Acceptable <- {e \in Events : e.valid /\ e.chainable}

Init ==
    /\ Evidence!LogInit
    /\ pc = [w \in Workers |-> "map"]
    /\ tries = [w \in Workers |-> 0]
    /\ pos = [w \in Workers |-> 1]
    /\ changed = {}
    /\ copy = [w \in Workers |-> EventOf(w, 1, 0)]
    /\ todo = [w \in Workers |-> << >>]
    /\ errors = [w \in Workers |-> FALSE]
    /\ answer = [w \in Workers |-> "none"]
    /\ projected = EmptyBag
    /\ failures = MaxFailures

Event(w) == EventOf(w, pos[w], tries[w])

\* The caller's dict as it is now.
Document(w) ==
    IF w \in changed THEN Invalid(Event(w)) ELSE Event(w)

GoTo(w, label) == pc' = [pc EXCEPT ![w] = label]

Answer(w, result) ==
    GoTo(w, "answered") /\ answer' = [answer EXCEPT ![w] = result]

-----------------------------------------------------------------------------
\* An amount of a usage event goes to an instrument if the event has it.
Amount(e, name) == IF name \in e.observed THEN <<name>> ELSE << >>

\* The instruments OTelMetricEmitter.emit uses for an event, in its order.
Instruments(e) ==
    CASE e.event_type \in {"policy.decision", "action.executed"} ->
             <<"count", "duration">>
      [] e.event_type \in {"approval", "data_flow.observed"} -> <<"count">>
      [] e.event_type = "usage.recorded" ->
             Amount(e, "input") \o Amount(e, "output")
             \o Amount(e, "cache_read") \o Amount(e, "cache_write")
             \o Amount(e, "reasoning") \o Amount(e, "cost")
      [] e.event_type = "evidence" -> << >>

\* The channels emit uses for a worker's event, in the order it uses them.
Route(w) ==
    (IF SpanOf[w] = "valid" THEN <<"span">> ELSE << >>)
    \o (IF HasLog THEN <<"log">> ELSE << >>)
    \o (IF HasMetrics THEN Instruments(Event(w)) ELSE << >>)

Reached(ch, e) == BagIn(<<ch, e.event_id>>, projected)

LeftTrace(e) ==
    \/ e.event_id \in durable \cup Evidence!Accepted
    \/ \E x \in BagToSet(projected) : x[2] = e.event_id

-----------------------------------------------------------------------------
\* Mutant of MapBatch: it emits as it maps.
MapLazily(w) ==
    /\ pc[w] = "map"
    /\ \/ /\ Batch[w][1].mappable
          /\ GoTo(w, "emit")
          /\ pos' = [pos EXCEPT ![w] = 1]
          /\ UNCHANGED answer
       \/ /\ ~Batch[w][1].mappable
          /\ Answer(w, "FAILURE")
          /\ UNCHANGED pos
    /\ UNCHANGED <<evidenceVars, tries, changed, copy, todo, errors, projected,
                   failures>>

\* The sink maps the whole batch before it emits any of it.
MapBatch(w) ==
    /\ pc[w] = "map"
    /\ \/ /\ \A s \in Sources(w) : s.mappable
          /\ GoTo(w, "emit")
          /\ pos' = [pos EXCEPT ![w] = 1]
          /\ UNCHANGED answer
       \/ /\ \E s \in Sources(w) : ~s.mappable
          /\ Answer(w, "FAILURE")
          /\ UNCHANGED pos
    /\ UNCHANGED <<evidenceVars, tries, changed, copy, todo, errors, projected,
                   failures>>

\* Mutant of BeginEmit: span ids are compared after the evidence is written.
BeginUncompared(w) ==
    /\ pc[w] = "emit"
    /\ changed' = changed \ {w}
    /\ errors' = [errors EXCEPT ![w] = FALSE]
    /\ todo' = [todo EXCEPT ![w] = Route(w)]
    /\ \/ /\ Event(w).valid
          /\ GoTo(w, IF HasEvidence THEN "copy" ELSE "project")
          /\ UNCHANGED answer
       \/ /\ ~Event(w).valid
          /\ Answer(w, "FAILURE")
    /\ UNCHANGED <<evidenceVars, tries, pos, copy, projected, failures>>

\* emit validates the event and compares its span ids with the active span.
BeginEmit(w) ==
    /\ pc[w] = "emit"
    /\ changed' = changed \ {w}
    /\ errors' = [errors EXCEPT ![w] = FALSE]
    /\ todo' = [todo EXCEPT ![w] = Route(w)]
    /\ \/ /\ Event(w).valid /\ w \notin Mismatched
          /\ GoTo(w, IF HasEvidence THEN "copy" ELSE "project")
          /\ UNCHANGED answer
       \/ /\ ~Event(w).valid \/ w \in Mismatched
          /\ Answer(w, "FAILURE")
    /\ UNCHANGED <<evidenceVars, tries, pos, copy, projected, failures>>

\* Other code of the host changes the event that is being emitted.
ChangeEvent(w) ==
    /\ w \in Shared \ changed
    /\ pc[w] = "copy"
    /\ changed' = changed \cup {w}
    /\ UNCHANGED <<evidenceVars, pc, tries, pos, copy, todo, errors, answer,
                   projected, failures>>

\* Mutant of CopyEvent: append trusts that emit has validated the event.
CopyTrusted(w) ==
    /\ pc[w] = "copy"
    /\ copy' = [copy EXCEPT ![w] = Document(w)]
    /\ GoTo(w, "evidence")
    /\ UNCHANGED <<evidenceVars, tries, pos, changed, todo, errors, answer,
                   projected, failures>>

\* evidence_sink.append gets a copy of the event, and validates it ...
CopyEvent(w) ==
    /\ pc[w] = "copy"
    /\ copy' = [copy EXCEPT ![w] = Document(w)]
    /\ \/ /\ Document(w).valid
          /\ GoTo(w, "evidence")
          /\ UNCHANGED answer
       \/ /\ ~Document(w).valid
          /\ Answer(w, "FAILURE")
    /\ UNCHANGED <<evidenceVars, tries, pos, changed, todo, errors, projected,
                   failures>>

\* ... the store takes it ...
PersistEvidence(w) ==
    /\ pc[w] = "evidence"
    /\ copy[w].chainable
    /\ copy[w].event_id \notin durable
    /\ Evidence!Persist(copy[w])
    /\ UNCHANGED <<pc, tries, emitVars, answer, projected, failures>>

\* ... the log accepts it ...
AcceptEvidence(w) ==
    /\ pc[w] = "evidence"
    /\ copy[w].chainable
    /\ Evidence!Accept(copy[w])
    /\ GoTo(w, "project")
    /\ UNCHANGED <<tries, emitVars, answer, projected, failures>>

\* Mutants of RefuseEvidence: emit goes on; the sink calls it a success; the
\* sink does not catch the exception, and the call ends without a result.
RefusalIgnored(w) ==
    /\ pc[w] = "evidence"
    /\ GoTo(w, "project")
    /\ UNCHANGED <<evidenceVars, tries, emitVars, answer, projected, failures>>

RefusalIsSuccess(w) ==
    /\ pc[w] = "evidence"
    /\ Durable
    /\ failures > 0
    /\ failures' = failures - 1
    /\ Answer(w, "SUCCESS")
    /\ UNCHANGED <<evidenceVars, tries, emitVars, projected>>

RefusalEscapes(w) ==
    /\ pc[w] = "evidence"
    /\ \/ /\ \/ ~copy[w].chainable \/ sealed
             \/ copy[w].event_id \in Evidence!Accepted
             \/ Len(log) >= MaxEvents
          /\ UNCHANGED failures
       \/ /\ Durable
          /\ failures > 0
          /\ failures' = failures - 1
    /\ GoTo(w, "answered")
    /\ UNCHANGED <<evidenceVars, tries, emitVars, answer, projected>>

\* ... or append raises: the run cannot admit the event, is sealed or full, or
\* holds it already, or the callback failed.  emit lets the exception through.
RefuseEvidence(w) ==
    /\ pc[w] = "evidence"
    /\ \/ /\ \/ ~copy[w].chainable
             \/ sealed
             \/ copy[w].event_id \in Evidence!Accepted
             \/ Len(log) >= MaxEvents
          /\ UNCHANGED failures
       \/ /\ Durable
          /\ failures > 0
          /\ failures' = failures - 1
    /\ Answer(w, "FAILURE")
    /\ UNCHANGED <<evidenceVars, tries, emitVars, projected>>

\* One projection of the event: a span event, a log record, or an amount added
\* to an instrument.  emit catches and reports a failure; when an instrument
\* raises, the metric emitter is left and the ones after it are not reached.
Project(w) ==
    /\ pc[w] = "project" /\ todo[w] # << >>
    /\ LET ch   == Head(todo[w])
           Then(channels) == todo' = [todo EXCEPT ![w] = channels]
       IN  \/ /\ projected' = projected (+) SetToBag({<<ch, Event(w).event_id>>})
              /\ Then(Tail(todo[w]))
              /\ UNCHANGED <<errors, failures>>
           \/ /\ failures > 0
              /\ failures' = failures - 1
              /\ errors' = [errors EXCEPT ![w] = TRUE]
              /\ Then(IF ch \in {"span", "log"} THEN Tail(todo[w]) ELSE << >>)
              /\ UNCHANGED projected
    /\ UNCHANGED <<evidenceVars, pc, tries, pos, changed, copy, answer>>

\* Mutant of ReadResult: projection errors are not looked at.
ReadAccepted(w) ==
    /\ pc[w] = "project" /\ todo[w] = << >>
    /\ \/ /\ pos[w] < Len(Batch[w])
          /\ pos' = [pos EXCEPT ![w] = @ + 1]
          /\ GoTo(w, "emit")
          /\ UNCHANGED answer
       \/ /\ pos[w] = Len(Batch[w])
          /\ Answer(w, "SUCCESS")
          /\ UNCHANGED pos
    /\ UNCHANGED <<evidenceVars, tries, changed, copy, todo, errors, projected,
                   failures>>

\* The sink reads the EmitResult: the next event, or the batch's answer.
ReadResult(w) ==
    /\ pc[w] = "project" /\ todo[w] = << >>
    /\ \/ /\ errors[w]
          /\ Answer(w, "FAILURE")
          /\ UNCHANGED pos
       \/ /\ ~errors[w] /\ pos[w] < Len(Batch[w])
          /\ pos' = [pos EXCEPT ![w] = @ + 1]
          /\ GoTo(w, "emit")
          /\ UNCHANGED answer
       \/ /\ ~errors[w] /\ pos[w] = Len(Batch[w])
          /\ Answer(w, "SUCCESS")
          /\ UNCHANGED pos
    /\ UNCHANGED <<evidenceVars, tries, changed, copy, todo, errors, projected,
                   failures>>

\* The host hands a failed batch in again.  Ids that were made up and went no
\* further than the call are as good as fresh.
Retry(w) ==
    /\ pc[w] = "answered" /\ answer[w] = "FAILURE"
    /\ \/ /\ \E i \in 1..Len(Batch[w]) :
                 ~Batch[w][i].named /\ LeftTrace(EventOf(w, i, tries[w]))
          /\ tries[w] < MaxTries
          /\ tries' = [tries EXCEPT ![w] = @ + 1]
       \/ /\ \A i \in 1..Len(Batch[w]) :
                 Batch[w][i].named \/ ~LeftTrace(EventOf(w, i, tries[w]))
          /\ UNCHANGED tries
    /\ GoTo(w, "map")
    /\ answer' = [answer EXCEPT ![w] = "none"]
    /\ UNCHANGED <<evidenceVars, emitVars, projected, failures>>

\* Whoever owns the run seals it.
SealRun ==
    /\ Sealable
    /\ Evidence!Seal("complete")
    /\ UNCHANGED <<pc, tries, emitVars, answer, projected, failures>>

Step(w) ==
    \/ MapBatch(w) \/ BeginEmit(w) \/ CopyEvent(w)
    \/ PersistEvidence(w) \/ AcceptEvidence(w) \/ RefuseEvidence(w)
    \/ Project(w) \/ ReadResult(w)

Next == SealRun \/ \E w \in Workers : Step(w) \/ Retry(w) \/ ChangeEvent(w)

Spec == Init /\ [][Next]_vars

\* A call of the sink runs to its answer, and the host retries what failed.
FairSpec == Spec /\ \A w \in Workers : WF_vars(Step(w)) /\ WF_vars(Retry(w))

-----------------------------------------------------------------------------
Channels == {"span", "log", "count", "duration", "input", "output",
             "cache_read", "cache_write", "reasoning", "cost"}

\* The variables keep their types, and a call of the sink has a result exactly
\* when it has ended: it never raises and never falls through
\* (adapters/agt.py:69-79).
TypeOK ==
    /\ log \in Seq(Documents)
    /\ durable \subseteq EventIds
    /\ sealed \in BOOLEAN
    /\ completeness \in {"complete", "incomplete", "unknown"}
    /\ pc \in [Workers -> Labels]
    /\ tries \in [Workers -> 0..MaxTries]
    /\ pos \in [Workers -> Nat \ {0}]
    /\ changed \subseteq Shared
    /\ copy \in [Workers -> Documents]
    /\ todo \in [Workers -> Seq(Channels)]
    /\ errors \in [Workers -> BOOLEAN]
    /\ answer \in [Workers -> {"none", "SUCCESS", "FAILURE"}]
    /\ \A w \in Workers : answer[w] = "none" <=> pc[w] # "answered"
    /\ IsABag(projected)
    /\ BagToSet(projected) \subseteq Channels \X EventIds
    /\ failures \in Nat

\* What is accepted as evidence is what the schema and the run accept, also
\* when the host changes the event after emit validated it and before append
\* gets its copy (client.py:60 and 74, evidence.py:97-101).
EvidenceIsValidated ==
    \A i \in 1..Len(log) : log[i].valid /\ log[i].chainable

\* Nothing is projected that is not evidence: no span event, log record or
\* metric for an event the run refused, whoever emitted it (client.py:72-75).
ProjectedIsEvidence ==
    HasEvidence =>
        \A x \in BagToSet(projected) : x[2] \in Evidence!Accepted

\* With an evidence sink an event reaches each channel at most once, however
\* often hosts retry batches and whichever workers share an event.
ProjectedAtMostOnce ==
    HasEvidence => \A x \in BagToSet(projected) : projected[x] = 1

\* SUCCESS vouches for the whole batch: every event is evidence and reached
\* every channel of its worker (adapters/agt.py:69-79).
SuccessIsWhole ==
    \A w \in Workers :
        answer[w] = "SUCCESS" =>
            \A i \in 1..Len(Batch[w]) :
                LET e == EventOf(w, i, tries[w])
                IN  /\ HasEvidence => \E k \in 1..Len(log) : log[k] = e
                    /\ SpanOf[w] = "valid" => Reached("span", e)
                    /\ HasLog => Reached("log", e)
                    /\ HasMetrics =>
                           \A k \in 1..Len(Instruments(e)) :
                               Reached(Instruments(e)[k], e)

LeavesNoTrace(source_id) ==
    \A id \in durable \cup Evidence!Accepted
                      \cup {x[2] : x \in BagToSet(projected)} :
        id[1] # source_id

SourceIds == UNION {{s.source_id : s \in Sources(w)} : w \in Workers}

\* The sources that are only in batches with a source the mapper refuses.
UnmappableSources ==
    {id \in SourceIds :
        \A v \in Workers : \A t \in Sources(v) :
            t.source_id = id => \E u \in Sources(v) : ~u.mappable}

\* The sources whose events the schema refuses or whose span ids disagree.
RefusedSources ==
    {id \in SourceIds :
        \A v \in Workers : \A t \in Sources(v) :
            t.source_id = id => ~t.valid \/ v \in Mismatched}

\* A batch with a source the mapper refuses delivers none of its events, not
\* even the ones before it: a source that is only in such batches leaves no
\* trace (docs/adapters.md:43-45).
UnmappableDeliversNothing == \A id \in UnmappableSources : LeavesNoTrace(id)

\* An event the schema refuses, or whose span ids disagree with the active
\* span, reaches neither the evidence nor any channel, unless another worker's
\* copy of it does (docs/otel-projection.md, Failure behavior).
RefusedLeavesNoTrace == \A id \in RefusedSources : LeavesNoTrace(id)

\* A batch the host keeps retrying ends up in the evidence, once destinations
\* stop failing (docs/adapters.md:45-47, evidence.py:48-49).
RetryDelivers ==
    \A w \in Workers : \A s \in Sources(w) :
        <>(\E id \in Evidence!Accepted : id[1] = s.source_id)
=============================================================================
