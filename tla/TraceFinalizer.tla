--------------------------- MODULE TraceFinalizer ---------------------------
(***************************************************************************)
(* finalize_trace (trace_adapter.py): a run is recorded and sealed, a      *)
(* snapshot of it is handed over, kept by someone, and turned into a TRACE *)
(* record.  The chain carries no key, so whoever keeps the snapshot can    *)
(* change it and chain it anew; Keep enumerates what may become of it.     *)
(***************************************************************************)
EXTENDS EvidenceChain, TraceAppraisal

CONSTANTS
    Config,     \* the TraceConfiguration, a record of
                \*   trusted  : every required field has a value
                \*   taxonomy : classification_taxonomy
                \*   rank     : the position of each class in
                \*              classification_order, which has no duplicates
    Second,     \* the units of time, here nanoseconds, in a second
    MaxEntries, \* bound: entries in the run
    MaxEdits,   \* bound: changes to the snapshot that was handed over
    NoSnapshot, \* the snapshot before one was handed over
    NoRecord    \* the record before one was signed

\* An id names one document, as in a run of EvidenceAccumulator.
ASSUME EventsAssumption ==
    \A d, e \in Events : d.event_id = e.event_id => d = e

\* Times are numbers, and a class is ranked by its position.
ASSUME OrderAssumption ==
    /\ \A e \in Events : e.time_unix_nano \in Int
    /\ Second \in Nat \ {0}
    /\ Config.rank \in [DOMAIN Config.rank -> Nat]

ASSUME BoundsAssumption == MaxEntries \in Nat /\ MaxEdits \in Nat

VARIABLES
    entries,       \* the run's chain
    sealed,
    completeness,
    snapshot,      \* the one handed over, or NoSnapshot
    edits,         \* how often it was changed since
    record         \* the last record signed, or NoRecord

vars == <<entries, sealed, completeness, snapshot, edits, record>>

Init ==
    /\ entries = << >>
    /\ sealed = FALSE
    /\ completeness = "unknown"
    /\ snapshot = NoSnapshot
    /\ edits = 0
    /\ record = NoRecord

-----------------------------------------------------------------------------
\* The run, as EvidenceAccumulator keeps it.
RecordEvent(e) ==
    /\ ~sealed
    /\ Len(entries) < MaxEntries
    /\ e.valid /\ e.canonical /\ e.run_id = RunId
    /\ e \notin {entries[i].event : i \in 1..Len(entries)}
    /\ entries' = Append(entries, NewEntry(entries, e))
    /\ UNCHANGED <<sealed, completeness, snapshot, edits, record>>

SealRun(c) ==
    /\ ~sealed
    /\ sealed' = TRUE
    /\ completeness' = c
    /\ UNCHANGED <<entries, snapshot, edits, record>>

\* A snapshot may be taken, and handed over, before the run is sealed.
HandOver ==
    /\ snapshot = NoSnapshot
    /\ snapshot' =
           [run_id |-> RunId, entries |-> entries,
            chain_digest |-> LastDigest(entries),
            canonicalization_profile |-> CANONICALIZATION_PROFILE,
            completeness |-> IF sealed THEN completeness ELSE "unknown",
            sealed |-> sealed]
    /\ UNCHANGED <<entries, sealed, completeness, edits, record>>

-----------------------------------------------------------------------------
\* What may become of the entries: one edited, one dropped, two swapped, or all
\* chained anew.
Edited(chain) ==
    {[chain EXCEPT ![i].event = e] : i \in 1..Len(chain), e \in Events}

Dropped(chain) ==
    {[i \in 1..Len(chain) - 1 |-> chain[IF i < k THEN i ELSE i + 1]] :
        k \in 1..Len(chain)}

Swapped(chain) ==
    {[chain EXCEPT ![i] = chain[j], ![j] = chain[i]] :
        i, j \in 1..Len(chain)}

Rechained(chain) ==
    [i \in 1..Len(chain) |->
        [sequence |-> i - 1, event_id |-> chain[i].event.event_id,
         previous_digest |-> SubSeq(Material(chain), 1, i - 1),
         digest |-> SubSeq(Material(chain), 1, i), event |-> chain[i].event]]

\* The chain digest is kept, or replaced by that of the new chain; the labels
\* that no digest covers are changed.
Changed(chain) == {chain} \cup Edited(chain) \cup Dropped(chain) \cup Swapped(chain)

Kept(s) ==
    (UNION {{[s EXCEPT !.entries = c],
             [s EXCEPT !.entries = Rechained(c)],
             [s EXCEPT !.entries = Rechained(c), !.chain_digest = Material(c)]} :
                c \in Changed(s.entries)})
    \cup {[s EXCEPT !.run_id = r] : r \in RunIds}
    \cup {[s EXCEPT !.canonicalization_profile = p] : p \in Profiles}
    \cup {[s EXCEPT !.sealed = TRUE, !.completeness = "complete"]}

Keep ==
    /\ snapshot # NoSnapshot
    /\ edits < MaxEdits
    /\ snapshot' \in Kept(snapshot) \ {snapshot}
    /\ edits' = edits + 1
    /\ UNCHANGED <<entries, sealed, completeness, record>>

-----------------------------------------------------------------------------
EventSet(events) == {events[i] : i \in 1..Len(events)}

\* Mutant of Finalizable: a snapshot of an open run will do.
FinalizableOpen(s) ==
    /\ s.entries # << >>
    /\ s.chain_digest # Genesis
    /\ Config.trusted

\* _require_finalizable.
Finalizable(s) ==
    /\ s.sealed
    /\ s.completeness = "complete"
    /\ s.entries # << >>
    /\ s.chain_digest # Genesis
    /\ Config.trusted

\* What the events must offer for a record to be derived from them.
Derivable(events) ==
    /\ PolicyIsBound(events)
    /\ FlowsAreRanked(events, Config.taxonomy, Config.rank)

\* _tool_transcript: the actions with their positions.
ToolTranscript(events) ==
    {[sequence |-> i - 1, event |-> events[i]] :
        i \in {j \in 1..Len(events) : events[j].event_type = "action.executed"}}

\* The claims finalize_trace makes about the events, under a measurement.
RecordOf(events, measurement) ==
    [measurement      |-> measurement,
     bundle_hash      |-> PolicyBundle(EventSet(events)),
     enforcement_mode |-> EnforcementMode(EventSet(events)),
     data_class       |-> HighestClass(EventSet(events), Config.rank),
     tool_transcript  |-> ToolTranscript(events),
     appraisal        |-> Appraisal(EventSet(events)),
     iat              |-> LatestTime(EventSet(events), Second)]

\* Mutant of Finalize: the chain is not recomputed.
FinalizeUnverified ==
    /\ snapshot # NoSnapshot
    /\ Finalizable(snapshot)
    /\ Derivable(EventSet(EventsOf(snapshot.entries)))
    /\ record' = RecordOf(EventsOf(snapshot.entries), snapshot.chain_digest)
    /\ UNCHANGED <<entries, sealed, completeness, snapshot, edits>>

\* finalize_trace signs a record; whatever else happens, it raises and there is
\* no new record.
Finalize ==
    /\ snapshot # NoSnapshot
    /\ Finalizable(snapshot)
    /\ VerifyChain(snapshot)
    /\ Derivable(EventSet(EventsOf(snapshot.entries)))
    /\ record' = RecordOf(EventsOf(snapshot.entries), snapshot.chain_digest)
    /\ UNCHANGED <<entries, sealed, completeness, snapshot, edits>>

Next ==
    \/ \E e \in Events : RecordEvent(e)
    \/ \E c \in Completeness : SealRun(c)
    \/ HandOver \/ Keep \/ Finalize

Spec == Init /\ [][Next]_vars

-----------------------------------------------------------------------------
\* The events a measurement commits to.
Measured(measurement) == EventsOf(measurement)

\* Every claim of a record is one about the very events its measurement commits
\* to, whatever became of the snapshot: none edited, dropped or moved after it
\* was chained (trace_adapter.py:141-148).
ClaimsAreMeasured ==
    record # NoRecord =>
        /\ Derivable(EventSet(Measured(record.measurement)))
        /\ record = RecordOf(Measured(record.measurement), record.measurement)

\* A record signed from the snapshot as it was handed over covers the whole run,
\* and the run was sealed as complete: nothing was or will be added to it
\* (docs/trace-finalization.md: open and incomplete evidence is refused).
RecordCoversWholeRun ==
    record # NoRecord /\ edits = 0 =>
        /\ record.measurement = Material(entries)
        /\ sealed /\ completeness = "complete"

\* Nothing the events say is worse than the record: no flow above its class, no
\* decision under another bundle, as many calls in its transcript as actions in
\* the run, and no event after the second its time names, in which the last one
\* happened (trace_adapter.py:53, 179-222, 376-388).
RecordIsUpperBound ==
    record # NoRecord =>
        LET events == Measured(record.measurement)
        IN  /\ \E i \in 1..Len(events) :
                   record.iat * Second <= events[i].time_unix_nano
            /\ \A i \in 1..Len(events) :
                   LET e == events[i]
                   IN  /\ e.time_unix_nano < (record.iat + 1) * Second
                       /\ e.event_type = "data_flow.observed" =>
                              /\ e.taxonomy = Config.taxonomy
                              /\ Config.rank[e.class] <=
                                     Config.rank[record.data_class]
                       /\ e.event_type = "policy.decision" =>
                              e.bundle_digest = record.bundle_hash
                       /\ e.event_type = "action.executed" =>
                              [sequence |-> i - 1, event |-> e]
                                  \in record.tool_transcript
=============================================================================
