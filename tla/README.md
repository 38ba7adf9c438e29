# A verification of agentrust-telemetry

TLA+ models of the evidence path of agentrust-telemetry, checked with TLC and, where it
says so, proved with TLAPS. Paths are relative to the repository; the Python package is
`src/agentrust_telemetry/`.

## The system

A governed agent run emits **events** (policy decisions, approvals, executed actions, data
flows, usage). An event is validated against a JSON schema, written to the **evidence** of
its run, and only then projected to OpenTelemetry. The evidence is a hash chain kept by an
`EvidenceAccumulator`; once the run is sealed as complete, `finalize_trace` turns a snapshot
of it into one signed TRACE record. Beside it, agents hand run, workflow and agent ids to each
other in headers, and a `UsageAccumulator` rolls up the usage events of a run.

```
 host threads --batch--> AGT sink --event--> TelemetryClient.emit
                         (adapters/agt.py)      |  1. validate, compare span ids
                                                |  2. evidence_sink.append ---> EvidenceAccumulator
                                                |  3. span event                  | lock, chain
                                                |  4. log record                  | durable callback
                                                |  5. metrics                     v
                                                v                              the host's store
                                             EmitResult
 EvidenceAccumulator.seal --snapshot--> (kept by the host) --> finalize_trace --> TRACE record

 AGT approvals, AGT policy and audit, OPA, Cedar --adapters/*.py--> events of a run

 agent --inject_context--> headers --extract_context--> agent --usage events--> UsageAccumulator
```

| Component | State | Operations | What is hard | What makes it correct |
|---|---|---|---|---|
| `evidence.py` accumulator | entries, event ids, sealed flag, completeness, lock, `_owner` | `append`, `seal`, `snapshot`, durable callback | racing threads, calls made inside the callback, lost acknowledgements | the chain verifies; ids distinct and within the limit; sealed is final; reentrance refused, never a deadlock; implements an evidence log |
| `client.py` | none of its own | `emit` | order of evidence and projections, projections that fail | nothing is projected that is not evidence |
| `adapters/agt.py` sink | none | `emit(batch)` | failures in the middle of a batch, retries | `SUCCESS` means the whole batch arrived; a malformed batch delivers nothing |
| `otel.py`, `projection.py` | instruments | one `emit` for each event | several instruments for one event | a partial failure is reported |
| `trace_adapter.py` | none | `finalize_trace` | a snapshot kept by others; verdicts over many events | claims are about what the measurement commits to; affirming is sound |
| `usage.py` accumulator | facts by event id | `add`, `rollup` | duplicates, changed duplicates, sums beside their parts, currencies, missing values | a call counts once and for its own run; agents add up to their workflow |
| `propagation.py`, `context.py` | the carrier | `inject_context`, `extract_context` | reused and renamed carriers, partial injection | the next hop reads the sender's context, never a mixture |
| `adapters/agt_approval.py` | none | decision, request, resolution | bindings and times across three sources | records that map as one approval answer each other in the finalizer |
| `adapters/agt.py` mapper, `agt_audit.py`, `opa.py`, `cedar.py`, `agt_data.py`, `data_flow.py` | none | one source record to one event, or a refusal | five vocabularies for one answer | the verdict on a run is what its sources said |
| `packages/typescript/` evidence and client | entries, `#mutating`, sealed | `append`, `seal`, `emit` | the host's code calls in again from resolver, callback and projections | implements the same evidence log; nothing projected that is not evidence |
| `packages/typescript/` finalizer | none | `finalizeTrace` | digests compared as strings, another structure than in Python | the verdict of the Python finalizer where digests are written alike, else never a milder one |
| `packages/typescript/` usage | facts in a Map | `add`, `rollup` | sums of rounded numbers | a published total is exact |
| `packages/typescript/` adapters, propagation, metrics | none | mappings | - | not modelled: mirrors of the Python parts |
| `validation.py` | none | a predicate | - | not modelled: events say whether they are valid |
| conformance runner, tools, interop readers, papers | - | scripts | - | not modelled |

`PROJECT.json` lists the hazards of this code, each at its line, with the properties that
cover it. A hazard with no property has a note.

## The modules

**EvidenceChain** holds entries, digests, snapshots and the finalizer's chain verification as
operators. SHA-256 is taken to have no collisions: a digest *is* the material that was
hashed, the sequence of (position, event) pairs up to its entry. `EntryDigest`, `NewEntry` and
`VerifyChain` are `_entry_digest`, the body of `append` and `_verify_chain`. An event says of
itself whether its schema accepts it (`valid`) and whether JCS can encode it (`canonical`).

**EvidenceLog** is the abstract specification: a log that grows by acceptable events with
distinct ids up to a limit, in durable mode only by events the store took first, and is sealed
once with a completeness. `EvidenceAccumulator` implements it and `TelemetryClient` is built
on it.

**EvidenceAccumulator** is `EvidenceAccumulator` of `evidence.py`, step by step where another
thread or a reentrant call can come in between.

- `pc`, `req`: where each *call* is. A thread has an outer call and at most one call that its
  durable callback makes (and, with `Handlers`, one that a signal handler or finalizer makes
  between any two of its steps).
- `lock`, `owner`: `_lock` and `_owner`. `Acquire` takes the lock, `Claim` sets `_owner`,
  `Disown` clears it and `Release` frees the lock: four steps, as in the code, because the
  checks in `Enter` read `_owner` without the lock.
- `Enter` is the part before the lock: validation, the copy, the run id, `_owner`.
  `AppendBody` is lines 109-127, the callback starts after it, `DurableReturn` is its answer,
  `Commit` is lines 141-143. `seal` is `SealBody` and `AssertCompleteness`, one step for each
  of its two assignments (lines 160 and 161), because a handler's snapshot may read between
  them; `ReadSnapshot` is `snapshot`.
- the store, outside the repository, is idempotent by `event_id`, as the class docstring asks:
  it keeps the first entry it sees of an id and acknowledges later ones. An entry may be
  written and its acknowledgement get lost (`DurableReturn`).
- the mapping to EvidenceLog: the log's entries are the events of the chain, what it persisted
  is what the store took, and it closes when `seal` asserts the completeness (`Closing` is the
  moment before). From the first assignment on, the accumulator accepts nothing any more.

**TelemetryClient** is `emit` under the AGT sink. Each worker is a host thread in one call of
the sink: `MapBatch`, then for every event `BeginEmit`, `CopyEvent`,
`PersistEvidence`/`AcceptEvidence` or `RefuseEvidence`, `Project` for each channel in order,
`ReadResult`. The evidence is an `EvidenceLog`: the call of `append` is a few steps and no
lock, because the accumulator is proved to implement that log. `Retry` is the host handing the
batch in again, which the sink then maps anew.

- A batch holds *sources*. A named one gives its event an id derived from it; an unnamed one
  gets an id of its own with each mapping (`EventFactory.build`), so that a retry is another
  event to the evidence (`IdOf`, `tries`).
- `BeginEmit` validates the caller's dict and `CopyEvent` is `append`'s own validation and
  copy of it. In between, other code of the host may change it (`ChangeEvent`, `changed`);
  what is projected later has the id that emit was called with.
- `Route` is the span event, the log record, and the instruments of the event's type
  (`Instruments`): an amount that fails leaves the ones before it added and the ones after it
  out. `projected` is a bag, so that an amount added twice shows.

**TraceAppraisal** holds what `finalize_trace` derives from events, as operators over *sets*
of events: `_policy_binding`, `_highest_data_class`, `_bound_approvals`,
`_action_approval_binding`, `_appraisal`. A field that a document leaves out is not in the
DOMAIN of its record, so that `field in approval` and `.get` mean what they mean in the code.
Reading the events as a set is faithful because no loop depends on their order, except that
the last of two decisions of one id wins, and a run has no two events of one id.

**RunAppraisal** is the verdict as the evidence of a run grows: its single action is an append.

**TraceFinalizer** is a run that is recorded, sealed and handed over as a snapshot (`HandOver`,
also before the seal), the snapshot's treatment by whoever keeps it (`Keep`: edit, drop, swap,
compute the chain anew with the old or a new digest, change a label), and `Finalize`. When
`finalize_trace` raises there is no new record, so that the refusals are the states in which
`Finalize` is not enabled.

**AgtApproval** holds the adapters of `agt_approval.py`: when a decision, a request and a
resolution map (`DecisionMaps`, `RequestMaps`, `ResolutionMaps`) and to which event. The uuid5
of kind and source id is the pair of them. **ApprovalFlow** is a host that maps all its
records, each request against each decision and each resolution against each request, into
the events of a `RunAppraisal`. A host may hold several records under one id that disagree.

**PolicySources** holds the other adapters, each as the records that map and what they map to:
AGT's policy events, rows of its audit trail (a decision or an action), OPA's decision log with
or without the host's own mapper, Cedar's answers, and labelled data accesses. `GovernedRun`
composes them with ApprovalFlow: the evidence of a run is any subset, in any order, of what all
adapters make of a host's records, beside events of other origin. **TsAppraisal** is the
appraisal of `trace-finalizer.ts` as it is written there: bindings compared by
`JSON.stringify`, approved policy events collected from bound approvals, each action folding
the answers of its candidates. GovernedRun appraises one run with both finalizers.

**TsTelemetry** is the TypeScript client and accumulator. There is one thread, so that what
comes between two steps of a call is the host's own code, on top of a stack of calls: `emit`
calls the span resolver, the durable callback and the projections, and each of them may call
`emit`, `append` and `seal` again. What the SDK does between two calls out is one step. An
exception of a nested call reaches the host's code, which catches it or not: not catching is
the resolver or callback failing. In memory mode `append` calls nobody.

**Propagation** holds `inject_context` and `extract_context` as functions on a carrier, a
mapping from names (in the case the code writes, or in a transport's) to values. Injection
checks and writes the headers one after the other, so that one that raises leaves the first
ones in the carrier; it never removes one. **Usage** holds `UsageAccumulator`: `add` on its
dictionary and `rollup` as `Rollable` (it does not raise) and `Summary`; token counts and
amounts are summed by folds.

**WorkflowUsage** composes the two: agents start runs, hand work on (`HandOff`, `Receive`) with
carriers that are used again by either side, record usage under the context they extracted
(`Record`), and events reach a collector in any order, repeatedly, changed (`Revise`) or never
(`Arrive`). `task` and `arrived` are history variables: whose work an agent really does, and
what reached the collector.

**TsUsage** is the rollup of `usage.ts`, whose sums are JavaScript numbers: beyond `MaxSafe`
only every second integer is one, then every fourth (`Spacing`), and a sum is the nearest
number, the even one of two (`Rounded`). **CollectedUsage** rolls up what reached the collector
of WorkflowUsage with it, in every order in which the Map may hold the calls.

**MC...** modules hold the instances, **..._proofs** modules the proofs.

## What the runs check

| Run | Question |
|---|---|
| `callback` | Two threads and the calls of their callbacks, three events and room for two, four calls: lock discipline, refused reentrance, verifying and monotone snapshots, distinct events, a final seal, and the refinement of EvidenceLog; under fairness every call returns. |
| `retry` | A writer that retries a refused event before it appends another one, five calls, and a document for every reason to refuse: a known id, invalid, foreign, not canonicalizable, one too many, an unknown completeness: the store and the chain agree though acknowledgements get lost, and the accumulator implements EvidenceLog. |
| `handlers` | **Violated**: a signal handler or finalizer that mutates between `with self._lock` and the assignment of `_owner` waits for its own thread. |
| `lost_ack` | **Violated**: without the retry discipline of `retry` the store may keep an entry with another position and digest than the accepted one. |
| `batches` | Five workers: a usage event in two batches, an unnamed source and an event of another run behind it, a batch that cannot be mapped, an invalid event, span ids that disagree; the run of two may fill up or be sealed, one event may be changed while it is emitted, a destination may fail, any number of retries: only validated events become evidence, only evidence is projected, no amount twice, refused work leaves no trace, `SUCCESS` is the whole batch. |
| `retry_single` | One event for each call of the sink, and a batch of two unnamed sources: retries deliver every source. |
| `retry_batch` | **Violated**: with two events in a batch and a failure after the first one was accepted, every retry stops at the first one, a duplicate now, and the second is never delivered. |
| `appraisal` | All subsets, in every order, of eighteen events around one approval, ten of them mapped from records of five sources: what a verdict may rest on, how evidence may change it, that records the adapters let pass answer each other, that the verdict is what the sources said, and that the TypeScript finalizer gives the same one where digests are written alike, and never a milder one. |
| `sdk_digests` | **Violated**: the digests of a request and its approval with their keys in another order bind in Python and not in TypeScript, so that one run has two verdicts. |
| `finalizer` | Up to three of eight decisions, flows and actions that agree, conflict or cannot be represented, and one change to the snapshot: signed claims are measured claims, about the whole run if nothing was changed, whose class is the highest and whose time is the second of the latest event. |
| `workflow` | Two agents, a run with a workflow, one whose workflow cannot be sent and one without: handed work keeps its run and workflow, a rollup counts each call of its run once, agents add up, facts never change, and the totals a TypeScript rollup publishes are exact. |
| `typescript` | Two events, one the schema refuses and one of another run, emitted and appended from inside each other's callbacks: the position an append drafted is still the next one when it returns, only evidence is projected, and the accumulator implements EvidenceLog. |

The four violated runs are disagreements of code and documentation, listed in
`PROJECT.json` under findings with the quoted lines.

### Bounds

- Two threads suffice for the races of the accumulator: the lock admits one, and every check
  outside it compares with one owner. Reentrance is one level deep because a reentrant call
  that mutates is refused, and one that reads makes no callback.
- Four calls are two appends that race for the last place, a third that is reentrant or comes
  before them, and a seal or snapshot.
- Three events fill a run of two and leave one to refuse; in `retry`, one id with two documents
  is a duplicate with other content.
- All runs of the accumulator have a durable callback. Memory mode is the same without the
  steps of the callback; it is proved (`Durable` is a parameter of every theorem), not checked.
- In `batches`, one failure hits any channel of any event, in an attempt or in a retry of it.
  Retries are not bounded, except that an unnamed source that left something behind is mapped
  anew once (`MaxTries`); with it, a full run of two refuses. An event is changed at most once
  for each `emit`, between validation and copy. The log emitter, a channel like the span, is
  in `retry_single` only.
- In `appraisal` there is no bound on the length of the run. Times 1 to 6 put each event
  before, at and after the edges of the window 2 to 4. For each adapter there is a record that
  maps and one that does not; AGT asks for review, an audited decision allows, OPA and Cedar
  refuse. In `sdk_digests` the digests of all requests are written value first.
- In `typescript`, four calls are an emit and its append inside another emit's append, or two
  of each on top of each other; changed events are the caller's of any of them.
- `MaxSafe` is 7: numbers with three bits, so that two calls of 7 and 2 tokens have totals in
  range, just out of range, and rounded.
- In `finalizer` a second has two units of time, so that times 1 to 4 are at the start or in the
  middle of three seconds. One change is an edit, a drop or a swap, left as it is, chained anew
  under the old chain digest, or chained anew under a new one, the change no digest shows. Three
  entries are a first, a middle and a last one. The proofs have no such bound.
- In `workflow`, three starts and calls are a call on a carrier that served before, or a call
  passed on; injections that fail are not counted. Two usage events are two calls of one or of
  two agents, or one call and another version of it, and two arrivals are both, in either
  order, or one of them twice. The proofs have no such bound.

### Fairness

`FairSpec` of the accumulator is weak fairness of each call's steps: a thread inside a call
keeps running (run `callback`, whose safety properties do not use it). Nothing forces a thread or a callback to make calls. The calls of one behaviour
are finite in number, so that waiting for the lock ends without assuming the lock is fair.
A durable callback is assumed to return. `FairSpec` of the client is weak fairness of
each call of the sink and of the host's retry; the number of failures is bounded, which says
that destinations recover. No fairness is assumed where safety is claimed.

## What is proved

`EvidenceAccumulator_proofs`, for any threads, events, limit and number of calls:

- `TypeCorrect`, `LockIsDisciplined` from **LockInv**: who holds the lock, which calls are in a
  critical section, what each call carries at each place, and that a drafted entry is still
  the next entry of the chain, since nobody else can commit while it is drafted.
- `ReentranceIsRefused` from **NestInv**, without `Handlers`: a nested call exists only while
  its thread's outer call is in the callback, when `_owner` is set.
- `EventsAreDistinct`, `EverySnapshotVerifies`, `NothingFollowsTheSeal`, `ReadsMoveForward` from
  **ChainInv** (each digest is the material of its prefix, the id set is that of the entries)
  and **ViewInv** (each snapshot handed out is a prefix of the chain, the whole one if sealed),
  with or without `Handlers`.
- `SealIsFinal`, without `Handlers`, from **AssertedInv** (a sealed snapshot has the
  completeness that was asserted) and NestInv: between the two assignments of `seal` only a
  handler could read. One that does gets `sealed` with the completeness `unknown`, which the
  next statement changes; `NothingFollowsTheSeal` is what remains true then.
- `Implementation`: each step is a step of EvidenceLog or a stutter, with **DurableInv** (what
  is accepted was persisted).
- `RetryKeepsStoreAndChainEqual`, `RetryWritesEachPositionOnce` from **StoreInv**, for writers
  that retry first.

`EvidenceChain_proofs` shows that a snapshot which passes the chain verification has a digest
that commits to exactly its entries, whoever made the snapshot. This is an induction along the
chain; the library's induction theorems take an operator and cannot be used, so it goes by
least counterexample: a least element of a set of positions comes from the well-foundedness of
strict inclusion on finite sets, applied to initial segments.

`TraceFinalizer_proofs` concludes from it, for any events, configuration, and number and kind
of changes in `Keep`: `RecordsClaimWhatTheyMeasure`, and `RecordsCoverTheRun` with **HandedOver**
(a sealed snapshot nobody changed is the run, which has ended). `RecordsBoundTheRun` adds that
nothing measured is above the record's class or later than the second its time names, in which
the last event happened. The code floors the latest time to whole seconds
(trace_adapter.py:53), so an event may well be later than the record's time itself. Class and
latest time are maxima by CHOOSE, so the proof shows first that a finite set of numbers has one
(`Maximum`), and then what division by a second does to it (`WholeSeconds`).

`TelemetryClient_proofs`, for any workers, batches, routes, failures and retries, from one
inductive invariant, **ClientInv**. None of the properties is inductive alone. That nothing is
projected twice needs that one worker at most is projecting an event (**OneProjector**: append
took it from one caller), that what a worker has yet to project is not in its channel
(**ProjectingOK**), and that what is projected at all is evidence. That `SUCCESS` is the whole
batch needs **DeliveredOK**, the same of each event the worker has left behind, which other
workers and retries cannot take back. That refused work leaves no trace needs **TracesOK**:
every trace has a worker that mapped its whole batch and validated its event; **PlaceOK** says
how far each worker has come with these checks. From it follow `TypeCorrect`,
`OnlyValidatedIsEvidence`, `OnlyEvidenceIsProjected`, `NoDoubleProjection`, `SuccessVouches`,
`UnmappableIsDropped` and `RefusedIsDropped`.

`TsTelemetry_proofs`, for any documents and depth of calls, from **StackInv**: what each call
on the stack holds at its place, and that `#mutating` is set exactly while one append on the
stack is in its callback, whose draft is the next entry. `DraftsStayNext`,
`OnlyEvidenceIsProjected`, and `Implementation`, the refinement of EvidenceLog.

`RunAppraisal_proofs`, for any documents: `AffirmingMeansApproved`, `RefusalsAreFinal`, and
`OnlyApprovalsHelp`, whose argument is that events other than requests and approvals leave the
candidates and bound approvals of every action alone while gated actions only get more; and
`CondemnedWithCause`, a case for each way to a contraindicated verdict.

`ApprovalFlow_proofs`, for any records and any other evidence: `LinkedRecordsAnswer`. The
adapters compare four and five fields, the finalizer seven; the proof shows that the other
fields of the two events come from one request record, and that the times the adapter admits
are those of the finalizer's window but for its end. It is a fact of every set of evidence, so
it needs no inductive invariant. The module goes on to the whole of GovernedRun:

- `TypeScriptIsNeverMilder` compares two algorithms, set against set: the TypeScript finalizer
  collects the policy events of bound approvals and folds the answers of an action's
  candidates, the Python one asks for an unbound gated action. With digests that are compared
  as differently written strings, fewer approvals bind, and each verdict is at least as severe.
  It is often more severe, against the documentation: that is the violated run `sdk_digests`.
- `VerdictSpeaksForSources` goes through the sources: what each adapter makes of a record
  (`Origins`), that audited actions are not gated, that an approval is bound by an id only the
  approval protocol gives (`OnlyPolicyIsAnswered`), and so that a source refused, or left an
  action open, if and only if the finalizer finds a refusal, or something open.

`WorkflowUsage_proofs`, for any agents, runs, usages and bounds: `TypeCorrect`;
`WorkKeepsItsContext` from
**HandoffInv** (carriers on their way name the run, workflow and agent of who sent them, in
whatever case they arrive); `FactsStay`; and `RollupsAreTrue` from
**RecordInv** (an event says what its agent was told, which is true by HandoffInv) and
**FactsInv** (the facts are the model calls that arrived first under their ids). Two theorems
are about sums:

- `AgentsAddUpAlways`. The sums of a rollup are folds, recursive functions on the subsets of a
  set. The proof shows that such a function exists and is a number (`SumExists`, `SumIsNumber`:
  a smallest set without one would be one element more than a set with one), that it does not
  depend on the element CHOOSE takes first (`SumStep`), and so that it is a measure: additive
  over disjoint sets. The parts of the agents are disjoint and make up the workflow
  (`PartsAddUp`, itself again such an argument, over sets of agents).
- `SafeTotalsAreExactAlways`. Sums up to `MaxSafe + 1` are exact (`SmallIsExact`). A larger
  one is rounded to a multiple of an even number (`SpacingIsEven`), and `MaxSafe` is odd, so it
  is never rounded back to `MaxSafe` or below (`LargeStaysLarge`). A running total therefore
  follows the exact one while that is safe and stays out of range from then on
  (`TotalsFollow`), for every order of the calls.

Assumptions are the named ASSUMEs of the modules: sets and batches are as typed, bounds are
naturals, an id names one document, times are numbers, a second has at least one unit of time, data classes have ranks, the ids of
runs and agents can be sent in a header, agents are finitely many, token counts and amounts of
valid usage events are naturals, and `MaxSafe` is odd.

Only model-checked: liveness (`EveryCallReturns`, `RetryDelivers`), which is out of the prover's
reach. Each other property of a passing run is a theorem.

## What is left out

- Signing and verification of the record (`agentrust_trace`), schema validation, and time
  parsing: an outcome or a value in the models.
- That a completeness label is true. It is the caller's word and no digest covers it; `Keep`
  may change it, and `RecordCoversWholeRun` speaks of unchanged snapshots only.
- Documents a caller changes at other moments than between the two validations: between
  `append`'s own validation and its copy, where nothing guards it (evidence.py:98-99), and
  between evidence and projection, where amounts and names may differ from the evidence.
- An unnamed source is recorded once for each retry, under fresh ids that nothing relates:
  `ProjectedAtMostOnce` and `OncePerEvent` are about ids, and `RetryDelivers` about sources.
- Events by their contents in the projection properties of the client: they compare ids.
- The outcome an audit row gives an action: `VerdictIsTheSources` is about decisions, and an
  audited action is never gated, so that a blocked one called done changes no verdict.
- Callbacks that wait for another thread's append, which wait for ever, and a process that
  restarts in the middle of a run, for which the code has nothing.
- Formats of names, times, versions and reason codes in the adapters. The decision that
  allowed or refused a data access goes into its flow, which the appraisal does not read.
- Threads that share a `UsageAccumulator`: the class has no lock, and two threads that add one
  id at once may replace a fact (a hazard with a note).
- The rounding of a rollup's cost to a float: `AgentsAddUp` is about the decimal sums before it.
- The W3C headers and span links. The workflow a run *without* one reads: a reused carrier
  keeps the workflow header of an earlier call, since nothing removes it, and
  `ContextIsSenders` excepts such runs. A carrier that holds a name twice is not retitled on
  its way (`Transported`).
- The TypeScript policy binding, chain verification and record, `add` and the match of
  events, adapters and headers: they mirror Python line by line, and a second model of them
  would say the same.
- The components marked not modelled above, and why, in `PROJECT.json`.

## Plan

Done: EvidenceChain, EvidenceLog, EvidenceAccumulator; TelemetryClient; TraceAppraisal,
RunAppraisal, TraceFinalizer; AgtApproval, ApprovalFlow, PolicySources, TsAppraisal,
GovernedRun; Propagation, Usage, WorkflowUsage, TsUsage, CollectedUsage; TsTelemetry; proofs
of every safety and action property the runs check.

1. Client and accumulator in one model: that `emit` under the accumulator's lock behaves as
   `emit` with an EvidenceLog does, which now follows from two separate proofs by reading.
2. Threads that share a `UsageAccumulator`, should it get a lock or a promise.
