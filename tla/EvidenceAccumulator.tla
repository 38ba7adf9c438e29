------------------------ MODULE EvidenceAccumulator ------------------------
(***************************************************************************)
(* EvidenceAccumulator of src/agentrust_telemetry/evidence.py: threads that *)
(* call append, seal and snapshot on one accumulator, the lock and the     *)
(* owner field that guard it, and the durable store behind its callback.   *)
(*                                                                         *)
(* A thread runs two frames: its outer call, and an inner call that starts *)
(* on top of it, made by the durable callback or, when Handlers is TRUE,   *)
(* by a signal handler or finalizer that interrupts the outer call where   *)
(* it is.  A handler runs to its end before the outer call goes on.        *)
(***************************************************************************)
EXTENDS EvidenceChain

CONSTANTS
    Threads,      \* the threads that share the accumulator
    MaxEvents,    \* max_events
    Durable,      \* TRUE: mode "callback"; FALSE: mode "memory"
    Handlers,     \* TRUE: handlers may interrupt a call anywhere
    RetryFirst,   \* TRUE: one writer at a time, which retries a refused
                  \*   event before it appends any other
    SealArgs,     \* the completeness arguments passed to seal
    MaxCalls,     \* bound: the calls made in one behaviour
    NoThread, NoCall, NoEvent, NoEntry, NoSnapshot

ASSUME EventsAssumption ==
    \A e \in Events : e.valid \in BOOLEAN /\ e.canonical \in BOOLEAN

\* __init__ refuses a max_events below 1.
ASSUME MaxEventsAssumption == MaxEvents \in Nat \ {0}

ASSUME FlagsAssumption ==
    Durable \in BOOLEAN /\ Handlers \in BOOLEAN /\ RetryFirst \in BOOLEAN

ASSUME MaxCallsAssumption == MaxCalls \in Nat

ASSUME NoneAssumption ==
    /\ NoThread \notin Threads
    /\ NoCall \notin Threads \X {"outer", "inner"}
    /\ NoEvent \notin Events
    /\ NoEntry \notin EvidenceEntry
    /\ NoSnapshot \notin EvidenceSnapshot

Calls == Threads \X {"outer", "inner"}
Thread(c) == c[1]
Outer(t) == <<t, "outer">>
Inner(t) == <<t, "inner">>

Requests ==
    [op : {"append"}, event : Events]
        \cup [op : {"seal"}, completeness : SealArgs]
        \cup [op : {"snapshot"}]
Idle == [op |-> "none"]

Labels == {"idle", "enter", "lock", "claim", "body", "callback", "commit",
           "assert", "disown", "release", "read"}

VARIABLES
    pc,            \* where each call is
    req,           \* the operation and argument of each call
    draft,         \* the entry each append is about to accept
    view,          \* the last snapshot each call handed to its caller
    lock,          \* _lock: the call that holds it
    owner,         \* _owner
    entries,       \* _entries
    event_ids,     \* _event_ids
    sealed,        \* _sealed
    completeness,  \* _completeness
    store,         \* the entries the durable store holds
    refused,       \* the event whose durable append failed last, until it is
                   \*   accepted
    budget         \* calls still to be made

callVars  == <<pc, req, draft, view>>
chainVars == <<entries, event_ids, sealed, completeness>>
vars == <<callVars, lock, owner, chainVars, store, refused, budget>>

Init ==
    /\ pc = [c \in Calls |-> "idle"]
    /\ req = [c \in Calls |-> Idle]
    /\ draft = [c \in Calls |-> NoEntry]
    /\ view = [c \in Calls |-> NoSnapshot]
    /\ lock = NoCall
    /\ owner = NoThread
    /\ entries = << >>
    /\ event_ids = {}
    /\ sealed = FALSE
    /\ completeness = "unknown"
    /\ store = {}
    /\ refused = NoEvent
    /\ budget = MaxCalls

\* Mutant of Snapshot: it shows the entry a callback is still persisting.
SnapshotInFlight(closed, asserted) ==
    LET shown == IF lock # NoCall /\ pc[lock] = "callback"
                 THEN Append(entries, draft[lock]) ELSE entries
    IN  [run_id |-> RunId, entries |-> shown,
         chain_digest |-> LastDigest(shown),
         canonicalization_profile |-> CANONICALIZATION_PROFILE,
         completeness |-> IF closed THEN asserted ELSE "unknown",
         sealed |-> closed]

\* _snapshot: completeness stays "unknown" until the run is sealed.
Snapshot(closed, asserted) ==
    [run_id |-> RunId, entries |-> entries,
     chain_digest |-> LastDigest(entries),
     canonicalization_profile |-> CANONICALIZATION_PROFILE,
     completeness |-> IF closed THEN asserted ELSE "unknown",
     sealed |-> closed]

GoTo(c, label) == pc' = [pc EXCEPT ![c] = label]

\* The call returns to its caller, or raises.
Return(c) == GoTo(c, "idle") /\ req' = [req EXCEPT ![c] = Idle]

\* An outer call is suspended while an inner one runs on its thread.
Running(c) == c = Outer(Thread(c)) => pc[Inner(Thread(c))] = "idle"

MayStart(c) ==
    c = Inner(Thread(c)) =>
        \/ pc[Outer(Thread(c))] = "callback"
        \/ Handlers /\ pc[Outer(Thread(c))] # "idle"

\* The discipline of a writer that retries before it moves on.
WriterMayAppend(e) ==
    RetryFirst => /\ refused \in {NoEvent, e}
                  /\ \A d \in Calls : req[d].op # "append"

-----------------------------------------------------------------------------
Call(c, r) ==
    /\ pc[c] = "idle"
    /\ budget > 0
    /\ Running(c)
    /\ MayStart(c)
    /\ r.op = "append" => WriterMayAppend(r.event)
    /\ GoTo(c, "enter")
    /\ req' = [req EXCEPT ![c] = r]
    /\ budget' = budget - 1
    /\ UNCHANGED <<draft, view, lock, owner, chainVars, store, refused>>

\* Mutants of Enter: no owner check; no validation of the argument.
EnterUnowned(c) ==
    /\ pc[c] = "enter"
    /\ Running(c)
    /\ GoTo(c, "lock")
    /\ UNCHANGED <<req, draft, view, lock, owner, chainVars, store, refused,
                   budget>>

EnterUnvalidated(c) ==
    /\ pc[c] = "enter"
    /\ Running(c)
    /\ owner # Thread(c)
    /\ GoTo(c, "lock")
    /\ UNCHANGED <<req, draft, view, lock, owner, chainVars, store, refused,
                   budget>>

\* Validation, the run_id check and the unlocked read of _owner.  A mutation
\* by the owner raises; a snapshot by the owner reads without the lock.
Enter(c) ==
    /\ pc[c] = "enter"
    /\ Running(c)
    /\ LET r == req[c]
           admissible ==
               CASE r.op = "append"   -> r.event.valid /\ r.event.run_id = RunId
                 [] r.op = "seal"     -> r.completeness \in Completeness
                 [] r.op = "snapshot" -> TRUE
       IN  \/ /\ admissible
              /\ owner # Thread(c)
              /\ GoTo(c, "lock")
              /\ UNCHANGED <<req, view>>
           \/ /\ ~admissible \/ owner = Thread(c)
              /\ Return(c)
              /\ view' = IF r.op = "snapshot"
                         THEN [view EXCEPT ![c] = Snapshot(sealed, completeness)]
                         ELSE view
    /\ UNCHANGED <<draft, lock, owner, chainVars, store, refused, budget>>

\* Mutant of Acquire: it does not wait for the lock.
AcquireUnlocked(c) ==
    /\ pc[c] = "lock"
    /\ Running(c)
    /\ lock' = c
    /\ GoTo(c, IF req[c].op = "snapshot" THEN "read" ELSE "claim")
    /\ UNCHANGED <<req, draft, view, owner, chainVars, store, refused, budget>>

\* `with self._lock`.
Acquire(c) ==
    /\ pc[c] = "lock"
    /\ Running(c)
    /\ lock = NoCall
    /\ lock' = c
    /\ GoTo(c, IF req[c].op = "snapshot" THEN "read" ELSE "claim")
    /\ UNCHANGED <<req, draft, view, owner, chainVars, store, refused, budget>>

\* `self._owner = get_ident()`, a statement after the lock is taken.
Claim(c) ==
    /\ pc[c] = "claim"
    /\ Running(c)
    /\ owner' = Thread(c)
    /\ GoTo(c, "body")
    /\ UNCHANGED <<req, draft, view, lock, chainVars, store, refused, budget>>

\* Mutants of AppendBody: each lacks one of its checks.
AppendIf(c, acceptable) ==
    /\ pc[c] = "body"
    /\ Running(c)
    /\ req[c].op = "append"
    /\ \/ /\ acceptable
          /\ draft' = [draft EXCEPT ![c] = NewEntry(entries, req[c].event)]
          /\ GoTo(c, IF Durable THEN "callback" ELSE "commit")
       \/ /\ ~acceptable
          /\ GoTo(c, "disown")
          /\ UNCHANGED draft
    /\ UNCHANGED <<req, view, lock, owner, chainVars, store, refused, budget>>

AppendAfterSeal(c) ==
    AppendIf(c, /\ req[c].event.event_id \notin event_ids
                /\ Len(entries) < MaxEvents
                /\ req[c].event.canonical)

AppendDuplicate(c) ==
    AppendIf(c, /\ ~sealed
                /\ Len(entries) < MaxEvents
                /\ req[c].event.canonical)

AppendOneTooMany(c) ==
    AppendIf(c, /\ ~sealed
                /\ req[c].event.event_id \notin event_ids
                /\ Len(entries) <= MaxEvents
                /\ req[c].event.canonical)

\* append's checks under the lock, then the entry it would accept.
AppendBody(c) ==
    /\ pc[c] = "body"
    /\ Running(c)
    /\ req[c].op = "append"
    /\ LET e == req[c].event
           acceptable == /\ ~sealed
                         /\ e.event_id \notin event_ids
                         /\ Len(entries) < MaxEvents
                         /\ e.canonical
       IN  \/ /\ acceptable
              /\ draft' = [draft EXCEPT ![c] = NewEntry(entries, e)]
              /\ GoTo(c, IF Durable THEN "callback" ELSE "commit")
           \/ /\ ~acceptable
              /\ GoTo(c, "disown")
              /\ UNCHANGED draft
    /\ UNCHANGED <<req, view, lock, owner, chainVars, store, refused, budget>>

\* Mutant of DurableReturn: what the callback returned is not looked at.
ReturnUnchecked(c) ==
    /\ pc[c] = "callback"
    /\ Running(c)
    /\ \E written \in BOOLEAN :
          store' = IF written /\ ~ \E s \in store : s.event_id = draft[c].event_id
                   THEN store \cup {draft[c]} ELSE store
    /\ GoTo(c, "commit")
    /\ UNCHANGED <<req, draft, view, lock, owner, chainVars, refused, budget>>

\* The durable callback returns.  The store is idempotent by event_id and
\* acknowledges only an event_id it holds; it may also keep the entry and then
\* fail to say so.  False and an exception are one outcome: the append raises.
DurableReturn(c) ==
    /\ pc[c] = "callback"
    /\ Running(c)
    /\ \E written, acknowledged \in BOOLEAN :
          LET entry == draft[c]
              held  == \E s \in store : s.event_id = entry.event_id
          IN  /\ acknowledged => written \/ held
              /\ store' = IF written /\ ~held THEN store \cup {entry} ELSE store
              /\ GoTo(c, IF acknowledged THEN "commit" ELSE "disown")
              /\ refused' = IF acknowledged THEN refused ELSE entry.event
    /\ UNCHANGED <<req, draft, view, lock, owner, chainVars, budget>>

\* The entry and its id are recorded; the caller gets a copy of the entry.
Commit(c) ==
    /\ pc[c] = "commit"
    /\ Running(c)
    /\ entries' = Append(entries, draft[c])
    /\ event_ids' = event_ids \cup {draft[c].event_id}
    /\ refused' = IF refused = draft[c].event THEN NoEvent ELSE refused
    /\ GoTo(c, "disown")
    /\ UNCHANGED <<req, draft, view, lock, owner, sealed, completeness, store,
                   budget>>

\* seal's check under the lock, and the first of its two assignments: from
\* here on the run is sealed ...
SealBody(c) ==
    /\ pc[c] = "body"
    /\ Running(c)
    /\ req[c].op = "seal"
    /\ \/ /\ ~sealed
          /\ sealed' = TRUE
          /\ GoTo(c, "assert")
       \/ /\ sealed
          /\ GoTo(c, "disown")
          /\ UNCHANGED sealed
    /\ UNCHANGED <<req, draft, view, lock, owner, entries, event_ids,
                   completeness, store, refused, budget>>

\* ... and the second, with the snapshot seal returns.  A handler that reads
\* between the two sees a sealed run without its completeness.
AssertCompleteness(c) ==
    /\ pc[c] = "assert"
    /\ Running(c)
    /\ completeness' = req[c].completeness
    /\ view' = [view EXCEPT ![c] = Snapshot(sealed, req[c].completeness)]
    /\ GoTo(c, "disown")
    /\ UNCHANGED <<req, draft, lock, owner, entries, event_ids, sealed, store,
                   refused, budget>>

\* snapshot's body under the lock.  It sets no owner.
ReadSnapshot(c) ==
    /\ pc[c] = "read"
    /\ Running(c)
    /\ view' = [view EXCEPT ![c] = Snapshot(sealed, completeness)]
    /\ GoTo(c, "release")
    /\ UNCHANGED <<req, draft, lock, owner, chainVars, store, refused, budget>>

\* Mutant of Disown: the owner is left set.
DisownNever(c) ==
    /\ pc[c] = "disown"
    /\ Running(c)
    /\ draft' = [draft EXCEPT ![c] = NoEntry]
    /\ GoTo(c, "release")
    /\ UNCHANGED <<req, view, lock, owner, chainVars, store, refused, budget>>

\* `finally: self._owner = None`.
Disown(c) ==
    /\ pc[c] = "disown"
    /\ Running(c)
    /\ owner' = NoThread
    /\ draft' = [draft EXCEPT ![c] = NoEntry]
    /\ GoTo(c, "release")
    /\ UNCHANGED <<req, view, lock, chainVars, store, refused, budget>>

\* The end of the `with` block, and the return to the caller.
Release(c) ==
    /\ pc[c] = "release"
    /\ Running(c)
    /\ lock' = NoCall
    /\ Return(c)
    /\ UNCHANGED <<draft, view, owner, chainVars, store, refused, budget>>

Step(c) ==
    \/ Enter(c) \/ Acquire(c) \/ Claim(c)
    \/ AppendBody(c) \/ DurableReturn(c) \/ Commit(c)
    \/ SealBody(c) \/ AssertCompleteness(c) \/ ReadSnapshot(c)
    \/ Disown(c) \/ Release(c)

Next == \E c \in Calls : Step(c) \/ \E r \in Requests : Call(c, r)

Spec == Init /\ [][Next]_vars

\* A thread inside a call keeps running, and a durable callback returns.
Fairness == \A c \in Calls : WF_vars(Step(c))

FairSpec == Spec /\ Fairness

-----------------------------------------------------------------------------
Mutating == {"body", "callback", "commit", "assert", "disown"}
Critical == Mutating \cup {"claim", "release", "read"}

TypeOK ==
    /\ pc \in [Calls -> Labels]
    /\ req \in [Calls -> Requests \cup {Idle}]
    /\ draft \in [Calls -> EvidenceEntry \cup {NoEntry}]
    /\ view \in [Calls -> EvidenceSnapshot \cup {NoSnapshot}]
    /\ lock \in Calls \cup {NoCall}
    /\ owner \in Threads \cup {NoThread}
    /\ entries \in Seq(EvidenceEntry)
    /\ event_ids \subseteq EventIds
    /\ sealed \in BOOLEAN
    /\ completeness \in Completeness
    /\ store \subseteq EvidenceEntry
    /\ refused \in Events \cup {NoEvent}
    /\ budget \in Nat

\* Only the holder of _lock is inside a critical section, and _owner names a
\* thread exactly while one of its calls is between its two assignments.
LockDiscipline ==
    /\ \A c \in Calls : pc[c] \in Critical <=> lock = c
    /\ owner = IF lock # NoCall /\ pc[lock] \in Mutating
               THEN Thread(lock) ELSE NoThread

\* A mutation that runs on a thread whose append or seal is in progress is
\* refused: it never waits for a lock its own thread holds (evidence.py:51-55).
ReentrantMutationRefused ==
    \A t \in Threads :
        ~ /\ pc[Inner(t)] = "lock"
          /\ lock = Outer(t)
          /\ req[Outer(t)].op \in {"append", "seal"}

\* Every snapshot a caller was given passes the verification the finalizer
\* makes, and its chain digest commits to every event in it, in order.
SnapshotsVerify ==
    \A c \in Calls :
        view[c] # NoSnapshot =>
            /\ VerifyChain(view[c])
            /\ view[c].chain_digest = Material(view[c].entries)

\* An event is in the chain at most once, and never one past max_events: the
\* duplicate check and the limit hold for appends that race.
OncePerEvent ==
    /\ Len(entries) <= MaxEvents
    /\ \A i, j \in 1..Len(entries) :
          entries[i].event_id = entries[j].event_id => i = j

\* A sealed snapshot in a caller's hands is the run's last word: no append in
\* flight when it was taken is accepted after it, no second seal rewrites it,
\* and without handlers nobody reads between the assignments of the seal.
SealedSnapshotIsFinal ==
    \A c \in Calls :
        view[c] # NoSnapshot /\ view[c].sealed =>
            /\ sealed
            /\ view[c].entries = entries
            /\ view[c].completeness = completeness

\* Snapshots move forward whoever takes them: a later one extends every
\* earlier one and is never less sealed, the reentrant ones included.
Extends(later, earlier) ==
    /\ Len(earlier.entries) <= Len(later.entries)
    /\ \A i \in 1..Len(earlier.entries) : earlier.entries[i] = later.entries[i]
    /\ earlier.sealed => later.sealed

SnapshotsMoveForward ==
    [][\A c, d \in Calls :
          view'[c] # view[c] /\ view[d] # NoSnapshot =>
              Extends(view'[c], view[d])]_vars

\* The entries the accumulator accepted are entries the store holds, with the
\* same position and digest (tests/test_evidence.py:66).
AcknowledgedAsStored ==
    Durable => \A i \in 1..Len(entries) : entries[i] \in store

\* The store never holds two entries for one position of the chain.
SequenceWrittenOnce ==
    \A s1, s2 \in store : s1.sequence = s2.sequence => s1 = s2

\* A seal that has yet to assert the run's completeness.
Closing == \E c \in Calls : pc[c] = "assert"

\* The accumulator is an evidence log: nothing else is accepted, persisted or
\* closed, and no event is accepted before the store has acknowledged it.  The
\* log closes when seal asserts its completeness; from sealed on, it accepts
\* nothing any more.
Log == INSTANCE EvidenceLog WITH
    Acceptable <- {e \in Events : e.valid /\ e.canonical /\ e.run_id = RunId},
    log <- EventsOf(entries),
    durable <- {s.event_id : s \in store},
    sealed <- sealed /\ ~Closing

ImplementsEvidenceLog == Log!LogSpec

\* No call waits forever: not for the lock, not for its own thread.
EveryCallReturns ==
    \A c \in Calls : pc[c] # "idle" ~> pc[c] = "idle"
=============================================================================
