--------------------- MODULE EvidenceAccumulator_proofs ---------------------
(***************************************************************************)
(* Proofs about EvidenceAccumulator, for any threads, events, limit and    *)
(* bound on calls.                                                         *)
(***************************************************************************)
EXTENDS EvidenceAccumulator, EvidenceChain_proofs, SequenceTheorems, TLAPS

\* Which request a call carries at each place, what has been checked of it by
\* then, and what still holds of the entry it is about to accept.
CallOK(c) ==
    /\ pc[c] # "idle" => req[c] \in Requests
    /\ pc[c] \notin {"idle", "enter"} =>
          /\ req[c].op = "append" =>
                req[c].event.valid /\ req[c].event.run_id = RunId
          /\ req[c].op = "seal" => req[c].completeness \in Completeness
    /\ pc[c] \in {"claim", "body"} => req[c].op \in {"append", "seal"}
    /\ pc[c] = "read" => req[c].op = "snapshot"
    /\ pc[c] = "assert" => req[c].op = "seal" /\ sealed

DraftOK(c) ==
    pc[c] \in {"callback", "commit"} =>
        /\ req[c].op = "append"
        /\ draft[c] = NewEntry(entries, req[c].event)
        /\ req[c].event.event_id \notin event_ids
        /\ req[c].event.canonical
        /\ Len(entries) < MaxEvents
        /\ ~sealed

CallsOK == \A c \in Calls : CallOK(c) /\ DraftOK(c)

LEMMA RequestCases ==
    ASSUME NEW r \in Requests
    PROVE  /\ r.op \in {"append", "seal", "snapshot"}
           /\ r.op = "append" => r.event \in Events
           /\ r.op = "seal" => r.completeness \in SealArgs
BY DEF Requests

LEMMA SnapshotType ==
    ASSUME TypeOK, NEW closed \in BOOLEAN, NEW asserted \in Completeness
    PROVE  Snapshot(closed, asserted) \in EvidenceSnapshot
<1>1. LastDigest(entries) \in Digests
  BY LastDigestType DEF TypeOK
<1>2. RunId \in RunIds /\ CANONICALIZATION_PROFILE \in Profiles
  BY DEF RunIds, Profiles
<1>3. (IF closed THEN asserted ELSE "unknown") \in Completeness
  BY DEF Completeness
<1> QED
  BY <1>1, <1>2, <1>3 DEF Snapshot, EvidenceSnapshot, TypeOK

LEMMA CallsAreFrames ==
    ASSUME NEW c \in Calls
    PROVE  /\ Thread(c) \in Threads
           /\ c # NoCall
           /\ Thread(c) # NoThread
BY NoneAssumption DEF Calls, Thread

-----------------------------------------------------------------------------
(***************************************************************************)
(* Types and the lock.  The two are inductive together: what a call read   *)
(* under the lock still holds when it acts on it only because nobody else  *)
(* can be inside, and nobody else is inside only because of the types.     *)
(***************************************************************************)
LockInv == TypeOK /\ CallsOK /\ LockDiscipline

LEMMA InitLock == Init => LockInv
<1> SUFFICES ASSUME Init PROVE LockInv
  OBVIOUS
<1>1. TypeOK
  <2>1. << >> \in Seq(EvidenceEntry)
    OBVIOUS
  <2>2. pc \in [Calls -> Labels]
    BY DEF Init, Labels
  <2>3. /\ req \in [Calls -> Requests \cup {Idle}]
        /\ draft \in [Calls -> EvidenceEntry \cup {NoEntry}]
        /\ view \in [Calls -> EvidenceSnapshot \cup {NoSnapshot}]
    BY DEF Init
  <2> QED
    BY <2>1, <2>2, <2>3, MaxCallsAssumption DEF Init, TypeOK, Completeness
<1>2. CallsOK
  BY DEF Init, CallsOK, CallOK, DraftOK
<1>3. LockDiscipline
  BY CallsAreFrames DEF Init, LockDiscipline, Critical, Mutating
<1> QED
  BY <1>1, <1>2, <1>3 DEF LockInv

LEMMA CallLock ==
    ASSUME LockInv, NEW c \in Calls, NEW r \in Requests, Call(c, r)
    PROVE  LockInv'
<1> USE DEF LockInv, Call, GoTo, callVars, chainVars
<1>1. TypeOK'
  BY DEF TypeOK, Labels
<1>2. CallsOK'
  BY DEF CallsOK, CallOK, DraftOK, TypeOK
<1>3. LockDiscipline'
  BY DEF LockDiscipline, Critical, Mutating, TypeOK
<1> QED
  BY <1>1, <1>2, <1>3

LEMMA EnterLock ==
    ASSUME LockInv, NEW c \in Calls, Enter(c)
    PROVE  LockInv'
<1> USE DEF LockInv, GoTo, Return, callVars, chainVars
<1>1. Snapshot(sealed, completeness) \in EvidenceSnapshot
  BY SnapshotType DEF TypeOK
<1>2. TypeOK'
  <2>1. pc' \in [Calls -> Labels]
    BY DEF Enter, TypeOK, Labels
  <2>2. req' \in [Calls -> Requests \cup {Idle}]
    BY DEF Enter, TypeOK
  <2>3. view' \in [Calls -> EvidenceSnapshot \cup {NoSnapshot}]
    BY <1>1 DEF Enter, TypeOK
  <2> QED
    BY <2>1, <2>2, <2>3 DEF Enter, TypeOK
<1>3. CallsOK'
  <2>1. ASSUME NEW d \in Calls, d # c
        PROVE  CallOK(d)' /\ DraftOK(d)'
    BY <2>1 DEF Enter, CallsOK, CallOK, DraftOK, TypeOK
  <2>2. req[c] \in Requests
    BY DEF Enter, CallsOK, CallOK
  <2>3. pc \in [Calls -> Labels]
    BY DEF TypeOK
  <2>4. CallOK(c)' /\ DraftOK(c)'
    <3>1. CASE pc' = [pc EXCEPT ![c] = "lock"] /\ UNCHANGED req
      <4>1. /\ req[c].op = "append" =>
                  req[c].event.valid /\ req[c].event.run_id = RunId
            /\ req[c].op = "seal" => req[c].completeness \in Completeness
        BY <2>2, <2>3, <3>1, RequestCases DEF Enter
      <4> QED
        BY <2>2, <2>3, <3>1, <4>1 DEF CallOK, DraftOK
    <3>2. CASE pc' = [pc EXCEPT ![c] = "idle"]
      BY <2>3, <3>2 DEF CallOK, DraftOK
    <3> QED
      BY <3>1, <3>2 DEF Enter
  <2> QED
    BY <2>1, <2>4 DEF CallsOK
<1>4. LockDiscipline'
  BY DEF Enter, LockDiscipline, Critical, Mutating, TypeOK
<1> QED
  BY <1>2, <1>3, <1>4

LEMMA AcquireLock ==
    ASSUME LockInv, NEW c \in Calls, Acquire(c)
    PROVE  LockInv'
<1> USE DEF LockInv, Acquire, GoTo, callVars, chainVars
<1>1. TypeOK'
  BY DEF TypeOK, Labels
<1>2. CallsOK'
  BY RequestCases DEF CallsOK, CallOK, DraftOK, TypeOK
<1>3. LockDiscipline'
  BY CallsAreFrames DEF LockDiscipline, Critical, Mutating, TypeOK
<1> QED
  BY <1>1, <1>2, <1>3

LEMMA ClaimLock ==
    ASSUME LockInv, NEW c \in Calls, Claim(c)
    PROVE  LockInv'
<1> USE DEF LockInv, Claim, GoTo, callVars, chainVars
<1>1. TypeOK'
  BY CallsAreFrames DEF TypeOK, Labels
<1>2. CallsOK'
  BY DEF CallsOK, CallOK, DraftOK, TypeOK
<1>3. LockDiscipline'
  BY CallsAreFrames DEF LockDiscipline, Critical, Mutating, TypeOK
<1> QED
  BY <1>1, <1>2, <1>3

LEMMA AppendBodyLock ==
    ASSUME LockInv, NEW c \in Calls, AppendBody(c)
    PROVE  LockInv'
<1> USE DEF LockInv, GoTo, callVars, chainVars
<1>1. req[c] \in Requests /\ req[c].event \in Events
  BY RequestCases DEF AppendBody, CallsOK, CallOK
<1>2. NewEntry(entries, req[c].event) \in EvidenceEntry
  BY <1>1, NewEntryType DEF TypeOK
<1>3. TypeOK'
  BY <1>2 DEF AppendBody, TypeOK, Labels
<1>4. CallsOK'
  BY DEF AppendBody, CallsOK, CallOK, DraftOK, TypeOK
<1>5. LockDiscipline'
  BY DEF AppendBody, LockDiscipline, Critical, Mutating, TypeOK
<1> QED
  BY <1>3, <1>4, <1>5

LEMMA DurableReturnLock ==
    ASSUME LockInv, NEW c \in Calls, DurableReturn(c)
    PROVE  LockInv'
<1> USE DEF LockInv, GoTo, callVars, chainVars
<1>1. req[c] \in Requests /\ req[c].event \in Events
  BY RequestCases DEF DurableReturn, CallsOK, CallOK, DraftOK
<1>2. draft[c] = NewEntry(entries, req[c].event)
  BY DEF DurableReturn, CallsOK, DraftOK
<1>3. draft[c] \in EvidenceEntry
  BY <1>1, <1>2, NewEntryType DEF TypeOK
<1>4. draft[c].event \in Events
  BY <1>1, <1>2 DEF NewEntry
<1>5. TypeOK'
  BY <1>3, <1>4 DEF DurableReturn, TypeOK, Labels
<1>6. CallsOK'
  BY DEF DurableReturn, CallsOK, CallOK, DraftOK, TypeOK
<1>7. LockDiscipline'
  BY DEF DurableReturn, LockDiscipline, Critical, Mutating, TypeOK
<1> QED
  BY <1>5, <1>6, <1>7

LEMMA CommitLock ==
    ASSUME LockInv, NEW c \in Calls, Commit(c)
    PROVE  LockInv'
<1> USE DEF LockInv, Commit, GoTo, callVars, chainVars
<1>1. req[c] \in Requests /\ req[c].event \in Events
  BY RequestCases DEF CallsOK, CallOK, DraftOK
<1>2. draft[c] = NewEntry(entries, req[c].event)
  BY DEF CallsOK, DraftOK
<1>3. draft[c] \in EvidenceEntry
  BY <1>1, <1>2, NewEntryType DEF TypeOK
<1>4. draft[c].event_id \in EventIds
  BY <1>3 DEF EvidenceEntry
<1>5. entries' \in Seq(EvidenceEntry)
  BY <1>3 DEF TypeOK
<1>6. TypeOK'
  BY <1>4, <1>5 DEF TypeOK, Labels
<1>7. \A d \in Calls : d # c => pc[d] \notin {"callback", "commit"}
  BY DEF LockDiscipline, Critical, Mutating
<1>8. CallsOK'
  BY <1>7 DEF CallsOK, CallOK, DraftOK, TypeOK
<1>9. LockDiscipline'
  BY DEF LockDiscipline, Critical, Mutating, TypeOK
<1> QED
  BY <1>6, <1>8, <1>9

LEMMA SealBodyLock ==
    ASSUME LockInv, NEW c \in Calls, SealBody(c)
    PROVE  LockInv'
<1> USE DEF LockInv, SealBody, GoTo, callVars, chainVars
<1>1. TypeOK'
  BY DEF TypeOK, Labels
<1>2. \A d \in Calls : d # c => pc[d] \notin {"callback", "commit"}
  BY DEF LockDiscipline, Critical, Mutating
<1>3. CallsOK'
  BY <1>2 DEF CallsOK, CallOK, DraftOK, TypeOK
<1>4. LockDiscipline'
  BY DEF LockDiscipline, Critical, Mutating, TypeOK
<1> QED
  BY <1>1, <1>3, <1>4

LEMMA AssertLock ==
    ASSUME LockInv, NEW c \in Calls, AssertCompleteness(c)
    PROVE  LockInv'
<1> USE DEF LockInv, AssertCompleteness, GoTo, callVars, chainVars
<1>1. req[c].completeness \in Completeness /\ sealed \in BOOLEAN
  BY DEF CallsOK, CallOK, TypeOK
<1>2. Snapshot(sealed, req[c].completeness) \in EvidenceSnapshot
  BY <1>1, SnapshotType
<1>3. TypeOK'
  BY <1>1, <1>2 DEF TypeOK, Labels
<1>4. CallsOK'
  BY DEF CallsOK, CallOK, DraftOK, TypeOK
<1>5. LockDiscipline'
  BY DEF LockDiscipline, Critical, Mutating, TypeOK
<1> QED
  BY <1>3, <1>4, <1>5

LEMMA ReadSnapshotLock ==
    ASSUME LockInv, NEW c \in Calls, ReadSnapshot(c)
    PROVE  LockInv'
<1> USE DEF LockInv, ReadSnapshot, GoTo, callVars, chainVars
<1>1. Snapshot(sealed, completeness) \in EvidenceSnapshot
  BY SnapshotType DEF TypeOK
<1>2. TypeOK'
  BY <1>1 DEF TypeOK, Labels
<1>3. CallsOK'
  BY DEF CallsOK, CallOK, DraftOK, TypeOK
<1>4. LockDiscipline'
  BY DEF LockDiscipline, Critical, Mutating, TypeOK
<1> QED
  BY <1>2, <1>3, <1>4

LEMMA DisownLock ==
    ASSUME LockInv, NEW c \in Calls, Disown(c)
    PROVE  LockInv'
<1> USE DEF LockInv, Disown, GoTo, callVars, chainVars
<1>1. TypeOK'
  BY DEF TypeOK, Labels
<1>2. CallsOK'
  BY DEF CallsOK, CallOK, DraftOK, TypeOK
<1>3. LockDiscipline'
  BY CallsAreFrames DEF LockDiscipline, Critical, Mutating, TypeOK
<1> QED
  BY <1>1, <1>2, <1>3

LEMMA ReleaseLock ==
    ASSUME LockInv, NEW c \in Calls, Release(c)
    PROVE  LockInv'
<1> USE DEF LockInv, Release, Return, GoTo, callVars, chainVars
<1>1. TypeOK'
  BY DEF TypeOK, Labels
<1>2. CallsOK'
  BY DEF CallsOK, CallOK, DraftOK, TypeOK
<1>3. LockDiscipline'
  BY CallsAreFrames DEF LockDiscipline, Critical, Mutating, TypeOK
<1> QED
  BY <1>1, <1>2, <1>3

LEMMA StutterLock == LockInv /\ UNCHANGED vars => LockInv'
BY DEF LockInv, TypeOK, CallsOK, CallOK, DraftOK, LockDiscipline, vars,
       callVars, chainVars

LEMMA NextLock == LockInv /\ [Next]_vars => LockInv'
BY CallLock, EnterLock, AcquireLock, ClaimLock, AppendBodyLock,
   DurableReturnLock, CommitLock, SealBodyLock, AssertLock, ReadSnapshotLock,
   DisownLock, ReleaseLock, StutterLock
DEF Next, Step

LEMMA LockInvariant == Spec => []LockInv
<1> QED
  BY InitLock, NextLock, PTL DEF Spec

\* Every variable keeps its type: what an append accepts, what the store is
\* given and what a snapshot hands out are always well-formed records.
THEOREM TypeCorrect == Spec => []TypeOK
<1>1. LockInv => TypeOK
  BY DEF LockInv
<1> QED
  BY <1>1, LockInvariant, PTL

\* Only the holder of _lock is ever inside a critical section, and _owner is
\* set exactly between its two assignments, with or without handlers.
THEOREM LockIsDisciplined == Spec => []LockDiscipline
<1>1. LockInv => LockDiscipline
  BY DEF LockInv
<1> QED
  BY <1>1, LockInvariant, PTL

-----------------------------------------------------------------------------
(***************************************************************************)
(* Reentrance.  Without handlers an inner call exists only while its       *)
(* thread's append is in the durable callback, so _owner names the thread  *)
(* and Enter sends the inner call back at once.                            *)
(***************************************************************************)
NestInv ==
    \A t \in Threads :
        pc[Inner(t)] # "idle" =>
            pc[Inner(t)] = "enter" /\ pc[Outer(t)] = "callback"

LEMMA Frames ==
    /\ \A t \in Threads : /\ Inner(t) \in Calls /\ Outer(t) \in Calls
                          /\ Thread(Inner(t)) = t /\ Thread(Outer(t)) = t
                          /\ Inner(t) # Outer(t)
    /\ \A c \in Calls : c = Inner(Thread(c)) \/ c = Outer(Thread(c))
    /\ \A t, u \in Threads :
          (Inner(t) = Inner(u) \/ Outer(t) = Outer(u)) => t = u
    /\ \A t, u \in Threads : Inner(t) # Outer(u)
BY DEF Calls, Inner, Outer, Thread

\* A call whose thread owns the lock is sent back by Enter.
LEMMA StepNest ==
    ASSUME ~Handlers, LockInv, NestInv, NEW c \in Calls, Step(c)
    PROVE  NestInv'
<1> DEFINE t == Thread(c)
<1>0. t \in Threads /\ pc \in [Calls -> Labels]
  BY CallsAreFrames DEF LockInv, TypeOK
<1>1. ASSUME NEW l, GoTo(c, l), NEW u \in Threads, u # t
      PROVE  pc'[Inner(u)] = pc[Inner(u)] /\ pc'[Outer(u)] = pc[Outer(u)]
  BY <1>0, <1>1, Frames DEF GoTo
<1>2. \E l : GoTo(c, l)
  <2>1. CASE DurableReturn(c)
    <3>1. GoTo(c, "commit") \/ GoTo(c, "disown")
      BY <2>1 DEF DurableReturn, GoTo
    <3> QED
      BY <3>1
  <2> QED
    BY <2>1 DEF Step, Enter, Acquire, Claim, AppendBody, Commit, SealBody,
                AssertCompleteness, ReadSnapshot, Disown, Release, Return
<1>3. Running(c)
  BY DEF Step, Enter, Acquire, Claim, AppendBody, DurableReturn, Commit,
         SealBody, AssertCompleteness, ReadSnapshot, Disown, Release
<1>4. CASE c = Outer(t)
  <2>1. pc[Inner(t)] = "idle" /\ pc'[Inner(t)] = "idle"
    BY <1>0, <1>2, <1>3, <1>4, Frames DEF Running, GoTo
  <2> QED
    BY <1>0, <1>1, <1>2, <2>1 DEF NestInv
<1>5. CASE c = Inner(t)
  <2>1. pc[c] # "idle"
    BY DEF Step, Enter, Acquire, Claim, AppendBody, DurableReturn, Commit,
           SealBody, AssertCompleteness, ReadSnapshot, Disown, Release
  <2>2. pc[c] = "enter" /\ pc[Outer(t)] = "callback"
    BY <1>0, <1>5, <2>1 DEF NestInv
  <2>3. owner = t
    BY <1>0, <2>2, Frames, CallsAreFrames
    DEF LockInv, LockDiscipline, Critical, Mutating
  <2>4. Enter(c)
    BY <2>2 DEF Step, Acquire, Claim, AppendBody, DurableReturn, Commit,
                SealBody, AssertCompleteness, ReadSnapshot, Disown, Release
  <2>5. pc'[c] = "idle"
    BY <1>0, <2>3, <2>4 DEF Enter, Return, GoTo
  <2> QED
    BY <1>0, <1>1, <1>2, <1>5, <2>5 DEF NestInv
<1> QED
  BY <1>4, <1>5, Frames

LEMMA NextNest == ~Handlers /\ LockInv /\ NestInv /\ [Next]_vars => NestInv'
<1> SUFFICES ASSUME ~Handlers, LockInv, NestInv, [Next]_vars
             PROVE  NestInv'
  OBVIOUS
<1>1. ASSUME NEW c \in Calls, NEW r \in Requests, Call(c, r)
      PROVE  NestInv'
  <2>1. pc \in [Calls -> Labels] /\ Thread(c) \in Threads
    BY CallsAreFrames DEF LockInv, TypeOK
  <2>2. pc' = [pc EXCEPT ![c] = "enter"] /\ pc[c] = "idle"
    BY <1>1 DEF Call, GoTo
  <2>3. CASE c = Inner(Thread(c))
    <3>1. pc[Outer(Thread(c))] = "callback"
      BY <1>1, <2>3 DEF Call, MayStart
    <3> QED
      BY <2>1, <2>2, <2>3, <3>1, Frames DEF NestInv
  <2>4. CASE c = Outer(Thread(c))
    <3>1. pc[Inner(Thread(c))] = "idle"
      BY <1>1, <2>4 DEF Call, Running
    <3> QED
      BY <2>1, <2>2, <2>4, <3>1, Frames DEF NestInv
  <2> QED
    BY <2>3, <2>4, Frames
<1>2. ASSUME UNCHANGED vars PROVE NestInv'
  BY <1>2 DEF NestInv, vars, callVars
<1> QED
  BY <1>1, <1>2, StepNest DEF Next

LEMMA InitNest == Init => NestInv
BY Frames DEF Init, NestInv

\* With durable callbacks as the only code that runs inside a call, a
\* mutation that reenters is always refused, never left waiting for its own
\* thread's lock.  The handler run shows that the hypothesis is needed.
THEOREM ReentranceIsRefused ==
    ASSUME ~Handlers
    PROVE  Spec => []ReentrantMutationRefused
<1>1. NestInv => ReentrantMutationRefused
  BY DEF NestInv, ReentrantMutationRefused
<1>2. LockInv /\ NestInv /\ [Next]_vars => NestInv'
  BY NextNest
<1> QED
  BY <1>1, <1>2, InitNest, LockInvariant, PTL DEF Spec

-----------------------------------------------------------------------------
(***************************************************************************)
(* The chain.  Each entry verifies, and its digest is the material of the  *)
(* whole prefix it ends: that is what makes one digest stand for a run.    *)
(***************************************************************************)
ChainOK(es) ==
    \A i \in 1..Len(es) :
        /\ EntryVerifies(es, RunId, i)
        /\ es[i].event.valid
        /\ es[i].event.canonical
        /\ es[i].digest = PrefixMaterial(es, i)

IdsOK ==
    /\ \A i \in 1..Len(entries) : entries[i].event_id \in event_ids
    /\ \A id \in event_ids :
          \E i \in 1..Len(entries) : entries[i].event_id = id

ChainInv == ChainOK(entries) /\ IdsOK /\ OncePerEvent

LEMMA LastDigestIsMaterial ==
    ASSUME NEW es \in Seq(EvidenceEntry), ChainOK(es)
    PROVE  LastDigest(es) = PrefixMaterial(es, Len(es))
<1>1. CASE es = << >>
  BY <1>1 DEF LastDigest, Genesis, PrefixMaterial
<1>2. CASE es # << >>
  <2>1. Len(es) \in 1..Len(es)
    BY <1>2
  <2> QED
    BY <1>2, <2>1 DEF ChainOK, LastDigest
<1> QED
  BY <1>1, <1>2

\* Appending the entry NewEntry makes keeps the chain verifiable.
LEMMA AppendKeepsChain ==
    ASSUME NEW es \in Seq(EvidenceEntry), ChainOK(es), NEW e \in Events,
           e.valid, e.canonical, e.run_id = RunId
    PROVE  ChainOK(Append(es, NewEntry(es, e)))
<1> DEFINE entry == NewEntry(es, e)
           longer == Append(es, entry)
           n == Len(es)
<1>0. n \in Nat
  OBVIOUS
<1>1. entry \in EvidenceEntry
  BY NewEntryType
<1>2. /\ Len(longer) = n + 1
      /\ \A i \in 1..n : longer[i] = es[i]
      /\ longer[n + 1] = entry
  BY <1>1
<1> HIDE DEF longer, entry
<1>3. ASSUME NEW i \in 1..n
      PROVE  /\ EntryVerifies(longer, RunId, i)
             /\ longer[i].event.valid
             /\ longer[i].event.canonical
             /\ longer[i].digest = PrefixMaterial(longer, i)
  <2>1. longer[i] = es[i] /\ (i # 1 => longer[i - 1] = es[i - 1])
    BY <1>0, <1>2
  <2>2. EntryVerifies(es, RunId, i) /\ es[i].event.valid
        /\ es[i].event.canonical /\ es[i].digest = PrefixMaterial(es, i)
    BY DEF ChainOK
  <2>3. PrefixMaterial(longer, i) = PrefixMaterial(es, i)
    BY <1>0, <1>2 DEF PrefixMaterial
  <2> QED
    BY <2>1, <2>2, <2>3 DEF EntryVerifies
<1>4. /\ entry.sequence = n
      /\ entry.event_id = e.event_id
      /\ entry.previous_digest = LastDigest(es)
      /\ entry.digest = Append(LastDigest(es), [sequence |-> n, event |-> e])
      /\ entry.event = e
  BY DEF entry, NewEntry, EntryDigest
<1>5. LastDigest(es) = IF n + 1 = 1 THEN Genesis ELSE longer[n].digest
  BY <1>0, <1>2 DEF LastDigest
<1>6. EntryVerifies(longer, RunId, n + 1)
  BY <1>0, <1>2, <1>4, <1>5 DEF EntryVerifies, EntryDigest
<1>7. longer[n + 1].digest = PrefixMaterial(longer, n + 1)
  <2>1. LastDigest(es) = PrefixMaterial(es, n)
    BY LastDigestIsMaterial
  <2>2. \A i \in 1..n : PrefixMaterial(es, n)[i] =
                            [sequence |-> i - 1, event |-> longer[i].event]
    BY <1>2 DEF PrefixMaterial
  <2>3. LastDigest(es) \in Digests
    BY LastDigestType
  <2>4. Len(LastDigest(es)) = n
    BY <1>0, <2>1, <2>3 DEF PrefixMaterial, Digests
  <2> QED
    BY <1>0, <1>2, <1>4, <2>1, <2>2, <2>3, <2>4 DEF PrefixMaterial, Digests
<1> QED
  BY <1>0, <1>2, <1>3, <1>4, <1>6, <1>7 DEF ChainOK, longer, entry

LEMMA InitChain == Init => ChainInv
BY MaxEventsAssumption
DEF Init, ChainInv, ChainOK, IdsOK, OncePerEvent

LEMMA CommitChain ==
    ASSUME LockInv, ChainInv, NEW c \in Calls, Commit(c)
    PROVE  ChainInv'
<1> DEFINE e == req[c].event
<1>1. /\ req[c] \in Requests
      /\ e \in Events
      /\ e.valid /\ e.canonical /\ e.run_id = RunId
      /\ e.event_id \notin event_ids
      /\ Len(entries) < MaxEvents
      /\ draft[c] = NewEntry(entries, e)
  BY RequestCases DEF LockInv, CallsOK, CallOK, DraftOK, Commit
<1>2. entries \in Seq(EvidenceEntry) /\ entries' = Append(entries, draft[c])
      /\ event_ids' = event_ids \cup {draft[c].event_id}
  BY DEF LockInv, TypeOK, Commit
<1>3. ChainOK(entries)'
  BY <1>1, <1>2, AppendKeepsChain DEF ChainInv
<1>4. draft[c] \in EvidenceEntry /\ draft[c].event_id = e.event_id
  BY <1>1, <1>2, NewEntryType DEF NewEntry
<1>5. /\ Len(entries') = Len(entries) + 1
      /\ \A i \in 1..Len(entries) : entries'[i] = entries[i]
      /\ entries'[Len(entries) + 1] = draft[c]
      /\ Len(entries) \in Nat
  BY <1>2, <1>4
<1>6. IdsOK'
  BY <1>2, <1>5 DEF ChainInv, IdsOK
<1>7. OncePerEvent'
  BY <1>1, <1>4, <1>5, MaxEventsAssumption DEF ChainInv, IdsOK, OncePerEvent
<1> QED
  BY <1>3, <1>6, <1>7 DEF ChainInv

LEMMA NextChain == LockInv /\ ChainInv /\ [Next]_vars => ChainInv'
<1>1. ASSUME UNCHANGED <<entries, event_ids>>, ChainInv PROVE ChainInv'
  BY <1>1 DEF ChainInv, ChainOK, IdsOK, OncePerEvent
<1>2. ASSUME NEW c \in Calls, Step(c), ~Commit(c)
      PROVE  UNCHANGED <<entries, event_ids>>
  BY <1>2 DEF Step, Enter, Acquire, Claim, AppendBody, DurableReturn,
              SealBody, AssertCompleteness, ReadSnapshot, Disown, Release,
              chainVars
<1>3. ASSUME NEW c \in Calls, NEW r \in Requests, Call(c, r)
      PROVE  UNCHANGED <<entries, event_ids>>
  BY <1>3 DEF Call, chainVars
<1>4. UNCHANGED vars => UNCHANGED <<entries, event_ids>>
  BY DEF vars, chainVars
<1> QED
  BY <1>1, <1>2, <1>3, <1>4, CommitChain DEF Next

LEMMA ChainInvariant == Spec => []ChainInv
<1>1. LockInv /\ ChainInv /\ [Next]_vars => ChainInv'
  BY NextChain
<1> QED
  BY <1>1, InitChain, LockInvariant, PTL DEF Spec

\* Racing appends never record one event twice nor pass max_events.
THEOREM EventsAreDistinct == Spec => []OncePerEvent
<1>1. ChainInv => OncePerEvent
  BY DEF ChainInv
<1> QED
  BY <1>1, ChainInvariant, PTL

-----------------------------------------------------------------------------
(***************************************************************************)
(* Snapshots.  Each is a prefix of the chain as it is now, and the whole   *)
(* of it once sealed.  Its completeness is the run's unless a handler read *)
(* it between the two assignments of seal.                                 *)
(***************************************************************************)
ViewOK(v) ==
    /\ v.run_id = RunId
    /\ v.canonicalization_profile = CANONICALIZATION_PROFILE
    /\ v.entries \in Seq(EvidenceEntry)
    /\ v.chain_digest = LastDigest(v.entries)
    /\ Len(v.entries) <= Len(entries)
    /\ \A i \in 1..Len(v.entries) : v.entries[i] = entries[i]
    /\ v.sealed => sealed /\ v.entries = entries

ViewInv == \A c \in Calls : view[c] # NoSnapshot => ViewOK(view[c])

LEMMA InitView == Init => ViewInv
BY DEF Init, ViewInv

\* A step hands out a snapshot of the state it leaves, or none.
LEMMA StepViews ==
    ASSUME LockInv, NEW c \in Calls, Step(c)
    PROVE  \/ view' = view
           \/ /\ view' = [view EXCEPT ![c] = Snapshot(sealed, completeness)']
              /\ entries' = entries
              /\ sealed' = sealed
<1>1. CASE Enter(c)
  BY <1>1 DEF Enter, chainVars, Snapshot
<1>2. CASE AssertCompleteness(c)
  BY <1>2 DEF AssertCompleteness, Snapshot
<1>3. CASE ReadSnapshot(c)
  BY <1>3 DEF ReadSnapshot, chainVars, Snapshot
<1> QED
  BY <1>1, <1>2, <1>3
  DEF Step, Acquire, Claim, AppendBody, DurableReturn, Commit, SealBody, Disown,
      Release

\* The chain only grows, nothing is added after the seal, and no step opens a
\* sealed run.
LEMMA StepChain ==
    ASSUME LockInv, NEW c \in Calls, Step(c)
    PROVE  /\ entries' = entries \/ (entries' = Append(entries, draft[c])
                                     /\ draft[c] \in EvidenceEntry /\ ~sealed)
           /\ sealed => sealed'
<1>1. CASE Commit(c)
  <2>1. draft[c] \in EvidenceEntry
    BY <1>1, RequestCases, NewEntryType
    DEF Commit, LockInv, TypeOK, CallsOK, CallOK, DraftOK
  <2> QED
    BY <1>1, <2>1 DEF Commit, LockInv, CallsOK, DraftOK
<1>2. CASE SealBody(c)
  BY <1>2 DEF SealBody
<1>3. ASSUME ~Commit(c), ~SealBody(c)
      PROVE  entries' = entries /\ sealed' = sealed
  BY <1>3
  DEF Step, Enter, Acquire, Claim, AppendBody, DurableReturn,
      AssertCompleteness, ReadSnapshot, Disown, Release, chainVars
<1> QED
  BY <1>1, <1>2, <1>3

LEMMA StepView ==
    ASSUME LockInv, ViewInv, NEW c \in Calls, Step(c)
    PROVE  ViewInv'
<1>0. view \in [Calls -> EvidenceSnapshot \cup {NoSnapshot}]
      /\ entries \in Seq(EvidenceEntry)
  BY DEF LockInv, TypeOK
<1>1. ASSUME NEW v, ViewOK(v)
      PROVE  ViewOK(v)'
  <2>1. CASE entries' = entries
    BY <1>1, <2>1, StepChain DEF ViewOK
  <2>2. CASE entries' = Append(entries, draft[c])
             /\ draft[c] \in EvidenceEntry /\ ~sealed
    <3>1. /\ Len(entries') = Len(entries) + 1
          /\ \A i \in 1..Len(entries) : entries'[i] = entries[i]
          /\ Len(entries) \in Nat /\ Len(v.entries) \in Nat
      BY <1>0, <1>1, <2>2 DEF ViewOK
    <3> QED
      BY <1>1, <2>2, <3>1 DEF ViewOK
  <2> QED
    BY <2>1, <2>2, StepChain
<1>2. CASE view' = view
  BY <1>1, <1>2 DEF ViewInv
<1>3. CASE /\ view' = [view EXCEPT ![c] = Snapshot(sealed, completeness)']
           /\ entries' = entries
  <2>1. ViewOK(Snapshot(sealed, completeness))'
    BY <1>0, <1>3 DEF ViewOK, Snapshot
  <2> QED
    BY <1>0, <1>1, <1>3, <2>1 DEF ViewInv
<1> QED
  BY <1>2, <1>3, StepViews

LEMMA NextView == LockInv /\ ViewInv /\ [Next]_vars => ViewInv'
<1>1. ASSUME UNCHANGED <<view, entries, sealed>>, ViewInv
      PROVE  ViewInv'
  BY <1>1 DEF ViewInv, ViewOK
<1>2. ASSUME NEW c \in Calls, NEW r \in Requests, Call(c, r)
      PROVE  UNCHANGED <<view, entries, sealed>>
  BY <1>2 DEF Call, chainVars
<1>3. UNCHANGED vars => UNCHANGED <<view, entries, sealed>>
  BY DEF vars, callVars, chainVars
<1> QED
  BY <1>1, <1>2, <1>3, StepView DEF Next

LEMMA ViewInvariant == Spec => []ViewInv
<1>1. LockInv /\ ViewInv /\ [Next]_vars => ViewInv'
  BY NextView
<1> QED
  BY <1>1, InitView, LockInvariant, PTL DEF Spec

\* Whatever threads, callbacks and handlers do, a snapshot in a caller's hands
\* passes the finalizer's check and its digest commits to all of its events.
THEOREM EverySnapshotVerifies == Spec => []SnapshotsVerify
<1>1. ASSUME LockInv, ChainInv, ViewInv, NEW c \in Calls,
             view[c] # NoSnapshot
      PROVE  /\ VerifyChain(view[c])
             /\ view[c].chain_digest = Material(view[c].entries)
  <2> DEFINE v == view[c]
             n == Len(v.entries)
  <2>1. ViewOK(v) /\ ChainOK(entries) /\ entries \in Seq(EvidenceEntry)
    BY <1>1 DEF ViewInv, ChainInv, LockInv, TypeOK
  <2>2. n \in Nat /\ Len(entries) \in Nat /\ v.entries \in Seq(EvidenceEntry)
    BY <2>1 DEF ViewOK
  <2> HIDE DEF v
  <2>3. ChainOK(v.entries)
    <3> SUFFICES ASSUME NEW i \in 1..n
                 PROVE  /\ EntryVerifies(v.entries, RunId, i)
                        /\ v.entries[i].event.valid
                        /\ v.entries[i].event.canonical
                        /\ v.entries[i].digest = PrefixMaterial(v.entries, i)
      BY DEF ChainOK
    <3>1. \A j \in 1..i : j \in 1..Len(entries) /\ v.entries[j] = entries[j]
      BY <2>1, <2>2 DEF ViewOK
    <3>2. i \in 1..i /\ (i # 1 => i - 1 \in 1..i)
      BY <2>2
    <3>3. PrefixMaterial(v.entries, i) = PrefixMaterial(entries, i)
      BY <3>1 DEF PrefixMaterial
    <3> QED
      BY <2>1, <3>1, <3>2, <3>3 DEF ChainOK, EntryVerifies
  <2>4. v.chain_digest = LastDigest(v.entries) /\ v.run_id = RunId
        /\ v.canonicalization_profile = CANONICALIZATION_PROFILE
    BY <2>1 DEF ViewOK
  <2>5. VerifyChain(v)
    BY <2>3, <2>4 DEF VerifyChain, EntriesVerify, ChainOK
  <2>6. LastDigest(v.entries) = Material(v.entries)
    BY <2>2, <2>3, LastDigestIsMaterial DEF Material, PrefixMaterial
  <2> QED
    BY <2>4, <2>5, <2>6 DEF v
<1>2. LockInv /\ ChainInv /\ ViewInv => SnapshotsVerify
  BY <1>1 DEF SnapshotsVerify
<1> QED
  BY <1>2, LockInvariant, ChainInvariant, ViewInvariant, PTL

\* Whatever interrupts a seal, the events of a sealed snapshot are the run's,
\* for ever: no append in flight at the seal is accepted after it.
SealedEntriesAreFinal ==
    \A c \in Calls :
        view[c] # NoSnapshot /\ view[c].sealed => sealed /\ view[c].entries = entries

THEOREM NothingFollowsTheSeal == Spec => []SealedEntriesAreFinal
<1>1. ViewInv => SealedEntriesAreFinal
  BY DEF ViewInv, ViewOK, SealedEntriesAreFinal
<1> QED
  BY <1>1, ViewInvariant, PTL

\* Without handlers nobody holds a sealed snapshot while a seal has yet to
\* assert the completeness, and then that of every sealed snapshot is the run's.
AssertedInv ==
    \A c \in Calls :
        view[c] # NoSnapshot /\ view[c].sealed =>
            ~Closing /\ view[c].completeness = completeness

LEMMA InitAsserted == Init => AssertedInv
BY DEF Init, AssertedInv

\* Nobody reads between the two assignments of seal.
LEMMA ReadersSeeNoClosing ==
    ASSUME ~Handlers, LockInv, NestInv, NEW c \in Calls,
           \/ Enter(c) /\ owner = Thread(c)
           \/ ReadSnapshot(c)
    PROVE  ~Closing
<1> SUFFICES ASSUME NEW d \in Calls, pc[d] = "assert"
             PROVE  FALSE
  BY DEF Closing
<1>1. lock = d /\ owner = Thread(d)
  BY CallsAreFrames DEF LockInv, LockDiscipline, Critical, Mutating
<1>2. CASE ReadSnapshot(c)
  BY <1>1, <1>2 DEF ReadSnapshot, LockInv, LockDiscipline, Critical, Mutating
<1>3. CASE Enter(c) /\ owner = Thread(c)
  <2>1. pc[c] = "enter" /\ Running(c) /\ Thread(c) = Thread(d) /\ c # d
        /\ Thread(c) \in Threads
    BY <1>1, <1>3, CallsAreFrames DEF Enter
  <2>2. \/ c = Inner(Thread(c)) /\ d = Outer(Thread(c))
        \/ c = Outer(Thread(c)) /\ d = Inner(Thread(c))
    BY <2>1, Frames
  <2> QED
    BY <2>1, <2>2 DEF NestInv, Running
<1> QED
  BY <1>2, <1>3

LEMMA StepAsserted ==
    ASSUME ~Handlers, LockInv, NestInv, ViewInv, AssertedInv,
           NEW c \in Calls, Step(c)
    PROVE  AssertedInv'
<1>0. /\ pc \in [Calls -> Labels]
      /\ view \in [Calls -> EvidenceSnapshot \cup {NoSnapshot}]
  BY DEF LockInv, TypeOK
<1>1. CASE SealBody(c)
  <2>1. CASE sealed
    BY <1>0, <1>1, <2>1 DEF SealBody, AssertedInv, Closing, GoTo
  <2>2. CASE ~sealed
    BY <1>1, <2>2 DEF SealBody, AssertedInv, ViewInv, ViewOK
  <2> QED
    BY <2>1, <2>2
<1>2. CASE AssertCompleteness(c)
  <2>1. /\ pc[c] = "assert" /\ pc' = [pc EXCEPT ![c] = "disown"]
        /\ completeness' = req[c].completeness
        /\ view' = [view EXCEPT ![c] = Snapshot(sealed, req[c].completeness)]
    BY <1>2 DEF AssertCompleteness, GoTo
  <2>2. Closing /\ ~Closing'
    <3>1. \A d \in Calls : d # c => pc[d] # "assert"
      BY <2>1 DEF LockInv, LockDiscipline, Critical, Mutating
    <3> QED
      BY <1>0, <2>1, <3>1 DEF Closing
  <2>3. \A d \in Calls : d # c => view'[d] = view[d]
    BY <1>0, <2>1
  <2>4. view'[c].sealed => view'[c].completeness = completeness'
    BY <1>0, <2>1 DEF Snapshot
  <2> QED
    BY <2>2, <2>3, <2>4 DEF AssertedInv
<1>3. ASSUME ~SealBody(c), ~AssertCompleteness(c)
      PROVE  AssertedInv'
  <2>1. completeness' = completeness /\ (Closing' => Closing)
    <3>1. /\ completeness' = completeness
          /\ \A d \in Calls : pc'[d] = "assert" => pc[d] = "assert"
      BY <1>0, <1>3
      DEF Step, Enter, Acquire, Claim, AppendBody, DurableReturn, Commit,
          ReadSnapshot, Disown, Release, Return, GoTo, chainVars
    <3> QED
      BY <3>1 DEF Closing
  <2>2. CASE view' = view
    BY <2>1, <2>2 DEF AssertedInv
  <2>3. CASE view' # view
    <3>1. \/ Enter(c) /\ owner = Thread(c)
          \/ ReadSnapshot(c)
      <4>1. Enter(c) \/ ReadSnapshot(c)
        BY <1>3, <2>3
        DEF Step, Acquire, Claim, AppendBody, DurableReturn, Commit, Disown,
            Release
      <4>2. Enter(c) => owner = Thread(c)
        BY <2>3 DEF Enter
      <4> QED
        BY <4>1, <4>2
    <3>2. ~Closing
      BY <3>1, ReadersSeeNoClosing
    <3>3. view' = [view EXCEPT ![c] = Snapshot(sealed, completeness)']
      BY <2>3, StepViews
    <3>4. \A d \in Calls : d # c => view'[d] = view[d]
      BY <1>0, <3>3
    <3>5. view'[c].sealed => view'[c].completeness = completeness'
      BY <1>0, <3>3 DEF Snapshot
    <3> QED
      BY <2>1, <3>2, <3>4, <3>5 DEF AssertedInv
  <2> QED
    BY <2>2, <2>3
<1> QED
  BY <1>1, <1>2, <1>3

LEMMA NextAsserted ==
    ~Handlers /\ LockInv /\ NestInv /\ ViewInv /\ AssertedInv /\ [Next]_vars
        => AssertedInv'
<1> SUFFICES ASSUME ~Handlers, LockInv, NestInv, ViewInv, AssertedInv,
                    [Next]_vars
             PROVE  AssertedInv'
  OBVIOUS
<1>0. pc \in [Calls -> Labels]
  BY DEF LockInv, TypeOK
<1>1. ASSUME NEW c \in Calls, NEW r \in Requests, Call(c, r)
      PROVE  AssertedInv'
  <2>1. UNCHANGED <<view, completeness>>
        /\ \A d \in Calls : pc'[d] = "assert" => pc[d] = "assert"
    BY <1>0, <1>1 DEF Call, GoTo, chainVars
  <2> QED
    BY <2>1 DEF AssertedInv, Closing
<1>2. ASSUME UNCHANGED vars PROVE AssertedInv'
  BY <1>2 DEF vars, callVars, chainVars, AssertedInv, Closing
<1> QED
  BY <1>1, <1>2, StepAsserted DEF Next

\* Without handlers a sealed snapshot is the run's last word, for any number of
\* threads with appends in flight when the run is sealed, whatever their durable
\* callbacks read.  A handler that reads between the two assignments of seal
\* (evidence.py:160-161) gets another completeness, so the hypothesis is needed.
THEOREM SealIsFinal ==
    ASSUME ~Handlers
    PROVE  Spec => []SealedSnapshotIsFinal
<1>1. ViewInv /\ AssertedInv => SealedSnapshotIsFinal
  BY DEF ViewInv, ViewOK, AssertedInv, SealedSnapshotIsFinal
<1>2. LockInv /\ NestInv /\ [Next]_vars => NestInv'
  BY NextNest
<1>3. LockInv /\ NestInv /\ ViewInv /\ AssertedInv /\ [Next]_vars => AssertedInv'
  BY NextAsserted
<1> QED
  BY <1>1, <1>2, <1>3, InitNest, InitAsserted, LockInvariant, ViewInvariant, PTL
  DEF Spec

\* Reads move forward across all threads and frames.
THEOREM ReadsMoveForward == Spec => SnapshotsMoveForward
<1> DEFINE Forward == \A c, d \in Calls :
                view'[c] # view[c] /\ view[d] # NoSnapshot =>
                    Extends(view'[c], view[d])
<1>1. ASSUME LockInv, ViewInv, NEW c \in Calls, Step(c)
      PROVE  Forward
  <2>1. CASE view' = view
    BY <2>1
  <2>2. CASE /\ view' = [view EXCEPT ![c] = Snapshot(sealed, completeness)']
             /\ entries' = entries
             /\ sealed' = sealed
    <3>1. view \in [Calls -> EvidenceSnapshot \cup {NoSnapshot}]
          /\ sealed \in BOOLEAN
      BY <1>1 DEF LockInv, TypeOK
    <3>2. \A b \in Calls : view'[b] # view[b] =>
              b = c /\ view'[b] = Snapshot(sealed, completeness)'
      BY <2>2, <3>1
    <3>3. ASSUME NEW d \in Calls, view[d] # NoSnapshot
          PROVE  Extends(Snapshot(sealed, completeness)', view[d])
      <4>1. ViewOK(view[d])
        BY <1>1, <3>3 DEF ViewInv
      <4> QED
        BY <2>2, <4>1 DEF ViewOK, Extends, Snapshot
    <3> QED
      BY <3>2, <3>3
  <2> QED
    BY <1>1, <2>1, <2>2, StepViews
<1>2. ASSUME NEW c \in Calls, NEW r \in Requests, Call(c, r)
      PROVE  Forward
  BY <1>2 DEF Call
<1>3. UNCHANGED vars => Forward
  BY DEF vars, callVars
<1>4. LockInv /\ ViewInv /\ [Next]_vars => [Forward]_vars
  BY <1>1, <1>2, <1>3 DEF Next
<1> QED
  BY <1>4, LockInvariant, ViewInvariant, PTL DEF Spec, SnapshotsMoveForward

-----------------------------------------------------------------------------
(***************************************************************************)
(* Refinement.  Commit is the log's Accept, AssertCompleteness its Seal,   *)
(* and the callback that writes an entry its Persist; all else stutters.   *)
(* SealBody stutters too: sealed is set, but the seal is still Closing.    *)
(***************************************************************************)
Admitted == {e \in Events : e.valid /\ e.canonical /\ e.run_id = RunId}

Persisted == {s.event_id : s \in store}

DurableInv ==
    \A c \in Calls :
        /\ pc[c] = "callback" => Durable
        /\ pc[c] = "commit" /\ Durable => draft[c].event_id \in Persisted

LEMMA InitDurable == Init => DurableInv
BY DEF Init, DurableInv

LEMMA NextDurable == LockInv /\ DurableInv /\ [Next]_vars => DurableInv'
<1> SUFFICES ASSUME LockInv, DurableInv, [Next]_vars
             PROVE  DurableInv'
  OBVIOUS
<1>0. pc \in [Calls -> Labels] /\ draft \in [Calls -> EvidenceEntry \cup {NoEntry}]
  BY DEF LockInv, TypeOK
<1>1. ASSUME NEW c \in Calls, DurableReturn(c)
      PROVE  DurableInv'
  <2>1. store \subseteq store'
    BY <1>1 DEF DurableReturn
  <2>2. pc'[c] = "commit" => draft[c].event_id \in Persisted'
    BY <1>0, <1>1 DEF DurableReturn, GoTo, Persisted
  <2>3. \A d \in Calls : d # c => pc'[d] = pc[d]
    BY <1>0, <1>1 DEF DurableReturn, GoTo
  <2>4. pc'[c] # "callback" /\ draft' = draft
    BY <1>0, <1>1 DEF DurableReturn, GoTo
  <2> QED
    BY <2>1, <2>2, <2>3, <2>4 DEF DurableInv, Persisted
<1>2. ASSUME NEW c \in Calls, AppendBody(c)
      PROVE  DurableInv'
  BY <1>0, <1>2 DEF AppendBody, DurableInv, Persisted, GoTo
<1>3. ASSUME NEW c \in Calls, NEW r \in Requests, Call(c, r)
      PROVE  DurableInv'
  BY <1>0, <1>3 DEF Call, DurableInv, Persisted, GoTo
<1>4. ASSUME UNCHANGED vars PROVE DurableInv'
  BY <1>4 DEF vars, callVars, DurableInv, Persisted
<1>5. ASSUME NEW c \in Calls, \/ Enter(c) \/ Acquire(c) \/ Claim(c)
                              \/ Commit(c) \/ SealBody(c)
                              \/ AssertCompleteness(c) \/ ReadSnapshot(c)
                              \/ Disown(c) \/ Release(c)
      PROVE  DurableInv'
  BY <1>0, <1>5
  DEF Enter, Acquire, Claim, Commit, SealBody, AssertCompleteness,
      ReadSnapshot, Disown, Release,
      DurableInv, Persisted, GoTo, Return
<1> QED
  BY <1>1, <1>2, <1>3, <1>4, <1>5 DEF Next, Step

LEMMA DurableInvariant == Spec => []DurableInv
<1>1. LockInv /\ DurableInv /\ [Next]_vars => DurableInv'
  BY NextDurable
<1> QED
  BY <1>1, InitDurable, LockInvariant, PTL DEF Spec

LEMMA AcceptedIds ==
    ASSUME ChainInv, LockInv
    PROVE  /\ Len(EventsOf(entries)) = Len(entries)
           /\ {EventsOf(entries)[i].event_id : i \in 1..Len(entries)} = event_ids
<1>1. Len(entries) \in Nat
  BY DEF LockInv, TypeOK
<1>2. \A i \in 1..Len(entries) :
          EventsOf(entries)[i].event_id = entries[i].event_id
  BY DEF EventsOf, ChainInv, ChainOK, EntryVerifies
<1> QED
  BY <1>1, <1>2 DEF EventsOf, ChainInv, IdsOK

\* The log is closed when the run is sealed and its seal has come to an end.
Closed == sealed /\ ~Closing

\* Only the two steps of a seal change whether one is under way.
LEMMA StepClosing ==
    ASSUME LockInv, NEW c \in Calls, Step(c), ~SealBody(c),
           ~AssertCompleteness(c)
    PROVE  Closed' = Closed /\ UNCHANGED <<sealed, completeness>>
<1>0. pc \in [Calls -> Labels] /\ sealed \in BOOLEAN
  BY DEF LockInv, TypeOK
<1>1. \A d \in Calls : pc'[d] = "assert" <=> pc[d] = "assert"
  BY <1>0
  DEF Step, Enter, Acquire, Claim, AppendBody, DurableReturn, Commit,
      ReadSnapshot, Disown, Release, Return, GoTo
<1>2. UNCHANGED <<sealed, completeness>>
  BY DEF Step, Enter, Acquire, Claim, AppendBody, DurableReturn, Commit,
         ReadSnapshot, Disown, Release, chainVars
<1> QED
  BY <1>0, <1>1, <1>2 DEF Closed, Closing

LEMMA CommitAccepts ==
    ASSUME LockInv, ChainInv, DurableInv, NEW c \in Calls, Commit(c)
    PROVE  \E e \in Admitted : Log!Accept(e)
<1> DEFINE e == req[c].event
<1>1. /\ req[c] \in Requests
      /\ e \in Admitted
      /\ e.event_id \notin event_ids
      /\ Len(entries) < MaxEvents
      /\ ~sealed
      /\ draft[c] = NewEntry(entries, e)
      /\ pc[c] = "commit"
  BY RequestCases
  DEF LockInv, CallsOK, CallOK, DraftOK, Commit, Admitted
<1>2. entries \in Seq(EvidenceEntry) /\ entries' = Append(entries, draft[c])
      /\ UNCHANGED <<sealed, completeness, store>>
  BY DEF LockInv, TypeOK, Commit
<1>3. /\ draft[c] \in EvidenceEntry
      /\ draft[c].event_id = e.event_id
      /\ draft[c].event = e
  BY <1>1, <1>2, NewEntryType DEF NewEntry, Admitted
<1>4. EventsOf(entries)' = Append(EventsOf(entries), e)
  <2>1. /\ Len(entries') = Len(entries) + 1
        /\ \A i \in 1..Len(entries) : entries'[i] = entries[i]
        /\ entries'[Len(entries) + 1] = draft[c]
        /\ Len(entries) \in Nat
    BY <1>2, <1>3
  <2>2. EventsOf(entries) \in Seq(Events)
        /\ Len(EventsOf(entries)) = Len(entries)
    <3>1. \A entry \in EvidenceEntry : entry.event \in Events
      BY DEF EvidenceEntry
    <3>2. \A i \in 1..Len(entries) : entries[i].event \in Events
      BY <1>2, <3>1
    <3>3. EventsOf(entries) \in [1..Len(entries) -> Events]
      BY <3>2 DEF EventsOf
    <3> QED
      BY <2>1, <3>3
  <2>3. EventsOf(entries)' = [i \in 1..(Len(entries) + 1) |-> entries'[i].event]
    BY <2>1 DEF EventsOf
  <2>4. \A i \in 1..Len(entries) : EventsOf(entries)[i] = entries'[i].event
    BY <2>1 DEF EventsOf
  <2> QED
    BY <1>3, <2>1, <2>2, <2>3, <2>4 DEF Admitted
<1>5. Durable => e.event_id \in Persisted
  BY <1>1, <1>3 DEF DurableInv
<1>6. e.event_id \notin Log!Accepted /\ Len(EventsOf(entries)) < MaxEvents
  BY <1>1, AcceptedIds DEF Log!Accepted
<1>7. Closed' = Closed /\ ~Closed
  <2>1. Step(c) /\ ~SealBody(c) /\ ~AssertCompleteness(c)
    BY DEF Step, Commit, SealBody, AssertCompleteness
  <2> QED
    BY <1>1, <2>1, StepClosing DEF Closed
<1> QED
  BY <1>1, <1>2, <1>4, <1>5, <1>6, <1>7 DEF Log!Accept, Persisted, Closed

LEMMA ReturnPersists ==
    ASSUME LockInv, ChainInv, DurableInv, NEW c \in Calls, DurableReturn(c)
    PROVE  (\E e \in Admitted : Log!Persist(e)) \/ UNCHANGED Log!logVars
<1> DEFINE e == req[c].event
<1>1. /\ req[c] \in Requests
      /\ e \in Admitted
      /\ e.event_id \notin event_ids
      /\ Len(entries) < MaxEvents
      /\ ~sealed
      /\ draft[c] = NewEntry(entries, e)
      /\ pc[c] = "callback"
      /\ Durable
  BY RequestCases
  DEF LockInv, CallsOK, CallOK, DraftOK, DurableReturn, Admitted, DurableInv
<1>2. UNCHANGED <<entries, completeness>> /\ Closed' = Closed /\ ~Closed
  <2>1. Step(c) /\ ~SealBody(c) /\ ~AssertCompleteness(c)
    BY DEF Step, DurableReturn, SealBody, AssertCompleteness
  <2> QED
    BY <1>1, <2>1, StepClosing DEF DurableReturn, chainVars, Closed
<1>3. draft[c].event_id = e.event_id
  BY <1>1 DEF NewEntry
<1>4. store' = store \/ Persisted' = Persisted \cup {e.event_id}
  BY <1>3 DEF DurableReturn, Persisted
<1>5. e.event_id \notin Log!Accepted /\ Len(EventsOf(entries)) < MaxEvents
  BY <1>1, AcceptedIds DEF Log!Accepted
<1>6. CASE store' = store
  BY <1>2, <1>6 DEF Log!logVars, EventsOf, Closed
<1>7. CASE Persisted' = Persisted \cup {e.event_id}
  <2>1. Log!Persist(e)
    BY <1>1, <1>2, <1>5, <1>7 DEF Log!Persist, Persisted, EventsOf, Closed
  <2> QED
    BY <1>1, <2>1 DEF Log!Persist
<1> QED
  BY <1>4, <1>6, <1>7

\* The accumulator implements the evidence log: each event is accepted once,
\* at the end, after the store acknowledged it, and nothing follows the seal.
THEOREM Implementation == Spec => ImplementsEvidenceLog
<1>1. Init => Log!LogInit
  BY DEF Init, Log!LogInit, EventsOf
<1>2. ASSUME LockInv, ChainInv, DurableInv, [Next]_vars
      PROVE  [Log!LogNext]_Log!logVars
  <2>1. ASSUME NEW c \in Calls, Commit(c)
        PROVE  Log!LogNext
    BY <1>2, <2>1, CommitAccepts DEF Log!LogNext, Admitted
  <2>2. ASSUME NEW c \in Calls, DurableReturn(c)
        PROVE  Log!LogNext \/ UNCHANGED Log!logVars
    BY <1>2, <2>2, ReturnPersists DEF Log!LogNext, Admitted
  <2>0. pc \in [Calls -> Labels] /\ sealed \in BOOLEAN
    BY <1>2 DEF LockInv, TypeOK
  <2>3. ASSUME NEW c \in Calls, SealBody(c)
        PROVE  UNCHANGED Log!logVars
    <3>1. CASE sealed
      <4>1. \A d \in Calls : pc'[d] = "assert" <=> pc[d] = "assert"
        BY <2>0, <2>3, <3>1 DEF SealBody, GoTo
      <4> QED
        BY <2>0, <2>3, <3>1, <4>1 DEF SealBody, Log!logVars, Closing
    <3>2. CASE ~sealed
      <4>1. pc'[c] = "assert"
        BY <2>0, <2>3, <3>2 DEF SealBody, GoTo
      <4> QED
        BY <2>0, <2>3, <3>2, <4>1 DEF SealBody, Log!logVars, Closing
    <3> QED
      BY <3>1, <3>2
  <2>4. ASSUME NEW c \in Calls, AssertCompleteness(c)
        PROVE  Log!LogNext
    <3>1. req[c].completeness \in Completeness /\ sealed /\ pc[c] = "assert"
      BY <1>2, <2>4 DEF AssertCompleteness, LockInv, CallsOK, CallOK
    <3>2. Closing
      BY <3>1 DEF Closing
    <3>3. ~Closing'
      <4>1. \A d \in Calls : d # c => pc[d] # "assert"
        BY <1>2, <3>1 DEF LockInv, LockDiscipline, Critical, Mutating
      <4>2. pc' = [pc EXCEPT ![c] = "disown"]
        BY <2>4 DEF AssertCompleteness, GoTo
      <4> QED
        BY <2>0, <4>1, <4>2 DEF Closing
    <3>4. Log!Seal(req[c].completeness)
      BY <2>0, <2>4, <3>1, <3>2, <3>3 DEF AssertCompleteness, Log!Seal
    <3> QED
      BY <3>1, <3>4 DEF Log!LogNext, Completeness
  <2>5. ASSUME NEW c \in Calls, \/ Enter(c) \/ Acquire(c) \/ Claim(c)
                                \/ AppendBody(c) \/ ReadSnapshot(c)
                                \/ Disown(c) \/ Release(c)
        PROVE  UNCHANGED Log!logVars
    <3>1. UNCHANGED <<entries, store>>
      BY <2>5
      DEF Enter, Acquire, Claim, AppendBody, ReadSnapshot, Disown, Release,
          chainVars
    <3>2. Step(c) /\ ~SealBody(c) /\ ~AssertCompleteness(c)
      BY <1>2, <2>5
      DEF Step, Enter, Acquire, Claim, AppendBody, ReadSnapshot, Disown,
          Release, SealBody, AssertCompleteness, LockInv, CallsOK, CallOK
    <3>3. Closed' = Closed /\ UNCHANGED completeness
      BY <1>2, <3>2, StepClosing
    <3> QED
      BY <3>1, <3>3 DEF Log!logVars, EventsOf, Closed
  <2>6. ASSUME NEW c \in Calls, NEW r \in Requests, Call(c, r)
        PROVE  UNCHANGED Log!logVars
    <3>1. UNCHANGED <<entries, store, sealed, completeness>>
          /\ \A d \in Calls : pc'[d] = "assert" <=> pc[d] = "assert"
      BY <2>0, <2>6 DEF Call, GoTo, chainVars
    <3> QED
      BY <2>0, <3>1 DEF Log!logVars, Closing, EventsOf
  <2>7. UNCHANGED vars => UNCHANGED Log!logVars
    BY DEF vars, callVars, chainVars, Log!logVars, Closing, EventsOf
  <2> QED
    BY <1>2, <2>1, <2>2, <2>3, <2>4, <2>5, <2>6, <2>7 DEF Next, Step
<1> QED
  BY <1>1, <1>2, LockInvariant, ChainInvariant, DurableInvariant, PTL
  DEF Spec, ImplementsEvidenceLog, Log!LogSpec

-----------------------------------------------------------------------------
(***************************************************************************)
(* A writer that retries first.  Whatever the store holds beyond the chain *)
(* is the one entry the pending append would make.                         *)
(***************************************************************************)
OneWriter ==
    /\ \A c, d \in Calls :
          req[c].op = "append" /\ req[d].op = "append" => c = d
    /\ \A c \in Calls :
          req[c].op = "append" => refused \in {NoEvent, req[c].event}

InChain(s) == \E i \in 1..Len(entries) : entries[i] = s

Pending(s) ==
    /\ s = NewEntry(entries, s.event)
    /\ \/ s.event = refused
       \/ \E c \in Calls : pc[c] = "commit" /\ draft[c] = s

StoreInv ==
    /\ OneWriter
    /\ \A s \in store : InChain(s) \/ Pending(s)
    /\ AcknowledgedAsStored
    /\ \A c \in Calls : pc[c] = "commit" /\ Durable => draft[c] \in store

LEMMA InitStore == Init => StoreInv
BY NoneAssumption
DEF Init, StoreInv, OneWriter, Idle, AcknowledgedAsStored

LEMMA CallStore ==
    ASSUME RetryFirst, LockInv, StoreInv,
           NEW c \in Calls, NEW r \in Requests, Call(c, r)
    PROVE  StoreInv'
<1>0. pc \in [Calls -> Labels] /\ req \in [Calls -> Requests \cup {Idle}]
  BY DEF LockInv, TypeOK
<1>1. OneWriter'
  BY <1>0 DEF Call, StoreInv, OneWriter, WriterMayAppend
<1>2. UNCHANGED <<store, entries, refused, draft>>
      /\ \A d \in Calls : pc'[d] = "commit" <=> pc[d] = "commit"
  BY <1>0 DEF Call, GoTo, chainVars
<1> QED
  BY <1>1, <1>2 DEF StoreInv, InChain, Pending, AcknowledgedAsStored

LEMMA ReturnStore ==
    ASSUME RetryFirst, LockInv, ChainInv, DurableInv, StoreInv,
           NEW c \in Calls, DurableReturn(c)
    PROVE  StoreInv'
<1> DEFINE e == req[c].event
<1>0. pc \in [Calls -> Labels] /\ store \subseteq EvidenceEntry
      /\ entries \in Seq(EvidenceEntry)
  BY DEF LockInv, TypeOK
<1>1. /\ req[c].op = "append" /\ e \in Events
      /\ e.event_id \notin event_ids
      /\ draft[c] = NewEntry(entries, e)
      /\ draft[c].event = e /\ draft[c].event_id = e.event_id
  BY RequestCases
  DEF LockInv, CallsOK, CallOK, DraftOK, DurableReturn, NewEntry
<1>2. \A d \in Calls : d # c => pc[d] \notin {"callback", "commit"}
  BY DEF DurableReturn, LockInv, LockDiscipline, Critical, Mutating
<1>3. /\ UNCHANGED <<req, draft, entries>>
      /\ pc[c] = "callback"
      /\ \A d \in Calls : d # c => pc'[d] = pc[d]
      /\ refused' \in {refused, e}
  BY <1>0, <1>1 DEF DurableReturn, GoTo, chainVars
<1>4. OneWriter'
  <2>1. \A d \in Calls : req[d].op = "append" => d = c
    BY <1>1 DEF StoreInv, OneWriter
  <2>2. refused \in {NoEvent, e}
    BY <1>1 DEF StoreInv, OneWriter
  <2>3. refused' \in {NoEvent, e} /\ req' = req
    BY <1>3, <2>2
  <2> QED
    BY <2>1, <2>3 DEF OneWriter
<1>5. ASSUME NEW s \in store, s.event_id = e.event_id
      PROVE  s = draft[c]
  <2>1. ~InChain(s)
    BY <1>0, <1>1, <1>5 DEF InChain, ChainInv, IdsOK
  <2>2. Pending(s)
    BY <2>1 DEF StoreInv
  <2>3. s.event = refused /\ s.event \in Events
    BY <1>0, <1>2, <1>3, <2>2 DEF Pending, EvidenceEntry
  <2>4. s.event = e
    BY <1>1, <2>3, NoneAssumption DEF StoreInv, OneWriter
  <2> QED
    BY <1>1, <2>2, <2>4 DEF Pending
<1>6. pc'[c] = "commit" => draft[c] \in store'
  BY <1>0, <1>1, <1>5 DEF DurableReturn, GoTo
<1>7. store' \in {store, store \cup {draft[c]}} /\ store \subseteq store'
  BY DEF DurableReturn
<1>8. pc'[c] = "commit" \/ refused' = e
  BY <1>0, <1>1 DEF DurableReturn, GoTo
<1>9. ASSUME NEW s \in store'
      PROVE  InChain(s)' \/ Pending(s)'
  <2>1. CASE s = draft[c]
    BY <1>1, <1>3, <1>8, <2>1 DEF Pending
  <2>2. CASE s \in store /\ InChain(s)
    BY <1>3, <2>2 DEF InChain
  <2>3. CASE s \in store /\ Pending(s)
    <3>1. s.event = refused /\ s.event \in Events
      BY <1>0, <1>2, <1>3, <2>3 DEF Pending, EvidenceEntry
    <3>2. s.event = e
      BY <1>1, <3>1, NoneAssumption DEF StoreInv, OneWriter
    <3> QED
      BY <1>1, <2>1, <2>3, <3>2 DEF Pending
  <2> QED
    BY <1>7, <2>1, <2>2, <2>3 DEF StoreInv
<1>10. AcknowledgedAsStored'
  BY <1>3, <1>7 DEF StoreInv, AcknowledgedAsStored
<1> QED
  BY <1>2, <1>3, <1>4, <1>6, <1>9, <1>10 DEF StoreInv

LEMMA CommitStore ==
    ASSUME RetryFirst, LockInv, StoreInv, NEW c \in Calls, Commit(c)
    PROVE  StoreInv'
<1> DEFINE e == req[c].event
<1>0. pc \in [Calls -> Labels] /\ store \subseteq EvidenceEntry
      /\ entries \in Seq(EvidenceEntry)
  BY DEF LockInv, TypeOK
<1>1. /\ req[c].op = "append" /\ e \in Events
      /\ draft[c] = NewEntry(entries, e)
      /\ draft[c].event = e
      /\ draft[c] \in EvidenceEntry
  BY <1>0, RequestCases, NewEntryType
  DEF LockInv, CallsOK, CallOK, DraftOK, Commit, NewEntry
<1>2. \A d \in Calls : d # c => pc[d] # "commit"
  BY DEF Commit, LockInv, LockDiscipline, Critical, Mutating
<1>3. /\ UNCHANGED <<req, draft, store>>
      /\ \A d \in Calls : pc'[d] # "commit"
      /\ refused' \in {refused, NoEvent}
  BY <1>0, <1>2 DEF Commit, GoTo
<1>4. /\ Len(entries') = Len(entries) + 1
      /\ \A i \in 1..Len(entries) : entries'[i] = entries[i]
      /\ entries'[Len(entries) + 1] = draft[c]
      /\ Len(entries) \in Nat
  BY <1>0, <1>1 DEF Commit
<1>5. OneWriter'
  BY <1>3 DEF StoreInv, OneWriter
<1>6. InChain(draft[c])'
  BY <1>3, <1>4 DEF InChain
<1>7. ASSUME NEW s \in store
      PROVE  InChain(s)'
  <2>1. CASE InChain(s)
    BY <1>4, <2>1 DEF InChain
  <2>2. CASE Pending(s)
    <3>1. s.event = refused => s = draft[c]
      <4>1. s.event \in Events
        BY <1>0 DEF EvidenceEntry
      <4>2. s.event = refused => s.event = e
        BY <1>1, <4>1, NoneAssumption DEF StoreInv, OneWriter
      <4> QED
        BY <1>1, <2>2, <4>2 DEF Pending
    <3>2. s = draft[c]
      BY <1>2, <2>2, <3>1 DEF Pending
    <3> QED
      BY <1>3, <1>4, <3>2 DEF InChain
  <2> QED
    BY <2>1, <2>2 DEF StoreInv
<1>8. AcknowledgedAsStored'
  <2>1. Durable => draft[c] \in store
    BY DEF StoreInv, Commit
  <2> QED
    BY <1>3, <1>4, <2>1 DEF StoreInv, AcknowledgedAsStored
<1> QED
  BY <1>3, <1>5, <1>7, <1>8 DEF StoreInv

LEMMA OtherStore ==
    ASSUME LockInv, StoreInv, NEW c \in Calls,
           \/ Enter(c) \/ Acquire(c) \/ Claim(c) \/ AppendBody(c)
           \/ SealBody(c) \/ AssertCompleteness(c) \/ ReadSnapshot(c)
           \/ Disown(c) \/ Release(c)
    PROVE  StoreInv'
<1>0. pc \in [Calls -> Labels] /\ req \in [Calls -> Requests \cup {Idle}]
      /\ draft \in [Calls -> EvidenceEntry \cup {NoEntry}]
  BY DEF LockInv, TypeOK
<1>1. UNCHANGED <<store, refused, entries>>
  BY DEF Enter, Acquire, Claim, AppendBody, SealBody,
         AssertCompleteness, ReadSnapshot, Disown, Release, chainVars
<1>2. \A d \in Calls : req'[d] = req[d] \/ req'[d] = Idle
  BY <1>0
  DEF Enter, Acquire, Claim, AppendBody, SealBody,
      AssertCompleteness, ReadSnapshot, Disown, Release, Return
<1>3. OneWriter'
  BY <1>1, <1>2 DEF StoreInv, OneWriter, Idle
<1>4. \A d \in Calls : pc[d] = "commit" =>
          pc'[d] = "commit" /\ draft'[d] = draft[d]
  BY <1>0
  DEF Enter, Acquire, Claim, AppendBody, SealBody,
      AssertCompleteness, ReadSnapshot, Disown, Release, Return, GoTo
<1>5. \A d \in Calls : pc'[d] = "commit" /\ Durable =>
          pc[d] = "commit" /\ draft'[d] = draft[d]
  BY <1>0
  DEF Enter, Acquire, Claim, AppendBody, SealBody,
      AssertCompleteness, ReadSnapshot, Disown, Release, Return, GoTo
<1> QED
  BY <1>1, <1>3, <1>4, <1>5 DEF StoreInv, InChain, Pending, AcknowledgedAsStored

LEMMA NextStore ==
    RetryFirst /\ LockInv /\ ChainInv /\ DurableInv /\ StoreInv /\ [Next]_vars
        => StoreInv'
<1>1. ASSUME UNCHANGED vars, StoreInv PROVE StoreInv'
  BY <1>1
  DEF vars, callVars, chainVars, StoreInv, OneWriter, InChain, Pending,
      AcknowledgedAsStored
<1> QED
  BY <1>1, CallStore, ReturnStore, CommitStore, OtherStore DEF Next, Step

LEMMA StoreInvariant ==
    ASSUME RetryFirst
    PROVE  Spec => []StoreInv
<1>1. LockInv /\ ChainInv /\ DurableInv /\ StoreInv /\ [Next]_vars => StoreInv'
  BY NextStore
<1> QED
  BY <1>1, InitStore, LockInvariant, ChainInvariant, DurableInvariant, PTL
  DEF Spec

\* With a writer that retries a refused event before any other, the entries
\* it was acknowledged are the entries the store holds.  The lost-ack run
\* shows that a store idempotent by event_id does not ensure it alone.
THEOREM RetryKeepsStoreAndChainEqual ==
    ASSUME RetryFirst
    PROVE  Spec => []AcknowledgedAsStored
<1>1. StoreInv => AcknowledgedAsStored
  BY DEF StoreInv
<1> QED
  BY <1>1, StoreInvariant, PTL

\* With such a writer no position of the chain is stored twice.
THEOREM RetryWritesEachPositionOnce ==
    ASSUME RetryFirst
    PROVE  Spec => []SequenceWrittenOnce
<1>1. ASSUME LockInv, ChainInv, StoreInv
      PROVE  SequenceWrittenOnce
  <2> SUFFICES ASSUME NEW s1 \in store, NEW s2 \in store,
                      s1.sequence = s2.sequence
               PROVE  s1 = s2
    BY DEF SequenceWrittenOnce
  <2>0. store \subseteq EvidenceEntry /\ Len(entries) \in Nat
    BY <1>1 DEF LockInv, TypeOK
  <2>1. \A s \in store : InChain(s) => \E i \in 1..Len(entries) :
                            entries[i] = s /\ s.sequence = i - 1
    BY <1>1 DEF InChain, ChainInv, ChainOK, EntryVerifies
  <2>2. \A s \in store : Pending(s) => s.sequence = Len(entries)
    BY DEF Pending, NewEntry
  <2>3. \A s \in store : InChain(s) \/ Pending(s)
    BY <1>1 DEF StoreInv
  <2>4. CASE InChain(s1) \/ InChain(s2)
    BY <2>0, <2>1, <2>2, <2>3, <2>4
  <2>5. CASE Pending(s1) /\ Pending(s2)
    <3>1. ASSUME NEW c \in Calls, pc[c] = "commit"
          PROVE  req[c].op = "append" /\ draft[c].event = req[c].event
      <4>1. /\ req[c].op = "append"
            /\ draft[c] = NewEntry(entries, req[c].event)
        BY <1>1, <3>1 DEF LockInv, CallsOK, DraftOK
      <4> QED
        BY <4>1 DEF NewEntry
    <3>2. \A c, d \in Calls : pc[c] = "commit" /\ pc[d] = "commit" => c = d
      BY <1>1 DEF LockInv, LockDiscipline, Critical, Mutating
    <3>3. s1.event \in Events /\ s2.event \in Events
      BY <2>0 DEF EvidenceEntry
    <3>4. \A c \in Calls : pc[c] = "commit" =>
              refused \in {NoEvent, draft[c].event}
      BY <1>1, <3>1 DEF StoreInv, OneWriter
    <3>5. s1.event # NoEvent /\ s2.event # NoEvent
      BY <3>3, NoneAssumption
    <3>6. s1.event = s2.event
      BY <2>5, <3>2, <3>4, <3>5 DEF Pending
    <3> QED
      BY <2>5, <3>6 DEF Pending
  <2> QED
    BY <2>3, <2>4, <2>5
<1> QED
  BY <1>1, LockInvariant, ChainInvariant, StoreInvariant, PTL
=============================================================================
