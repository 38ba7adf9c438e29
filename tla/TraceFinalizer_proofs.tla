----------------------- MODULE TraceFinalizer_proofs -----------------------
(***************************************************************************)
(* A signed record claims only what its measurement commits to, and bounds *)
(* it from above, for any events, run, configuration and treatment of the  *)
(* snapshot.                                                               *)
(***************************************************************************)
EXTENDS TraceFinalizer, EvidenceChain_proofs

TypeInv ==
    /\ entries \in Seq(EvidenceEntry)
    /\ sealed \in BOOLEAN
    /\ completeness \in Completeness
    /\ edits \in Nat
    /\ snapshot # NoSnapshot => snapshot \in EvidenceSnapshot

LEMMA InitType == Init => TypeInv
<1>1. << >> \in Seq(EvidenceEntry)
    OBVIOUS
<1>2. "unknown" \in Completeness /\ FALSE \in BOOLEAN /\ 0 \in Nat
    BY DEF Completeness
<1>3. QED
    BY <1>1, <1>2, Zenon DEF Init, TypeInv

LEMMA RecordEventType ==
    ASSUME TypeInv, NEW e \in Events, RecordEvent(e)
    PROVE  TypeInv'
<1>1. NewEntry(entries, e) \in EvidenceEntry
    BY NewEntryType DEF TypeInv
<1>2. entries' \in Seq(EvidenceEntry)
    BY <1>1 DEF RecordEvent, TypeInv
<1>3. QED
    BY <1>2 DEF RecordEvent, TypeInv

LEMMA SealRunType ==
    ASSUME TypeInv, NEW c \in Completeness, SealRun(c)
    PROVE  TypeInv'
BY DEF SealRun, TypeInv

LEMMA HandOverType ==
    ASSUME TypeInv, HandOver
    PROVE  TypeInv'
<1>1. LastDigest(entries) \in Digests
    BY LastDigestType DEF TypeInv
<1>2. RunId \in RunIds /\ CANONICALIZATION_PROFILE \in Profiles
    BY DEF RunIds, Profiles
<1>3. (IF sealed THEN completeness ELSE "unknown") \in Completeness
    BY DEF TypeInv, Completeness
<1>4. snapshot' \in EvidenceSnapshot
    BY <1>1, <1>2, <1>3 DEF HandOver, TypeInv, EvidenceSnapshot
<1>5. QED
    BY <1>4 DEF HandOver, TypeInv

-----------------------------------------------------------------------------
\* However the entries are changed, they stay entries.
LEMMA EditedType ==
    ASSUME NEW chain \in Seq(EvidenceEntry), NEW c \in Edited(chain)
    PROVE  c \in Seq(EvidenceEntry)
<1>1. PICK i \in 1..Len(chain), e \in Events :
          c = [chain EXCEPT ![i].event = e]
    BY DEF Edited
<1>2. chain[i] \in EvidenceEntry
    OBVIOUS
<1>3. [chain[i] EXCEPT !.event = e] \in EvidenceEntry
    BY <1>2 DEF EvidenceEntry
<1>4. c = [chain EXCEPT ![i] = [chain[i] EXCEPT !.event = e]]
    BY <1>1
<1>5. QED
    BY <1>3, <1>4

LEMMA DroppedType ==
    ASSUME NEW chain \in Seq(EvidenceEntry), NEW c \in Dropped(chain)
    PROVE  c \in Seq(EvidenceEntry)
<1> DEFINE n == Len(chain)
<1>1. PICK k \in 1..n :
          c = [i \in 1..n - 1 |-> chain[IF i < k THEN i ELSE i + 1]]
    BY DEF Dropped
<1>2. n - 1 \in Nat
    OBVIOUS
<1>3. \A i \in 1..n - 1 : chain[IF i < k THEN i ELSE i + 1] \in EvidenceEntry
    OBVIOUS
<1>4. c \in [1..n - 1 -> EvidenceEntry]
    BY <1>1, <1>3
<1>5. QED
    BY <1>2, <1>4, FunctionIsSequence

LEMMA SwappedType ==
    ASSUME NEW chain \in Seq(EvidenceEntry), NEW c \in Swapped(chain)
    PROVE  c \in Seq(EvidenceEntry)
<1>1. PICK i \in 1..Len(chain), j \in 1..Len(chain) :
          c = [chain EXCEPT ![i] = chain[j], ![j] = chain[i]]
    BY DEF Swapped
<1>2. chain[i] \in EvidenceEntry /\ chain[j] \in EvidenceEntry
    OBVIOUS
<1>3. QED
    BY <1>1, <1>2

LEMMA EventsAreDocuments ==
    ASSUME NEW chain \in Seq(EvidenceEntry), NEW i \in 1..Len(chain)
    PROVE  chain[i].event \in Events
<1>1. chain[i] \in EvidenceEntry
    OBVIOUS
<1>2. QED
    BY <1>1 DEF EvidenceEntry

LEMMA MaterialType ==
    ASSUME NEW chain \in Seq(EvidenceEntry)
    PROVE  /\ Material(chain) \in Digests
           /\ Len(Material(chain)) = Len(chain)
<1> DEFINE S == [sequence : Nat, event : Events]
<1>1. \A i \in 1..Len(chain) : chain[i].event \in Events
    BY EventsAreDocuments
<1>2. Material(chain) \in [1..Len(chain) -> S]
    BY <1>1 DEF Material
<1>3. Len(chain) \in Nat
    OBVIOUS
<1> HIDE DEF S
<1>4. Material(chain) \in Seq(S) /\ Len(Material(chain)) = Len(chain)
    BY <1>2, <1>3, FunctionIsSequence
<1>5. QED
    BY <1>4 DEF Digests, S

LEMMA RechainedType ==
    ASSUME NEW chain \in Seq(EvidenceEntry)
    PROVE  Rechained(chain) \in Seq(EvidenceEntry)
<1> DEFINE M == Material(chain)
           S == [sequence : Nat, event : Events]
<1>1. M \in Seq(S) /\ Len(M) = Len(chain)
    BY MaterialType DEF Digests
<1> HIDE DEF M
<1>2. ASSUME NEW i \in 1..Len(chain)
      PROVE  [sequence |-> i - 1, event_id |-> chain[i].event.event_id,
              previous_digest |-> SubSeq(M, 1, i - 1),
              digest |-> SubSeq(M, 1, i), event |-> chain[i].event]
                 \in EvidenceEntry
    <2>1. SubSeq(M, 1, i - 1) \in Seq(S) /\ SubSeq(M, 1, i) \in Seq(S)
        <3> HIDE DEF S
        <3>1. QED
            BY <1>1
    <2>2. chain[i].event \in Events
        BY EventsAreDocuments
    <2>3. chain[i].event.event_id \in EventIds /\ i - 1 \in Nat
        BY <2>2 DEF EventIds
    <2>4. QED
        BY <2>1, <2>2, <2>3 DEF EvidenceEntry, Digests
<1>3. Rechained(chain) \in [1..Len(chain) -> EvidenceEntry]
    BY <1>2 DEF Rechained, M
<1>4. QED
    BY <1>3, FunctionIsSequence

LEMMA KeptType ==
    ASSUME NEW s \in EvidenceSnapshot, NEW t \in Kept(s)
    PROVE  t \in EvidenceSnapshot
<1>1. s.entries \in Seq(EvidenceEntry)
    BY DEF EvidenceSnapshot
<1>2. CASE \E c \in Changed(s.entries) :
               t \in {[s EXCEPT !.entries = c],
                     [s EXCEPT !.entries = Rechained(c)],
                     [s EXCEPT !.entries = Rechained(c),
                               !.chain_digest = Material(c)]}
    <2>1. PICK c \in Changed(s.entries) :
              t \in {[s EXCEPT !.entries = c],
                    [s EXCEPT !.entries = Rechained(c)],
                    [s EXCEPT !.entries = Rechained(c),
                              !.chain_digest = Material(c)]}
        BY <1>2
    <2>2. c \in Seq(EvidenceEntry)
        BY <1>1, EditedType, DroppedType, SwappedType DEF Changed
    <2>3. Rechained(c) \in Seq(EvidenceEntry) /\ Material(c) \in Digests
        BY <2>2, RechainedType, MaterialType
    <2>4. QED
        BY <2>1, <2>2, <2>3 DEF EvidenceSnapshot
<1>3. CASE \E r \in RunIds : t = [s EXCEPT !.run_id = r]
    BY <1>3 DEF EvidenceSnapshot
<1>4. CASE \E p \in Profiles : t = [s EXCEPT !.canonicalization_profile = p]
    BY <1>4 DEF EvidenceSnapshot
<1>5. CASE t = [s EXCEPT !.sealed = TRUE, !.completeness = "complete"]
    BY <1>5 DEF EvidenceSnapshot, Completeness
<1>6. QED
    BY <1>2, <1>3, <1>4, <1>5 DEF Kept

LEMMA KeepType ==
    ASSUME TypeInv, Keep
    PROVE  TypeInv'
<1>1. snapshot' \in EvidenceSnapshot
    BY KeptType DEF Keep, TypeInv
<1>2. QED
    BY <1>1 DEF Keep, TypeInv

LEMMA NextType == TypeInv /\ [Next]_vars => TypeInv'
<1> SUFFICES ASSUME TypeInv, [Next]_vars
             PROVE  TypeInv'
    OBVIOUS
<1>1. CASE \E e \in Events : RecordEvent(e)
    BY <1>1, RecordEventType
<1>2. CASE \E c \in Completeness : SealRun(c)
    BY <1>2, SealRunType
<1>3. CASE HandOver
    BY <1>3, HandOverType
<1>4. CASE Keep
    BY <1>4, KeepType
<1>5. CASE Finalize
    BY <1>5 DEF Finalize, TypeInv
<1>6. CASE UNCHANGED vars
    BY <1>6 DEF vars, TypeInv
<1>7. QED
    BY <1>1, <1>2, <1>3, <1>4, <1>5, <1>6 DEF Next

LEMMA TypeInvariant == Spec => []TypeInv
<1>1. QED
    BY InitType, NextType, PTL DEF Spec

-----------------------------------------------------------------------------
\* What finalize_trace signs is what the measurement commits to.
LEMMA FinalizeMeasures ==
    ASSUME TypeInv, Finalize
    PROVE  /\ record' = RecordOf(EventsOf(snapshot.entries),
                                 snapshot.chain_digest)
           /\ record'.measurement = snapshot.chain_digest
           /\ snapshot.chain_digest = Material(snapshot.entries)
           /\ Measured(snapshot.chain_digest) = EventsOf(snapshot.entries)
<1>1. snapshot \in EvidenceSnapshot
    BY DEF Finalize, TypeInv
<1>2. snapshot.entries \in Seq(EvidenceEntry)
    BY <1>1 DEF EvidenceSnapshot
<1>3. snapshot.entries # << >> /\ VerifyChain(snapshot)
    BY DEF Finalize, Finalizable
<1>4. /\ snapshot.chain_digest = Material(snapshot.entries)
      /\ Measured(snapshot.chain_digest) = EventsOf(snapshot.entries)
    BY <1>2, <1>3, VerifiedSnapshot DEF Measured
<1>5. record' = RecordOf(EventsOf(snapshot.entries), snapshot.chain_digest)
    BY DEF Finalize
<1>6. record'.measurement = snapshot.chain_digest
    BY <1>5 DEF RecordOf
<1>7. QED
    BY <1>4, <1>5, <1>6

LEMMA NextClaims ==
    TypeInv /\ ClaimsAreMeasured /\ [Next]_vars => ClaimsAreMeasured'
<1> SUFFICES ASSUME TypeInv, ClaimsAreMeasured, [Next]_vars
             PROVE  ClaimsAreMeasured'
    OBVIOUS
<1>1. CASE Finalize
    <2>1. record' = RecordOf(Measured(record'.measurement), record'.measurement)
        BY <1>1, FinalizeMeasures
    <2>2. Derivable(EventSet(Measured(record'.measurement)))
        BY <1>1, FinalizeMeasures DEF Finalize
    <2>3. QED
        BY <2>1, <2>2 DEF ClaimsAreMeasured
<1>2. CASE record' = record
    BY <1>2 DEF ClaimsAreMeasured
<1>3. QED
    BY <1>1, <1>2
       DEF Next, vars, RecordEvent, SealRun, HandOver, Keep

\* However the snapshot was treated, every claim of a signed record is about the
\* events its measurement commits to.
THEOREM RecordsClaimWhatTheyMeasure == Spec => []ClaimsAreMeasured
<1>1. Init => ClaimsAreMeasured
    BY DEF Init, ClaimsAreMeasured
<1>2. QED
    BY <1>1, TypeInvariant, NextClaims, PTL DEF Spec

-----------------------------------------------------------------------------
\* A sealed snapshot nobody changed is the run, which has ended.
HandedOver ==
    snapshot # NoSnapshot /\ edits = 0 /\ snapshot.sealed =>
        /\ sealed
        /\ snapshot.entries = entries
        /\ snapshot.completeness = completeness

LEMMA NextHandedOver == TypeInv /\ HandedOver /\ [Next]_vars => HandedOver'
<1> SUFFICES ASSUME TypeInv, HandedOver, [Next]_vars
             PROVE  HandedOver'
    OBVIOUS
<1>1. CASE \E e \in Events : RecordEvent(e)
    BY <1>1 DEF RecordEvent, HandedOver
<1>2. CASE \E c \in Completeness : SealRun(c)
    BY <1>2 DEF SealRun, HandedOver
<1>3. CASE HandOver
    BY <1>3 DEF HandOver, HandedOver
<1>4. CASE Keep
    BY <1>4 DEF Keep, HandedOver, TypeInv
<1>5. CASE Finalize
    BY <1>5 DEF Finalize, HandedOver
<1>6. CASE UNCHANGED vars
    BY <1>6 DEF vars, HandedOver
<1>7. QED
    BY <1>1, <1>2, <1>3, <1>4, <1>5, <1>6 DEF Next

LEMMA HandedOverInvariant == Spec => []HandedOver
<1>1. Init => HandedOver
    BY DEF Init, HandedOver
<1>2. QED
    BY <1>1, TypeInvariant, NextHandedOver, PTL DEF Spec

LEMMA NextCovers ==
    TypeInv /\ HandedOver /\ RecordCoversWholeRun /\ [Next]_vars
        => RecordCoversWholeRun'
<1> SUFFICES ASSUME TypeInv, HandedOver, RecordCoversWholeRun, [Next]_vars
             PROVE  RecordCoversWholeRun'
    OBVIOUS
<1>1. CASE \E e \in Events : RecordEvent(e)
    BY <1>1 DEF RecordEvent, RecordCoversWholeRun
<1>2. CASE \E c \in Completeness : SealRun(c)
    BY <1>2 DEF SealRun, RecordCoversWholeRun
<1>3. CASE HandOver
    BY <1>3 DEF HandOver, RecordCoversWholeRun
<1>4. CASE Keep
    BY <1>4 DEF Keep, RecordCoversWholeRun, TypeInv
<1>5. CASE Finalize
    <2> SUFFICES ASSUME edits = 0
                 PROVE  /\ record'.measurement = Material(entries)
                        /\ sealed /\ completeness = "complete"
        BY <1>5 DEF Finalize, RecordCoversWholeRun
    <2>1. /\ snapshot # NoSnapshot /\ snapshot.sealed
          /\ snapshot.completeness = "complete"
        BY <1>5 DEF Finalize, Finalizable
    <2>2. /\ sealed
          /\ snapshot.entries = entries
          /\ snapshot.completeness = completeness
        BY <2>1 DEF HandedOver
    <2>3. record'.measurement = Material(snapshot.entries)
        BY <1>5, FinalizeMeasures
    <2>4. QED
        BY <2>1, <2>2, <2>3
<1>6. CASE UNCHANGED vars
    BY <1>6 DEF vars, RecordCoversWholeRun
<1>7. QED
    BY <1>1, <1>2, <1>3, <1>4, <1>5, <1>6 DEF Next

\* A record signed from a snapshot nobody changed covers the whole, complete run.
THEOREM RecordsCoverTheRun == Spec => []RecordCoversWholeRun
<1>1. Init => RecordCoversWholeRun
    BY DEF Init, RecordCoversWholeRun
<1>2. QED
    BY <1>1, TypeInvariant, HandedOverInvariant, NextCovers, PTL DEF Spec

-----------------------------------------------------------------------------
\* The latest event and the highest class exist: finitely many numbers have a
\* maximum.  By the least bound on the positions of a set that has none.
LEMMA Maximum ==
    ASSUME NEW n \in Nat, NEW k \in [1..n -> Int],
           NEW I \in SUBSET (1..n), I # {}
    PROVE  \E i \in I : \A j \in I : k[j] <= k[i]
<1> DEFINE HasMaximum(J) == \E i \in J : \A j \in J : k[j] <= k[i]
           Without == {m \in 0..n :
                          \E J \in SUBSET (1..m) : J # {} /\ ~HasMaximum(J)}
<1>1. SUFFICES ASSUME Without # {}
               PROVE  FALSE
    <2>1. n \in 0..n
        OBVIOUS
    <2>2. QED
        BY <2>1
<1>2. PICK m \in Without : \A other \in Without : m <= other
    <2>1. Without \in SUBSET Nat
        OBVIOUS
    <2> HIDE DEF Without
    <2>2. QED
        BY <1>1, <2>1, LeastPosition
<1>3. PICK J \in SUBSET (1..m) : J # {} /\ ~HasMaximum(J)
    BY <1>2
<1>4. m \in 1..n
    <2>1. m \in 0..n /\ J \in SUBSET (1..m) /\ J # {}
        BY <1>3
    <2>2. PICK j \in J : TRUE
        BY <2>1
    <2>3. j \in 1..m
        BY <2>1, <2>2
    <2> HIDE DEF Without
    <2>4. QED
        BY <2>1, <2>3
<1>5. m - 1 \in 0..n /\ m - 1 \notin Without
    <2> HIDE DEF Without
    <2>1. QED
        BY <1>2, <1>4
<1>6. m \in J
    <2> SUFFICES ASSUME m \notin J
                 PROVE  FALSE
        OBVIOUS
    <2>1. J \in SUBSET (1..(m - 1))
        BY <1>4
    <2>2. QED
        BY <1>3, <1>5, <2>1
<1>7. J \ {m} \in SUBSET (1..(m - 1))
    BY <1>4
<1>8. \A j \in J : k[j] \in Int
    BY <1>4
<1>9. CASE J \ {m} = {}
    BY <1>3, <1>6, <1>8, <1>9
<1>10. CASE J \ {m} # {}
    <2>1. HasMaximum(J \ {m})
        BY <1>5, <1>7, <1>10
    <2>2. PICK i \in J \ {m} : \A j \in J \ {m} : k[j] <= k[i]
        BY <2>1
    <2>3. k[i] \in Int /\ k[m] \in Int
        BY <1>6, <1>8
    <2>4. CASE k[m] <= k[i]
        <3>1. \A j \in J : k[j] <= k[i]
            BY <2>2, <2>4
        <3>2. QED
            BY <1>3, <3>1
    <2>5. CASE k[i] <= k[m]
        <3>1. \A j \in J \ {m} : k[j] <= k[m]
            BY <1>8, <2>2, <2>3, <2>5
        <3>2. k[m] <= k[m]
            BY <2>3
        <3>3. QED
            BY <1>3, <1>6, <3>1, <3>2
    <2>6. QED
        BY <2>3, <2>4, <2>5
<1>11. QED
    BY <1>9, <1>10

\* The choices of the record's time, class and bundle are those of some event
\* that no other one exceeds.
LEMMA MeasuredEvents ==
    ASSUME NEW m \in Digests
    PROVE  /\ Len(Measured(m)) = Len(m)
           /\ Len(m) \in Nat
           /\ \A i \in 1..Len(m) : Measured(m)[i] \in Events
<1> DEFINE S == [sequence : Nat, event : Events]
<1>1. m \in Seq(S)
    BY DEF Digests
<1>2. \A i \in 1..Len(m) : m[i].event \in Events
    <2> SUFFICES ASSUME NEW i \in 1..Len(m)
                 PROVE  m[i].event \in Events
        OBVIOUS
    <2>1. m[i] \in S
        <3> HIDE DEF S
        <3>1. QED
            BY <1>1
    <2>2. QED
        BY <2>1
<1>3. Len(m) \in Nat
    BY <1>1
<1>4. Measured(m) \in [1..Len(m) -> Events]
    BY <1>2 DEF Measured, EventsOf
<1>5. Measured(m) \in Seq(Events) /\ Len(Measured(m)) = Len(m)
    BY <1>3, <1>4, FunctionIsSequence
<1>6. QED
    BY <1>3, <1>4, <1>5

LEMMA WholeSeconds ==
    ASSUME NEW t \in Int, NEW s \in Nat \ {0}
    PROVE  /\ t \div s \in Int
           /\ (t \div s) * s <= t
           /\ \A u \in Int : u <= t => u < (t \div s + 1) * s
<1>1. t \div s \in Int /\ (t \div s) * s <= t /\ t < (t \div s + 1) * s
    BY SMT
<1>2. (t \div s + 1) * s \in Int
    BY <1>1
<1>3. QED
    BY <1>1, <1>2

\* A record's time is the second of the last event.
LEMMA LatestIsLatest ==
    ASSUME NEW m \in Digests, NEW i \in 1..Len(m)
    PROVE  LET iat == LatestTime(EventSet(Measured(m)), Second)
           IN  /\ Measured(m)[i].time_unix_nano < (iat + 1) * Second
               /\ \E l \in 1..Len(Measured(m)) :
                      iat * Second <= Measured(m)[l].time_unix_nano
<1> DEFINE es == Measured(m)
           n == Len(m)
           k == [j \in 1..n |-> es[j].time_unix_nano]
<1>1. n \in Nat /\ Len(es) = n /\ \A j \in 1..n : es[j] \in Events
    BY MeasuredEvents
<1>2. k \in [1..n -> Int]
    BY <1>1, OrderAssumption
<1> HIDE DEF es, n
<1>3. PICK l \in 1..n : \A j \in 1..n : k[j] <= k[l]
    <2> HIDE DEF k
    <2>1. 1..n # {}
        BY DEF n
    <2>2. QED
        BY <1>1, <1>2, <2>1, Maximum
<1>4. /\ es[l] \in EventSet(es)
      /\ \A f \in EventSet(es) : f.time_unix_nano <= es[l].time_unix_nano
    BY <1>1, <1>3 DEF EventSet
<1> DEFINE last == CHOOSE e \in EventSet(es) :
                       \A f \in EventSet(es) : f.time_unix_nano <= e.time_unix_nano
<1>5. /\ last \in EventSet(es)
      /\ \A f \in EventSet(es) : f.time_unix_nano <= last.time_unix_nano
    BY <1>4
<1>6. LatestTime(EventSet(es), Second) = last.time_unix_nano \div Second
    BY DEF LatestTime
<1> HIDE DEF last
<1>7. PICK x \in 1..n : last = es[x]
    BY <1>1, <1>5 DEF EventSet
<1>8. es[i] \in EventSet(es) /\ i \in 1..n
    BY <1>1 DEF EventSet, n
<1>9. /\ last.time_unix_nano \in Int /\ es[i].time_unix_nano \in Int
      /\ es[i].time_unix_nano <= last.time_unix_nano
      /\ Second \in Nat \ {0}
    BY <1>1, <1>5, <1>7, <1>8, OrderAssumption
<1>10. QED
    BY <1>1, <1>6, <1>7, <1>9, WholeSeconds DEF es

LEMMA HighestIsHighest ==
    ASSUME NEW m \in Digests, NEW i \in 1..Len(m),
           FlowsAreRanked(EventSet(Measured(m)), Config.taxonomy, Config.rank),
           Measured(m)[i].event_type = "data_flow.observed"
    PROVE  /\ Measured(m)[i].taxonomy = Config.taxonomy
           /\ Config.rank[Measured(m)[i].class] <=
                  Config.rank[HighestClass(EventSet(Measured(m)), Config.rank)]
<1> DEFINE es == Measured(m)
           n == Len(m)
           I == {j \in 1..n : es[j].event_type = "data_flow.observed"}
           k == [j \in 1..n |-> IF j \in I THEN Config.rank[es[j].class] ELSE 0]
<1>1. n \in Nat /\ Len(es) = n /\ i \in I
    BY MeasuredEvents
<1>2. es[i] \in Flows(EventSet(es))
    BY <1>1 DEF Flows, OfType, EventSet
<1>3. \A j \in I : es[j].class \in DOMAIN Config.rank
    BY <1>1 DEF FlowsAreRanked, Flows, OfType, EventSet
<1>4. k \in [1..n -> Int]
    BY <1>3, OrderAssumption
<1>5. PICK l \in I : \A j \in I : k[j] <= k[l]
    <2> HIDE DEF k
    <2>1. I \in SUBSET (1..n) /\ I # {}
        BY <1>1
    <2> HIDE DEF I, n
    <2>2. QED
        BY <1>1, <1>4, <2>1, Maximum
<1>6. es[l] \in Flows(EventSet(es))
    BY <1>1 DEF Flows, OfType, EventSet
<1>7. ASSUME NEW g \in Flows(EventSet(es))
      PROVE  Config.rank[g.class] <= Config.rank[es[l].class]
    <2>1. PICK j \in 1..n : g = es[j] /\ es[j].event_type = "data_flow.observed"
        BY <1>1 DEF Flows, OfType, EventSet
    <2>2. j \in I
        BY <2>1
    <2>3. k[j] <= k[l]
        BY <1>5, <2>2
    <2>4. QED
        BY <2>1, <2>2, <2>3
<1>8. \A g \in Flows(EventSet(es)) :
          Config.rank[g.class] <=
              Config.rank[HighestClass(EventSet(es), Config.rank)]
    BY <1>6, <1>7 DEF HighestClass
<1>9. es[i].taxonomy = Config.taxonomy
    BY <1>2 DEF FlowsAreRanked
<1>10. QED
    BY <1>2, <1>8, <1>9

\* The measurement of a signed record is a digest of the chain.
MeasurementTyped == record # NoRecord => record.measurement \in Digests

LEMMA NextMeasurement ==
    TypeInv /\ MeasurementTyped /\ [Next]_vars => MeasurementTyped'
<1> SUFFICES ASSUME TypeInv, MeasurementTyped, [Next]_vars
             PROVE  MeasurementTyped'
    OBVIOUS
<1>1. CASE Finalize
    <2>1. snapshot \in EvidenceSnapshot
        BY <1>1 DEF Finalize, TypeInv
    <2>2. snapshot.chain_digest \in Digests
        BY <2>1 DEF EvidenceSnapshot
    <2>3. QED
        BY <1>1, <2>2, FinalizeMeasures DEF MeasurementTyped
<1>2. CASE record' = record
    BY <1>2 DEF MeasurementTyped
<1>3. QED
    BY <1>1, <1>2
       DEF Next, vars, RecordEvent, SealRun, HandOver, Keep

LEMMA RecordBounds ==
    ASSUME ClaimsAreMeasured, MeasurementTyped, record # NoRecord,
           NEW i \in 1..Len(Measured(record.measurement))
    PROVE  /\ \E l \in 1..Len(Measured(record.measurement)) :
                  record.iat * Second
                      <= Measured(record.measurement)[l].time_unix_nano
           /\ LET e == Measured(record.measurement)[i]
              IN  /\ e.time_unix_nano < (record.iat + 1) * Second
                  /\ e.event_type = "data_flow.observed" =>
                         /\ e.taxonomy = Config.taxonomy
                         /\ Config.rank[e.class] <=
                                Config.rank[record.data_class]
                  /\ e.event_type = "policy.decision" =>
                         e.bundle_digest = record.bundle_hash
                  /\ e.event_type = "action.executed" =>
                         [sequence |-> i - 1, event |-> e]
                             \in record.tool_transcript
<1> DEFINE m == record.measurement
           es == Measured(m)
           e == es[i]
<1>1. m \in Digests
    BY DEF MeasurementTyped
<1>2. Len(es) = Len(m) /\ i \in 1..Len(m)
    BY <1>1, MeasuredEvents
<1>3. Derivable(EventSet(es)) /\ record = RecordOf(es, m)
    BY DEF ClaimsAreMeasured
<1>4. /\ record.iat = LatestTime(EventSet(es), Second)
      /\ record.data_class = HighestClass(EventSet(es), Config.rank)
      /\ record.bundle_hash = PolicyBundle(EventSet(es))
      /\ record.tool_transcript = ToolTranscript(es)
    <2> HIDE DEF m, es
    <2>1. QED
        BY <1>3 DEF RecordOf
<1>5. /\ e.time_unix_nano < (record.iat + 1) * Second
      /\ \E l \in 1..Len(es) : record.iat * Second <= es[l].time_unix_nano
    <2> HIDE DEF es
    <2>1. QED
        BY <1>1, <1>2, <1>4, LatestIsLatest DEF es
<1>6. ASSUME e.event_type = "data_flow.observed"
      PROVE  /\ e.taxonomy = Config.taxonomy
             /\ Config.rank[e.class] <= Config.rank[record.data_class]
    BY <1>1, <1>2, <1>3, <1>4, <1>6, HighestIsHighest DEF Derivable
<1>7. ASSUME e.event_type = "policy.decision"
      PROVE  e.bundle_digest = record.bundle_hash
    <2>1. e \in Decisions(EventSet(es))
        BY <1>7 DEF Decisions, OfType, EventSet
    <2>2. (CHOOSE d \in Decisions(EventSet(es)) : TRUE) \in Decisions(EventSet(es))
        BY <2>1
    <2>3. e.bundle_digest = PolicyBundle(EventSet(es))
        BY <1>3, <2>1, <2>2 DEF Derivable, PolicyIsBound, PolicyBundle
    <2>4. QED
        BY <1>4, <2>3
<1>8. ASSUME e.event_type = "action.executed"
      PROVE  [sequence |-> i - 1, event |-> e] \in record.tool_transcript
    BY <1>4, <1>8 DEF ToolTranscript
<1>9. QED
    BY <1>5, <1>6, <1>7, <1>8

\* No event a record measures is above its class, decided under another bundle,
\* an action missing from its transcript, or later than the second its time
\* names, and some event happened in that second or later.
THEOREM RecordsBoundTheRun == Spec => []RecordIsUpperBound
<1>1. Init => MeasurementTyped
    BY DEF Init, MeasurementTyped
<1>2. ClaimsAreMeasured /\ MeasurementTyped => RecordIsUpperBound
    <2> SUFFICES ASSUME ClaimsAreMeasured, MeasurementTyped, record # NoRecord
                 PROVE  RecordIsUpperBound
        BY DEF RecordIsUpperBound
    <2>1. 1..Len(Measured(record.measurement)) # {}
        <3>1. Decisions(EventSet(Measured(record.measurement))) # {}
            BY DEF ClaimsAreMeasured, Derivable, PolicyIsBound
        <3>2. QED
            BY <3>1 DEF Decisions, OfType, EventSet
    <2>2. QED
        BY <2>1, RecordBounds DEF RecordIsUpperBound
<1>3. QED
    BY <1>1, <1>2, TypeInvariant, NextMeasurement, RecordsClaimWhatTheyMeasure,
       PTL DEF Spec
=============================================================================
