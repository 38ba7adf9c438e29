------------------------ MODULE EvidenceChain_proofs ------------------------
(***************************************************************************)
(* What the digests of a chain commit to.  The verification pins each      *)
(* digest to the entries before it, entry by entry; the library's theorems *)
(* of induction take an operator, so the argument is by least              *)
(* counterexample.                                                         *)
(***************************************************************************)
EXTENDS EvidenceChain, FiniteSetTheorems, TLAPS

-----------------------------------------------------------------------------
\* The digests and entries of a chain have their types.
LEMMA LastDigestType ==
    ASSUME NEW es \in Seq(EvidenceEntry)
    PROVE  LastDigest(es) \in Digests
<1>1. Genesis \in Digests
  BY DEF Genesis, Digests
<1>2. ASSUME es # << >>
      PROVE  es[Len(es)] \in EvidenceEntry
  BY <1>2
<1>3. \A entry \in EvidenceEntry : entry.digest \in Digests
  BY DEF EvidenceEntry
<1> QED
  BY <1>1, <1>2, <1>3 DEF LastDigest

LEMMA NewEntryType ==
    ASSUME NEW es \in Seq(EvidenceEntry), NEW e \in Events
    PROVE  NewEntry(es, e) \in EvidenceEntry
<1>1. Len(es) \in Nat
  OBVIOUS
<1>2. LastDigest(es) \in Digests
  BY LastDigestType
<1>3. EntryDigest(Len(es), LastDigest(es), e) \in Digests
  BY <1>1, <1>2 DEF EntryDigest, Digests
<1>4. e.event_id \in EventIds
  BY DEF EventIds
<1> QED
  BY <1>1, <1>2, <1>3, <1>4 DEF NewEntry, EvidenceEntry

-----------------------------------------------------------------------------
\* A set of positions that is not empty has a least one: of the initial segments
\* that end in it, one is minimal.
LEMMA LeastPosition ==
    ASSUME NEW T \in SUBSET Nat, T # {}
    PROVE  \E m \in T : \A k \in T : m <= k
<1> DEFINE Segments == {1..k : k \in T}
<1>1. Segments \subseteq FiniteSubsetsOf(Nat)
    <2> SUFFICES ASSUME NEW k \in T
                 PROVE  1..k \in FiniteSubsetsOf(Nat)
        OBVIOUS
    <2>1. IsFiniteSet(1..k)
        BY FS_Interval
    <2>2. 1..k \subseteq Nat
        OBVIOUS
    <2>3. QED
        BY <2>1, <2>2 DEF FiniteSubsetsOf
<1>2. Segments # {}
    OBVIOUS
<1>3. IsWellFoundedOn(StrictSubsetOrdering(Nat), FiniteSubsetsOf(Nat))
    BY FS_StrictSubsetOrderingWellFounded
<1>4. PICK x \in Segments :
          \A y \in Segments : <<y, x>> \notin StrictSubsetOrdering(Nat)
    <2> HIDE DEF Segments
    <2>1. QED
        BY <1>1, <1>2, <1>3, WFMin
<1>5. PICK m \in T : x = 1..m
    BY <1>4
<1>6. \A k \in T : m <= k
    <2> SUFFICES ASSUME NEW k \in T, k < m
                 PROVE  FALSE
        OBVIOUS
    <2>1. 1..k \subseteq 1..m /\ 1..k # 1..m
        <3>1. m \in 1..m /\ m \notin 1..k
            OBVIOUS
        <3>2. QED
            BY <3>1
    <2>2. 1..k \in SUBSET Nat /\ 1..m \in SUBSET Nat
        OBVIOUS
    <2>3. <<1..k, x>> \in StrictSubsetOrdering(Nat)
        BY <1>5, <2>1, <2>2 DEF StrictSubsetOrdering
    <2>4. QED
        BY <1>4, <2>3
<1>7. QED
    BY <1>6

-----------------------------------------------------------------------------
\* A function on 1..n is a sequence of length n.
LEMMA FunctionIsSequence ==
    ASSUME NEW n \in Nat, NEW S, NEW f \in [1..n -> S]
    PROVE  f \in Seq(S) /\ Len(f) = n
OBVIOUS

\* What the digest of entry n should commit to.
Item(chain, j) == [sequence |-> j - 1, event |-> chain[j].event]

PrefixMaterial(chain, n) ==
    [i \in 1..n |-> [sequence |-> i - 1, event |-> chain[i].event]]

\* Each entry adds its own pair to what the digest before it commits to.
LEMMA PrefixGrows ==
    ASSUME NEW chain, NEW n \in Nat
    PROVE  PrefixMaterial(chain, n + 1) =
               Append(PrefixMaterial(chain, n), Item(chain, n + 1))
<1> DEFINE S == {Item(chain, j) : j \in 1..(n + 1)}
<1>1. PrefixMaterial(chain, n) \in Seq(S) /\ Len(PrefixMaterial(chain, n)) = n
    <2>1. PrefixMaterial(chain, n) \in [1..n -> S]
        BY DEF PrefixMaterial, Item
    <2> HIDE DEF S
    <2>2. QED
        BY <2>1, FunctionIsSequence
<1>2. Item(chain, n + 1) \in S
    OBVIOUS
<1>3. /\ PrefixMaterial(chain, n + 1) \in Seq(S)
      /\ Len(PrefixMaterial(chain, n + 1)) = n + 1
    <2>1. PrefixMaterial(chain, n + 1) \in [1..(n + 1) -> S]
        BY DEF PrefixMaterial, Item
    <2> HIDE DEF S
    <2>2. QED
        BY <2>1, FunctionIsSequence
<1>4. \A j \in 1..n :
          PrefixMaterial(chain, n + 1)[j] = PrefixMaterial(chain, n)[j]
    BY DEF PrefixMaterial
<1>5. PrefixMaterial(chain, n + 1)[n + 1] = Item(chain, n + 1)
    BY DEF PrefixMaterial, Item
<1> HIDE DEF S
<1>6. QED
    BY <1>1, <1>2, <1>3, <1>4, <1>5

\* The verification pins every digest of a chain to the entries up to it.
LEMMA VerifiedDigests ==
    ASSUME NEW chain, Len(chain) \in Nat, NEW runId,
           EntriesVerify(chain, runId)
    PROVE  \A i \in 1..Len(chain) : chain[i].digest = PrefixMaterial(chain, i)
<1> DEFINE Bad == {i \in 1..Len(chain) :
                      chain[i].digest # PrefixMaterial(chain, i)}
<1> SUFFICES ASSUME Bad # {}
             PROVE  FALSE
    OBVIOUS
<1>1. PICK m \in Bad : \A k \in Bad : m <= k
    <2>1. Bad \in SUBSET Nat
        OBVIOUS
    <2> HIDE DEF Bad
    <2>2. QED
        BY <2>1, LeastPosition
<1>2. m \in 1..Len(chain)
    OBVIOUS
<1>3. EntryVerifies(chain, runId, m)
    BY <1>2 DEF EntriesVerify
<1>4. CASE m = 1
    <2>1. chain[1].digest = Append(<< >>, Item(chain, 1))
        BY <1>3, <1>4 DEF EntryVerifies, EntryDigest, Genesis, Item
    <2>2. PrefixMaterial(chain, 0) = << >>
        BY DEF PrefixMaterial
    <2>3. PrefixMaterial(chain, 1) =
              Append(PrefixMaterial(chain, 0), Item(chain, 1))
        BY PrefixGrows, 0 + 1 = 1
    <2>4. QED
        BY <1>4, <2>1, <2>2, <2>3
<1>5. CASE m # 1
    <2>1. m - 1 \in 1..Len(chain) /\ m - 1 \notin Bad
        BY <1>1, <1>2, <1>5
    <2>0. m - 1 \in Nat
        BY <2>1
    <2>2. chain[m - 1].digest = PrefixMaterial(chain, m - 1)
        BY <2>1
    <2>3. chain[m].digest = Append(chain[m - 1].digest, Item(chain, m))
        BY <1>3, <1>5 DEF EntryVerifies, EntryDigest, Item
    <2>4. PrefixMaterial(chain, (m - 1) + 1) =
              Append(PrefixMaterial(chain, m - 1), Item(chain, (m - 1) + 1))
        BY <2>0, PrefixGrows
    <2>5. (m - 1) + 1 = m
        BY <1>2
    <2>6. QED
        BY <2>2, <2>3, <2>4, <2>5
<1>6. QED
    BY <1>4, <1>5

\* A verified snapshot's digest commits to its entries, all of them, in order.
LEMMA VerifiedSnapshot ==
    ASSUME NEW s, s.entries \in Seq(EvidenceEntry), s.entries # << >>,
           VerifyChain(s)
    PROVE  /\ s.chain_digest = Material(s.entries)
           /\ EventsOf(s.chain_digest) = EventsOf(s.entries)
<1> DEFINE n == Len(s.entries)
<1>1. n \in Nat /\ n >= 1
    OBVIOUS
<1>2. /\ EntriesVerify(s.entries, s.run_id)
      /\ s.chain_digest = LastDigest(s.entries)
    BY DEF VerifyChain
<1>3. s.entries[n].digest = PrefixMaterial(s.entries, n)
    BY <1>1, <1>2, VerifiedDigests
<1>4. s.chain_digest = PrefixMaterial(s.entries, n)
    BY <1>2, <1>3 DEF LastDigest
<1>5. PrefixMaterial(s.entries, n) = Material(s.entries)
    BY DEF PrefixMaterial, Material, Item
<1>6. Len(PrefixMaterial(s.entries, n)) = n
    BY <1>1 DEF PrefixMaterial
<1>7. \A i \in 1..n : PrefixMaterial(s.entries, n)[i].event = s.entries[i].event
    BY DEF PrefixMaterial, Item
<1>8. EventsOf(s.chain_digest) = EventsOf(s.entries)
    BY <1>4, <1>6, <1>7 DEF EventsOf
<1>9. QED
    BY <1>4, <1>5, <1>8
=============================================================================
