--------------------------- MODULE EvidenceChain ---------------------------
(***************************************************************************)
(* The hash chain of one evidence run: the entry and snapshot records, the *)
(* digest recipe, and the verification a finalizer repeats before it signs *)
(* (src/agentrust_telemetry/evidence.py and trace_adapter.py).             *)
(*                                                                         *)
(* SHA-256 is idealised as collision free: a digest IS the material that   *)
(* was hashed.  The material of entry n holds the material of entry n-1,   *)
(* so a digest is the sequence of (position, event) pairs hashed so far,   *)
(* and None, the 32 zero bytes before entry 0, is the empty sequence.      *)
(***************************************************************************)
EXTENDS Naturals, Sequences

CONSTANTS
    Events,   \* the event documents a caller may submit, records of ...
              \*   event_id  : what duplicates are recognised by
              \*   run_id    : the run the document says it belongs to
              \*   valid     : SchemaValidator.validate accepts it
              \*   canonical : RFC 8785 can encode it (no integer past 2^53)
    RunId     \* the run this chain is for

Completeness == {"complete", "incomplete", "unknown"}

CANONICALIZATION_PROFILE == "rfc8785-jcs-v1"
Profiles == {CANONICALIZATION_PROFILE, "another profile"}

EventIds == {e.event_id : e \in Events}
RunIds   == {e.run_id : e \in Events} \cup {RunId}

Digests == Seq([sequence : Nat, event : Events])
Genesis == << >>

\* _entry_digest: previous || u64(sequence) || JCS(event), hashed.
EntryDigest(sequence, previous, event) ==
    Append(previous, [sequence |-> sequence, event |-> event])

EvidenceEntry ==
    [sequence : Nat, event_id : EventIds, previous_digest : Digests,
     digest : Digests, event : Events]

EvidenceSnapshot ==
    [run_id : RunIds, entries : Seq(EvidenceEntry), chain_digest : Digests,
     canonicalization_profile : Profiles, completeness : Completeness,
     sealed : BOOLEAN]

\* The digest the next entry chains to, and a snapshot's chain_digest.
LastDigest(entries) ==
    IF entries = << >> THEN Genesis ELSE entries[Len(entries)].digest

\* Mutant of NewEntry: the position is that of the entry before.
NewEntryLate(entries, event) ==
    LET sequence == IF entries = << >> THEN 0 ELSE Len(entries) - 1
        previous == LastDigest(entries)
    IN  [sequence |-> sequence, event_id |-> event.event_id,
         previous_digest |-> previous,
         digest |-> EntryDigest(sequence, previous, event), event |-> event]

\* Position, previous digest and digest of the entry that comes after entries.
NewEntry(entries, event) ==
    LET sequence == Len(entries)
        previous == LastDigest(entries)
    IN  [sequence |-> sequence, event_id |-> event.event_id,
         previous_digest |-> previous,
         digest |-> EntryDigest(sequence, previous, event), event |-> event]

\* One turn of _verify_chain's loop, at 1-based index i.  Every earlier turn
\* passed, so the loop's `previous` is the digest of the entry before.
EntryVerifies(entries, runId, i) ==
    LET entry    == entries[i]
        previous == IF i = 1 THEN Genesis ELSE entries[i - 1].digest
    IN  /\ entry.sequence = i - 1
        /\ entry.previous_digest = previous
        /\ entry.digest = EntryDigest(i - 1, previous, entry.event)
        /\ entry.event_id = entry.event.event_id
        /\ entry.event.run_id = runId

EntriesVerify(entries, runId) ==
    \A i \in 1..Len(entries) : EntryVerifies(entries, runId, i)

\* _verify_chain: what must hold of a snapshot for it not to raise.
VerifyChain(snapshot) ==
    /\ snapshot.canonicalization_profile = CANONICALIZATION_PROFILE
    /\ \A i \in 1..Len(snapshot.entries) : snapshot.entries[i].event.canonical
    /\ EntriesVerify(snapshot.entries, snapshot.run_id)
    /\ snapshot.chain_digest = LastDigest(snapshot.entries)

\* Everything a digest commits to, read off the entries it should cover.
Material(entries) ==
    [i \in 1..Len(entries) |->
        [sequence |-> i - 1, event |-> entries[i].event]]

EventsOf(entries) == [i \in 1..Len(entries) |-> entries[i].event]
=============================================================================
