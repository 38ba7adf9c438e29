---------------------------- MODULE ApprovalFlow ----------------------------
(***************************************************************************)
(* An AGT host maps its approval records with the adapters, each against   *)
(* the records it holds, and emits them beside the other events of a run;  *)
(* RunAppraisal is the run.                                                *)
(***************************************************************************)
EXTENDS RunAppraisal, AgtApproval

CONSTANTS
    PolicyDecisions, ApprovalRequests, ApprovalResolutions,   \* AGT's records
    OtherEvents   \* what other adapters contribute to the run

\* The pairs and triples of records that map.
Suspended == {d \in PolicyDecisions : DecisionMaps(d)}

Requested ==
    {x \in ApprovalRequests \X Suspended : RequestMaps(x[1], x[2])}

Settled ==
    {x \in ApprovalResolutions \X ApprovalRequests : ResolutionMaps(x[1], x[2])}

AdapterEvents ==
    {agt_policy_decision_record(d) : d \in Suspended}
    \cup {agt_approval_request(x[1]) : x \in Requested}
    \cup {agt_approval_resolution(x[1], x[2]) : x \in Settled}

ASSUME MappingAssumption == Documents = AdapterEvents \cup OtherEvents

-----------------------------------------------------------------------------
\* Records that the adapters let pass as one approval do answer each other in the
\* evidence: an allowing resolution binds to its request if it came before the
\* request expired, and only then; and where the evidence is that approval alone,
\* the verdict on the run is the resolution's own (agt_approval.py:156-194 checks
\* four and five fields, trace_adapter.py:338-373 asks for seven).
LinkedApprovalsCount ==
    \A x \in Requested, r \in ApprovalResolutions :
        LET q == x[1]
            challenge  == agt_policy_decision_record(x[2])
            request    == agt_approval_request(q)
            resolution == agt_approval_resolution(r, q)
            inTime     == r.resolved_at <= q.expires_at
        IN  ResolutionMaps(r, q) /\ {challenge, request, resolution} \subseteq evidence =>
                /\ r.outcome = "allow" =>
                       (resolution \in BoundApprovals(evidence) <=> inTime)
                /\ evidence = {challenge, request, resolution} =>
                       Verdict = IF r.outcome # "allow" THEN "contraindicated"
                                 ELSE IF inTime THEN "affirming" ELSE "warning"
=============================================================================
