--------------------------- MODULE TraceAppraisal ---------------------------
(***************************************************************************)
(* What finalize_trace derives from the events of a run (trace_adapter.py).*)
(*                                                                         *)
(* An event is a record with the fields of its document that the code      *)
(* reads; a field the document leaves out is not in the record's DOMAIN.   *)
(* Nested objects are flattened: policy.bundle_digest to bundle_digest,    *)
(* classification.taxonomy and .value to taxonomy and class.  Digests are  *)
(* values, times are numbers.  The operators read the events as a set: no  *)
(* loop of the code depends on their order, except that the last of two    *)
(* decisions with one event_id wins, and event ids are distinct in a run   *)
(* (EvidenceAccumulator!OncePerEvent).                                     *)
(***************************************************************************)
EXTENDS Integers

OfType(events, types) == {e \in events : e.event_type \in types}

Decisions(events) == OfType(events, {"policy.decision"})
Flows(events)     == OfType(events, {"data_flow.observed"})
Actions(events)   == OfType(events, {"action.executed"})
Requests(events)  == OfType(events, {"approval.requested"})
Approved(events)  == OfType(events, {"approval.approved"})

Outcomes == {"approval.rejected", "approval.expired", "approval.cancelled",
             "approval.execution_started", "approval.execution_completed",
             "approval.execution_failed"}

Approvals(events) ==
    OfType(events, {"approval.requested", "approval.approved"} \cup Outcomes)

-----------------------------------------------------------------------------
\* _bound_approvals: an approval that answers a request inside its window.
BindingFields ==
    {"approval_id", "policy_event_id", "action_digest", "chain_id",
     "chain_version", "requested_at_unix_nano", "expires_at_unix_nano"}

\* Mutant of BoundTo: the window has no end.
BoundForEver(approval, request) ==
    /\ \A field \in BindingFields :
           /\ field \in DOMAIN approval /\ field \in DOMAIN request
           /\ approval[field] = request[field]
    /\ request.requested_at_unix_nano <= approval.time_unix_nano

BoundTo(approval, request) ==
    /\ \A field \in BindingFields :
           /\ field \in DOMAIN approval /\ field \in DOMAIN request
           /\ approval[field] = request[field]
    /\ request.requested_at_unix_nano <= approval.time_unix_nano
    /\ approval.time_unix_nano <= request.expires_at_unix_nano

BoundApprovals(events) ==
    {a \in Approved(events) : \E r \in Requests(events) : BoundTo(a, r)}

-----------------------------------------------------------------------------
\* _action_approval_binding.  An action that ran is gated when it names an
\* approval, or a decision that was a challenge.
Challenged(events, action) ==
    /\ "policy_event_id" \in DOMAIN action
    /\ \E d \in Decisions(events) :
           d.event_id = action.policy_event_id /\ d.decision = "challenge"

Gated(events) ==
    {a \in Actions(events) :
        /\ a.outcome # "denied"
        /\ "approval_id" \in DOMAIN a \/ Challenged(events, a)}

\* The approvals an action may have run under.
Candidates(events, action) ==
    {a \in Approved(events) :
        IF "approval_id" \in DOMAIN action
        THEN a.approval_id = action.approval_id
        ELSE /\ "policy_event_id" \in DOMAIN a
             /\ a.policy_event_id = action.policy_event_id}

OtherPolicyEvent(approval, action) ==
    /\ "policy_event_id" \in DOMAIN action
    /\ "policy_event_id" \in DOMAIN approval
    /\ approval.policy_event_id # action.policy_event_id

Disagrees(approval, action) ==
    \/ approval.action_digest # action.action_digest
    \/ OtherPolicyEvent(approval, action)
    \/ approval.time_unix_nano > action.time_unix_nano

Satisfied(events, action) ==
    \E a \in Candidates(events, action) \cap BoundApprovals(events) :
        ~Disagrees(a, action)

\* Mutant of Contradicted: an action without its approval contradicts it.
ContradictedUnapproved(events, action) == ~Satisfied(events, action)

Contradicted(events, action) ==
    /\ ~Satisfied(events, action)
    /\ \E a \in Candidates(events, action) : Disagrees(a, action)

ActionBinding(events) ==
    IF \E a \in Gated(events) : Contradicted(events, a) THEN "contradicted"
    ELSE IF \E a \in Gated(events) : ~Satisfied(events, a) THEN "unresolved"
    ELSE "bound"

-----------------------------------------------------------------------------
\* _appraisal, worst verdict first.
Refused(events) ==
    \/ \E d \in Decisions(events) : d.decision \in {"deny", "error"}
    \/ OfType(events, {"approval.rejected", "approval.expired",
                       "approval.execution_failed"}) # {}

Resolved(events, decision) ==
    \E a \in BoundApprovals(events) : a.policy_event_id = decision.event_id

\* Mutant of Unresolved: one allowed decision answers every challenge.
UnresolvedUnlessAllowed(events) ==
    \/ \E d \in Decisions(events) :
           d.decision = "challenge" /\ ~Resolved(events, d)
           /\ ~\E other \in Decisions(events) : other.decision = "allow"
    \/ OfType(events, {"approval.cancelled"}) # {}

Unresolved(events) ==
    \/ \E d \in Decisions(events) :
           d.decision = "challenge" /\ ~Resolved(events, d)
    \/ OfType(events, {"approval.cancelled"}) # {}

\* Mutant of Appraisal: the warnings are looked for first.
AppraisalMild(events) ==
    CASE Unresolved(events) \/ ActionBinding(events) = "unresolved" -> "warning"
      [] /\ ~Unresolved(events) /\ ActionBinding(events) # "unresolved"
         /\ Refused(events) \/ ActionBinding(events) = "contradicted" ->
             "contraindicated"
      [] /\ ~Refused(events) /\ ActionBinding(events) = "bound"
         /\ ~Unresolved(events)
         /\ Decisions(events) \cup Approvals(events) # {} ->
             "affirming"
      [] OTHER -> "none"

Appraisal(events) ==
    CASE Refused(events) \/ ActionBinding(events) = "contradicted" ->
             "contraindicated"
      [] /\ ~Refused(events) /\ ActionBinding(events) # "contradicted"
         /\ Unresolved(events) \/ ActionBinding(events) = "unresolved" ->
             "warning"
      [] /\ ~Refused(events) /\ ActionBinding(events) = "bound"
         /\ ~Unresolved(events)
         /\ Decisions(events) \cup Approvals(events) # {} ->
             "affirming"
      [] OTHER -> "none"

-----------------------------------------------------------------------------
\* _policy_binding does not raise: one bundle, of an algorithm TRACE has, and
\* one enforcement mode for every decision.
PolicyIsBound(events) ==
    /\ Decisions(events) # {}
    /\ \A d \in Decisions(events) :
           /\ "bundle_digest" \in DOMAIN d
           /\ d.bundle_digest.algorithm \in {"sha256", "sha384"}
    /\ \A c, d \in Decisions(events) :
           /\ c.bundle_digest = d.bundle_digest
           /\ c.enforcement_mode = d.enforcement_mode

PolicyBundle(events) == (CHOOSE d \in Decisions(events) : TRUE).bundle_digest

EnforcementMode(events) ==
    LET mode == (CHOOSE d \in Decisions(events) : TRUE).enforcement_mode
    IN  CASE mode = "enforce"  -> "enforce"
          [] mode = "monitor"  -> "advisory"
          [] mode = "disabled" -> "declared"

\* _highest_data_class, over rank, the position of each class the configuration
\* orders.
FlowsAreRanked(events, taxonomy, rank) ==
    /\ Flows(events) # {}
    /\ \A f \in Flows(events) : f.taxonomy = taxonomy /\ f.class \in DOMAIN rank

HighestClass(events, rank) ==
    (CHOOSE f \in Flows(events) :
        \A g \in Flows(events) : rank[g.class] <= rank[f.class]).class

\* Mutant of LatestTime: the time is not converted to seconds.
LatestUnit(events, Second) ==
    (CHOOSE e \in events :
        \A f \in events : f.time_unix_nano <= e.time_unix_nano).time_unix_nano

\* issued_at: the second in which the latest event happened, of Second units of
\* time each.
LatestTime(events, Second) ==
    LET last == CHOOSE e \in events :
                    \A f \in events : f.time_unix_nano <= e.time_unix_nano
    IN  last.time_unix_nano \div Second
=============================================================================
