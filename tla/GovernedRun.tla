---------------------------- MODULE GovernedRun ----------------------------
(***************************************************************************)
(* A run whose evidence comes from all adapters: the approvals of AGT      *)
(* (ApprovalFlow) beside policy engines and audit trails (PolicySources).  *)
(* Either SDK may appraise it.                                             *)
(***************************************************************************)
EXTENDS ApprovalFlow, PolicySources, TsAppraisal

CONSTANTS
    AgtPolicyEvents, AuditRows, OpaEntries, CedarAnswers,   \* source records
    Reversed   \* events whose digests are written value first

\* What the adapters make of the sources.
AgtMapped    == {s \in AgtPolicyEvents : AgtPolicyMaps(s)}
AuditPolicy  == {s \in AuditRows : AuditPolicyMaps(s)}
AuditActions == {s \in AuditRows : AuditActionMaps(s)}
OpaMapped    == {s \in OpaEntries : OpaMaps(s)}
CedarMapped  == {s \in CedarAnswers : CedarMaps(s)}

PolicyEvents ==
    {agt_policy_decision(s) : s \in AgtMapped}
    \cup {agt_audit_policy_decision(s) : s \in AuditPolicy}
    \cup {opa_decision_log(s) : s \in OpaMapped}
    \cup {cedar_policy_decision(s) : s \in CedarMapped}

SourceEvents == PolicyEvents \cup {agt_audit_action(s) : s \in AuditActions}

ASSUME SourcesAssumption == SourceEvents \subseteq OtherEvents

-----------------------------------------------------------------------------
\* What the sources said, in their own words.
SaidNo ==
    \/ \E s \in AgtMapped :
           /\ agt_policy_decision(s) \in evidence
           /\ s.decision \in {"deny", "denied", "block", "blocked"}
    \/ \E s \in AuditPolicy :
           /\ agt_audit_policy_decision(s) \in evidence
           /\ s.policy_decision \in {"deny", "denied", "error"}
    \/ \E s \in OpaMapped :
           /\ opa_decision_log(s) \in evidence
           /\ IF "mapped" \in DOMAIN s THEN s.mapped \in {"deny", "error"}
                                       ELSE s.result = "false"
    \/ \E s \in CedarMapped :
           cedar_policy_decision(s) \in evidence /\ s.decision = "deny"
    \/ \E x \in Settled :
           /\ agt_approval_resolution(x[1], x[2]) \in evidence
           /\ x[1].outcome # "allow"

AllowedInTime(d) ==
    \E x \in Settled :
        /\ {agt_approval_resolution(x[1], x[2]), agt_approval_request(x[2])}
               \subseteq evidence
        /\ x[2].policy_decision_id = d.policy_decision_id
        /\ x[1].outcome = "allow" /\ x[1].resolved_at <= x[2].expires_at

Pending == {"review", "require_approval", "requires_approval"}

\* Only a decision of the approval protocol can be answered: its id is the one
\* approvals name.
LeftOpen ==
    \/ \E d \in Suspended :
           agt_policy_decision_record(d) \in evidence /\ ~AllowedInTime(d)
    \/ \E s \in AgtMapped :
           agt_policy_decision(s) \in evidence /\ s.decision \in Pending
    \/ \E s \in AuditPolicy :
           /\ agt_audit_policy_decision(s) \in evidence
           /\ s.policy_decision \in Pending
    \/ \E s \in OpaMapped :
           /\ opa_decision_log(s) \in evidence
           /\ "mapped" \in DOMAIN s /\ s.mapped = "challenge"

\* On a run with adapter events only, the verdict is what its sources said, in
\* whatever vocabulary: refused when one of them refused; open when one of them
\* suspended an action and no approval released it in time; else affirmed when
\* any of them spoke at all (adapters/*.py, trace_adapter.py:225-257).
VerdictIsTheSources ==
    evidence \subseteq AdapterEvents \cup SourceEvents =>
        Verdict = IF SaidNo THEN "contraindicated"
                  ELSE IF LeftOpen THEN "warning"
                  ELSE IF evidence \cap (AdapterEvents \cup PolicyEvents) # {}
                  THEN "affirming" ELSE "none"

\* Both SDKs give a run one verdict where its digests are written alike; where
\* they are not, the TypeScript verdict is never the milder one
\* (trace-finalizer.ts:70-137, trace_adapter.py:225-373).
TsIsNeverMilder ==
    /\ TsAppraisal(evidence, {}) = Verdict
    /\ Severity(TsAppraisal(evidence, Reversed)) >= Severity(Verdict)

\* A run has one verdict, whichever SDK finalizes it: an approval is matched "by
\* algorithm and value" of its action digest (docs/trace-finalization.md:62-66,
\* docs/action-events.md:28-29).  trace-finalizer.ts:122 compares the text of
\* the digests instead, in which their keys have an order.
SdksAgree == TsAppraisal(evidence, Reversed) = Verdict
=============================================================================
