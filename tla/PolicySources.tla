--------------------------- MODULE PolicySources ---------------------------
(***************************************************************************)
(* The adapters of policy engines and audit trails: adapters/agt.py,       *)
(* agt_audit.py, opa.py, cedar.py and agt_data.py with data_flow.py.  Each *)
(* raises, or maps a source record to one event.  A field is "none" when   *)
(* the source leaves it out or it is malformed; optional times are not in  *)
(* the DOMAIN of their record.  Fields that neither the verdict nor the    *)
(* class of a run reads are taken to be well formed.                       *)
(***************************************************************************)
EXTENDS Integers, Sequences, AgtApproval

PolicyDecisionEvent(id, time, decision) ==
    [event_type |-> "policy.decision", event_id |-> id,
     time_unix_nano |-> time, decision |-> decision]

-----------------------------------------------------------------------------
\* agt.py: AGT's own policy events.  The event keeps the UUID of its source.
Decision == [allow  |-> "allow", allowed |-> "allow",
             deny   |-> "deny",  denied  |-> "deny",
             block  |-> "deny",  blocked |-> "deny",
             review |-> "challenge", require_approval  |-> "challenge",
                                     requires_approval |-> "challenge"]

AgtPolicyMaps(source) ==
    /\ source.kind \in {"policy_check", "policy_violation"}
    /\ source.decision \in DOMAIN Decision
    /\ Present(source.event_id)
    /\ source.latency_ms >= 0

\* Mutant of agt_policy_decision: what is under review counts as allowed.
agt_reviewed_is_allowed(source) ==
    PolicyDecisionEvent(SourceEventId("agt", source.event_id),
                        source.occurred_at,
                        IF source.decision = "review" THEN "allow"
                                                      ELSE Decision[source.decision])

agt_policy_decision(source) ==
    PolicyDecisionEvent(SourceEventId("agt", source.event_id),
                        source.occurred_at, Decision[source.decision])

-----------------------------------------------------------------------------
\* agt_audit.py: rows of the audit trail.
AuditDecision == [allow  |-> "allow", allowed |-> "allow",
                  deny   |-> "deny",  denied  |-> "deny",
                  review |-> "challenge", require_approval  |-> "challenge",
                                          requires_approval |-> "challenge",
                  not_applicable |-> "not_applicable", error |-> "error"]

AuditPolicyMaps(row) ==
    /\ row.event_type \in {"policy_evaluation", "policy_violation"}
    /\ row.policy_decision \in DOMAIN AuditDecision
    /\ Present(row.entry_id)

agt_audit_policy_decision(row) ==
    PolicyDecisionEvent(SourceEventId("audit policy", row.entry_id),
                        row.timestamp, AuditDecision[row.policy_decision])

AuditOutcome == [success |-> "success", failure |-> "error", error |-> "error",
                 denied |-> "denied", cancelled |-> "cancelled",
                 timeout |-> "timeout"]

Blocked(row) == row.event_type = "tool_blocked"

\* _audit_duration does not raise.
HasDuration(row) ==
    /\ {"issued_at", "completed_at"} \subseteq DOMAIN row
    /\ row.issued_at <= row.completed_at

AuditActionMaps(row) ==
    /\ row.event_type \in {"tool_invocation", "tool_blocked", "action"}
    /\ Present(row.entry_id)
    /\ Blocked(row) \/ row.outcome \in DOMAIN AuditOutcome
    /\ "duration_ns" \in DOMAIN row \/ HasDuration(row)

\* An audited action names neither an approval nor a policy event.
agt_audit_action(row) ==
    [event_type     |-> "action.executed",
     event_id       |-> SourceEventId("audit action", row.entry_id),
     time_unix_nano |-> row.timestamp,
     action_digest  |-> row.action_digest,
     outcome        |-> IF Blocked(row) THEN "denied"
                                        ELSE AuditOutcome[row.outcome]]

-----------------------------------------------------------------------------
\* opa.py: the host's mapper, if it has one, turns the result into a decision.
BooleanDecision == [true |-> "allow", false |-> "deny", null |-> "not_applicable"]

OpaMaps(entry) ==
    /\ Present(entry.decision_id)
    /\ IF "mapped" \in DOMAIN entry
       THEN entry.mapped \in {"allow", "deny", "challenge", "not_applicable",
                              "error"}
       ELSE entry.result \in DOMAIN BooleanDecision

opa_decision_log(entry) ==
    PolicyDecisionEvent(SourceEventId("opa", entry.decision_id),
                        entry.timestamp,
                        IF "mapped" \in DOMAIN entry THEN entry.mapped
                        ELSE BooleanDecision[entry.result])

\* cedar.py, over answers in lower case.  The event gets an id of its own.
CedarMaps(answer) == answer.decision \in {"allow", "deny"}

cedar_policy_decision(answer) ==
    PolicyDecisionEvent(SourceEventId("uuid4", answer.call), answer.time,
                        answer.decision)

-----------------------------------------------------------------------------
\* agt_data.py: an access to labelled data.
Levels == <<"public", "internal", "confidential", "restricted", "top_secret">>

agt_data_classification(level) == Levels[level + 1]

DataAccessMaps(access) ==
    access.classification \in 0 .. Len(Levels) - 1

classified_data_flow(id, time, taxonomy, class, policy_decision) ==
    [event_type |-> "data_flow.observed", event_id |-> id,
     time_unix_nano |-> time, taxonomy |-> taxonomy, class |-> class,
     policy_decision |-> policy_decision]

agt_data_access_flow(access) ==
    classified_data_flow(SourceEventId("uuid4", access.call),
                         access.evaluated_at, "agt.data_classification.v1",
                         agt_data_classification(access.classification),
                         IF access.allowed THEN "allow" ELSE "deny")
=============================================================================
