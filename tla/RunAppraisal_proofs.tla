------------------------ MODULE RunAppraisal_proofs ------------------------
(***************************************************************************)
(* The verdict on a run, for every set of evidence: what an affirming one  *)
(* means, and how more evidence may change it.                             *)
(***************************************************************************)
EXTENDS RunAppraisal, TLAPS

\* The evidence is of the documents hosts emit.
Documented == evidence \subseteq Documents

Verdicts == {"contraindicated", "warning", "affirming", "none"}

\* The four verdicts are told apart by what the evidence holds.
LEMMA AppraisalCases ==
    ASSUME NEW events
    PROVE  /\ Appraisal(events) = "contraindicated" <=>
                  \/ Refused(events)
                  \/ ActionBinding(events) = "contradicted"
           /\ Appraisal(events) = "warning" <=>
                  /\ ~Refused(events)
                  /\ ActionBinding(events) # "contradicted"
                  /\ Unresolved(events) \/ ActionBinding(events) = "unresolved"
           /\ Appraisal(events) = "affirming" =>
                  /\ ~Refused(events)
                  /\ ActionBinding(events) = "bound"
                  /\ ~Unresolved(events)
           /\ Appraisal(events) \in Verdicts
<1> DEFINE R == Refused(events)
           C == ActionBinding(events) = "contradicted"
           U == Unresolved(events)
           W == ActionBinding(events) = "unresolved"
<1>1. ActionBinding(events) \in {"contradicted", "unresolved", "bound"}
    BY DEF ActionBinding
<1>2. CASE R \/ C
    BY <1>2 DEF Appraisal, Verdicts
<1>3. CASE ~R /\ ~C /\ (U \/ W)
    BY <1>1, <1>3 DEF Appraisal, Verdicts
<1>4. CASE ~R /\ ~C /\ ~U /\ ~W
    BY <1>1, <1>4 DEF Appraisal, Verdicts
<1>5. QED
    BY <1>2, <1>3, <1>4

\* An action is bound, unresolved or contradicted by its approvals.
LEMMA BindingCases ==
    ASSUME NEW events
    PROVE  /\ ActionBinding(events) = "contradicted" <=>
                  \E a \in Gated(events) : Contradicted(events, a)
           /\ ActionBinding(events) = "bound" <=>
                  \A a \in Gated(events) : Satisfied(events, a)
<1>1. \A a \in Gated(events) : Contradicted(events, a) => ~Satisfied(events, a)
    BY DEF Contradicted
<1>2. QED
    BY <1>1 DEF ActionBinding

-----------------------------------------------------------------------------
\* A gated action that is satisfied has an approval that answers for it.
LEMMA SatisfiedIsAnswered ==
    ASSUME Documented,
           NEW action \in Gated(evidence), Satisfied(evidence, action)
    PROVE  \E approval \in evidence : AnswersFor(approval, action)
<1>1. PICK approval \in Candidates(evidence, action)
                            \cap BoundApprovals(evidence) :
          ~Disagrees(approval, action)
    BY DEF Satisfied
<1>2. PICK request \in Requests(evidence) : BoundTo(approval, request)
    BY <1>1 DEF BoundApprovals
<1>3. /\ approval \in evidence
      /\ approval.event_type = "approval.approved"
    BY <1>1 DEF Candidates, Approved, OfType
<1>4. "approval_id" \in DOMAIN action => approval.approval_id = action.approval_id
    BY <1>1 DEF Candidates
<1>5. /\ "policy_event_id" \in DOMAIN approval
      /\ approval.approval_id = request.approval_id
      /\ approval.action_digest = request.action_digest
      /\ request.requested_at_unix_nano <= approval.time_unix_nano
      /\ approval.time_unix_nano <= request.expires_at_unix_nano
    BY <1>2 DEF BoundTo, BindingFields
<1>6. /\ approval.action_digest = action.action_digest
      /\ ~(approval.time_unix_nano > action.time_unix_nano)
      /\ "policy_event_id" \in DOMAIN action =>
             approval.policy_event_id = action.policy_event_id
    BY <1>1, <1>5 DEF Disagrees, OtherPolicyEvent
<1>7. approval.time_unix_nano <= action.time_unix_nano
    <2>1. action \in evidence
        BY DEF Gated, Actions, OfType
    <2>2. approval.time_unix_nano \in Nat /\ action.time_unix_nano \in Nat
        BY <1>3, <2>1, DocumentsAssumption DEF Documented
    <2>3. QED
        BY <1>6, <2>2
<1>8. QED
    BY <1>2, <1>3, <1>4, <1>5, <1>6, <1>7 DEF AnswersFor, Requests, OfType

\* Affirming evidence holds no refusal and no cancellation.
LEMMA NothingRefused ==
    ASSUME ~Refused(evidence), ~Unresolved(evidence)
    PROVE  /\ \A e \in evidence :
                  e.event_type \notin {"approval.rejected", "approval.expired",
                                       "approval.cancelled",
                                       "approval.execution_failed"}
           /\ \A d \in evidence : d.event_type = "policy.decision" =>
                  d.decision \notin {"deny", "error"}
<1>1. \A e \in evidence : e.event_type \notin
          {"approval.rejected", "approval.expired", "approval.execution_failed"}
    BY DEF Refused, OfType
<1>2. \A e \in evidence : e.event_type # "approval.cancelled"
    BY DEF Unresolved, OfType
<1>3. \A d \in evidence : d.event_type = "policy.decision" =>
          d.decision \notin {"deny", "error"}
    BY DEF Refused, Decisions, OfType
<1>4. QED
    BY <1>1, <1>2, <1>3

\* Evidence without an unresolved challenge has an approval of each.
LEMMA ChallengesAreApproved ==
    ASSUME ~Unresolved(evidence)
    PROVE  \A d \in evidence :
               d.event_type = "policy.decision" /\ d.decision = "challenge" =>
                   \E a \in evidence :
                       /\ a.event_type = "approval.approved"
                       /\ "policy_event_id" \in DOMAIN a
                       /\ a.policy_event_id = d.event_id
<1> SUFFICES ASSUME NEW d \in evidence,
                    d.event_type = "policy.decision",
                    d.decision = "challenge"
             PROVE  \E a \in evidence :
                        /\ a.event_type = "approval.approved"
                        /\ "policy_event_id" \in DOMAIN a
                        /\ a.policy_event_id = d.event_id
    OBVIOUS
<1>1. Resolved(evidence, d)
    BY DEF Unresolved, Decisions, OfType
<1>2. PICK a \in BoundApprovals(evidence) : a.policy_event_id = d.event_id
    BY <1>1 DEF Resolved
<1>3. a \in evidence /\ a.event_type = "approval.approved"
    BY <1>2 DEF BoundApprovals, Approved, OfType
<1>4. "policy_event_id" \in DOMAIN a
    BY <1>2 DEF BoundApprovals, BoundTo, BindingFields
<1>5. QED
    BY <1>2, <1>3, <1>4

LEMMA DocumentedSoundly ==
    ASSUME Documented
    PROVE  AffirmingIsSound
<1> SUFFICES ASSUME Verdict = "affirming"
             PROVE  AffirmingIsSound
    BY DEF AffirmingIsSound
<1>1. /\ ~Refused(evidence)
      /\ ~Unresolved(evidence)
      /\ ActionBinding(evidence) = "bound"
    BY AppraisalCases DEF Verdict
<1>2. \A a \in Gated(evidence) : \E approval \in evidence : AnswersFor(approval, a)
    <2>1. \A a \in Gated(evidence) : Satisfied(evidence, a)
        BY <1>1, BindingCases
    <2>2. QED
        BY <2>1, SatisfiedIsAnswered
<1>3. \A a \in evidence :
          (/\ a.event_type = "action.executed"
           /\ a.outcome # "denied"
           /\ "approval_id" \in DOMAIN a \/ Challenged(evidence, a))
          => a \in Gated(evidence)
    BY DEF Gated, Actions, OfType
<1>4. \A a \in evidence :
          (/\ a.event_type = "action.executed"
           /\ a.outcome # "denied"
           /\ "approval_id" \in DOMAIN a \/ Challenged(evidence, a))
          => \E approval \in evidence : AnswersFor(approval, a)
    BY <1>2, <1>3, Zenon
<1>5. \A d \in evidence : d.event_type = "policy.decision" =>
          /\ d.decision \notin {"deny", "error"}
          /\ d.decision = "challenge" =>
                 \E a \in evidence :
                     /\ a.event_type = "approval.approved"
                     /\ "policy_event_id" \in DOMAIN a
                     /\ a.policy_event_id = d.event_id
    BY <1>1, NothingRefused, ChallengesAreApproved
<1>6. QED
    BY <1>1, <1>4, <1>5, NothingRefused DEF AffirmingIsSound

-----------------------------------------------------------------------------
\* The evidence is always of documents hosts emit.
THEOREM EvidenceIsDocumented == Spec => []Documented
<1>1. Init => Documented
    BY DEF Init, Documented
<1>2. Documented /\ [Next]_evidence => Documented'
    BY DEF Documented, Next, Accept
<1>3. QED
    BY <1>1, <1>2, PTL DEF Spec

\* Whatever events the run holds, an affirming verdict is one in which every
\* challenge and every gated action that ran was approved in time.
THEOREM AffirmingMeansApproved == Spec => []AffirmingIsSound
BY EvidenceIsDocumented, DocumentedSoundly, PTL

-----------------------------------------------------------------------------
\* A refusal stays in the evidence.
LEMMA RefusedGrows ==
    ASSUME NEW E, NEW F, E \subseteq F, Refused(E)
    PROVE  Refused(F)
BY DEF Refused, Decisions, OfType

\* No document recorded later lifts a refusal.
THEOREM RefusalsAreFinal == Spec => RefusalIsFinal
<1>1. [Next]_evidence =>
          [Refused(evidence) => Verdict' = "contraindicated"]_evidence
    <2> SUFFICES ASSUME Next, Refused(evidence)
                 PROVE  Verdict' = "contraindicated"
        OBVIOUS
    <2>1. evidence \subseteq evidence'
        BY DEF Next, Accept
    <2>2. Refused(evidence')
        BY <2>1, RefusedGrows
    <2>3. Appraisal(evidence') = "contraindicated"
        BY <2>2, AppraisalCases
    <2>4. QED
        BY <2>3 DEF Verdict
<1>2. QED
    BY <1>1, PTL DEF Spec, RefusalIsFinal

\* Evidence that grows by other events than requests and approvals.
Unapproving(E, F) ==
    /\ E \subseteq F
    /\ \A e \in F \ E :
           e.event_type \notin {"approval.requested", "approval.approved"}

LEMMA ApprovalsStay ==
    ASSUME NEW E, NEW F, Unapproving(E, F)
    PROVE  Approved(E) = Approved(F) /\ BoundApprovals(E) = BoundApprovals(F)
<1>1. Approved(E) = Approved(F)
    BY DEF Unapproving, Approved, OfType
<1>2. Requests(E) = Requests(F)
    BY DEF Unapproving, Requests, OfType
<1>3. QED
    BY <1>1, <1>2 DEF BoundApprovals

LEMMA GatedStay ==
    ASSUME NEW E, NEW F, E \subseteq F
    PROVE  Gated(E) \subseteq Gated(F)
<1>1. Decisions(E) \subseteq Decisions(F) /\ Actions(E) \subseteq Actions(F)
    BY DEF Decisions, Actions, OfType
<1>2. \A a : Challenged(E, a) => Challenged(F, a)
    BY <1>1 DEF Challenged
<1>3. QED
    BY <1>1, <1>2 DEF Gated

LEMMA JudgementStays ==
    ASSUME NEW E, NEW F, Unapproving(E, F), NEW a
    PROVE  /\ Satisfied(E, a) <=> Satisfied(F, a)
           /\ Contradicted(E, a) <=> Contradicted(F, a)
<1>1. Candidates(E, a) = Candidates(F, a)
    BY ApprovalsStay DEF Candidates
<1>2. Satisfied(E, a) <=> Satisfied(F, a)
    BY <1>1, ApprovalsStay DEF Satisfied
<1>3. QED
    BY <1>1, <1>2 DEF Contradicted

\* Neither a contradiction nor anything unresolved goes away.
LEMMA FindingsStay ==
    ASSUME NEW E, NEW F, Unapproving(E, F)
    PROVE  /\ ActionBinding(E) = "contradicted" =>
                  ActionBinding(F) = "contradicted"
           /\ ActionBinding(E) = "unresolved" => ActionBinding(F) # "bound"
           /\ Unresolved(E) => Unresolved(F)
<1>0. E \subseteq F
    BY DEF Unapproving
<1>1. ActionBinding(E) = "contradicted" => ActionBinding(F) = "contradicted"
    BY <1>0, BindingCases, GatedStay, JudgementStays
<1>2. ActionBinding(E) = "unresolved" => ActionBinding(F) # "bound"
    <2>1. \A a \in Gated(F) : Satisfied(F, a) => Satisfied(E, a)
        BY JudgementStays
    <2>2. ActionBinding(F) = "bound" => ActionBinding(E) = "bound"
        BY <1>0, <2>1, BindingCases, GatedStay
    <2>3. QED
        BY <2>2
<1>3. Unresolved(E) => Unresolved(F)
    <2>1. \A d \in Decisions(E) : d \in Decisions(F)
        BY <1>0 DEF Decisions, OfType
    <2>2. \A d : Resolved(F, d) => Resolved(E, d)
        BY ApprovalsStay DEF Resolved
    <2>3. OfType(E, {"approval.cancelled"}) # {} =>
              OfType(F, {"approval.cancelled"}) # {}
        BY <1>0 DEF OfType
    <2>4. QED
        BY <2>1, <2>2, <2>3 DEF Unresolved
<1>4. QED
    BY <1>1, <1>2, <1>3

LEMMA SeverityGrows ==
    ASSUME NEW E, NEW F, Unapproving(E, F)
    PROVE  ~(Severity(Appraisal(F)) < Severity(Appraisal(E)))
<1>0. E \subseteq F
    BY DEF Unapproving
<1>1. Severity(Appraisal(E)) \in 0..2 /\ Severity(Appraisal(F)) \in 0..2
    BY DEF Severity
<1>2. Appraisal(E) = "contraindicated" => Appraisal(F) = "contraindicated"
    BY <1>0, AppraisalCases, FindingsStay, RefusedGrows
<1>3. Appraisal(E) = "warning" =>
          Appraisal(F) \in {"warning", "contraindicated"}
    <2> SUFFICES ASSUME Appraisal(E) = "warning"
                 PROVE  Appraisal(F) \in {"warning", "contraindicated"}
        OBVIOUS
    <2>1. Unresolved(E) \/ ActionBinding(E) = "unresolved"
        BY AppraisalCases
    <2>2. Unresolved(F) \/ ActionBinding(F) # "bound"
        BY <2>1, FindingsStay
    <2>3. ActionBinding(F) \in {"contradicted", "unresolved", "bound"}
        BY DEF ActionBinding
    <2>4. QED
        BY <2>2, <2>3, AppraisalCases
<1>4. QED
    BY <1>1, <1>2, <1>3 DEF Severity

\* Only a request or an approval makes the verdict on a run better.
THEOREM OnlyApprovalsHelp == Spec => OnlyApprovalsImprove
<1>1. [Next]_evidence =>
          [Severity(Verdict') < Severity(Verdict) =>
              \A e \in evidence' \ evidence :
                  e.event_type \in
                      {"approval.requested", "approval.approved"}]_evidence
    <2> SUFFICES ASSUME Next, Severity(Verdict') < Severity(Verdict),
                        NEW e \in evidence' \ evidence,
                        e.event_type \notin
                            {"approval.requested", "approval.approved"}
                 PROVE  FALSE
        OBVIOUS
    <2>1. evidence' = evidence \cup {e}
        BY DEF Next, Accept
    <2>2. Unapproving(evidence, evidence')
        BY <2>1 DEF Unapproving
    <2>3. ~(Severity(Appraisal(evidence')) < Severity(Appraisal(evidence)))
        BY <2>2, SeverityGrows
    <2>4. QED
        BY <2>3 DEF Verdict
<1>2. QED
    BY <1>1, PTL DEF Spec, OnlyApprovalsImprove

-----------------------------------------------------------------------------
\* An approval an action contradicts names it, by its approval or its decision.
LEMMA ContradictionIsNamed ==
    ASSUME NEW action \in Gated(evidence), Contradicted(evidence, action)
    PROVE  \E approval \in evidence :
               /\ Conflict(approval, action)
               /\ \/ /\ "approval_id" \in DOMAIN action
                     /\ approval.approval_id = action.approval_id
                  \/ /\ "policy_event_id" \in DOMAIN action
                     /\ "policy_event_id" \in DOMAIN approval
                     /\ approval.policy_event_id = action.policy_event_id
<1>1. PICK approval \in Candidates(evidence, action) : Disagrees(approval, action)
    BY DEF Contradicted
<1>2. approval \in evidence /\ approval.event_type = "approval.approved"
    BY <1>1 DEF Candidates, Approved, OfType
<1>3. action.event_type = "action.executed" /\ action.outcome # "denied"
    BY DEF Gated, Actions, OfType
<1>4. "approval_id" \in DOMAIN action \/ "policy_event_id" \in DOMAIN action
    BY DEF Gated, Challenged
<1>5. \/ /\ "approval_id" \in DOMAIN action
         /\ approval.approval_id = action.approval_id
      \/ /\ "policy_event_id" \in DOMAIN action
         /\ "policy_event_id" \in DOMAIN approval
         /\ approval.policy_event_id = action.policy_event_id
    BY <1>1, <1>4 DEF Candidates
<1>6. Conflict(approval, action)
    BY <1>1, <1>2, <1>3 DEF Disagrees, Conflict
<1>7. QED
    BY <1>2, <1>5, <1>6

\* A run is condemned only for a denial, an approval that ended badly, or an
\* approval at odds with the action that names it, all of them in its evidence.
THEOREM CondemnedWithCause == Spec => []ContraindicationHasCause
<1>1. ContraindicationHasCause
    <2> SUFFICES ASSUME Verdict = "contraindicated"
                 PROVE  ContraindicationHasCause
        BY DEF ContraindicationHasCause
    <2>1. Refused(evidence) \/ ActionBinding(evidence) = "contradicted"
        BY AppraisalCases DEF Verdict
    <2>2. CASE Refused(evidence)
        BY <2>2 DEF Refused, Decisions, OfType, ContraindicationHasCause
    <2>3. CASE ActionBinding(evidence) = "contradicted"
        <3>1. PICK action \in Gated(evidence) : Contradicted(evidence, action)
            BY <2>3, BindingCases
        <3>2. action \in evidence
            BY DEF Gated, Actions, OfType
        <3>3. QED
            BY <3>1, <3>2, ContradictionIsNamed DEF ContraindicationHasCause
    <2>4. QED
        BY <2>1, <2>2, <2>3
<1>2. QED
    BY <1>1, PTL
=============================================================================
