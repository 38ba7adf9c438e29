--------------------------- MODULE CollectedUsage ---------------------------
(***************************************************************************)
(* What reaches the collector of WorkflowUsage, rolled up by either SDK.   *)
(***************************************************************************)
EXTENDS WorkflowUsage, TsUsage

\* A total that a TypeScript rollup publishes is the exact one, although numbers
\* are rounded on the way, and it refuses a rollup for its totals only when an
\* exact one is out of range: in whatever order the Map holds the calls
\* (usage.ts:63).
SafeTotalsAreExact ==
    \A r \in Runs :
        \A ask \in {WorkflowAsk(r)} \cup {AgentAsk(r, a) : a \in Agents} :
            Rollable(facts, ask) =>
                LET exact == rollup(facts, ask).totals
                IN  \A matches \in SetToSeqs(Matches(facts, ask)) :
                        /\ TsRollable(matches) <=>
                               \A f \in DOMAIN exact : exact[f] <= MaxSafe
                        /\ TsRollable(matches) =>
                               \A f \in DOMAIN exact :
                                   TsTotal(matches, f) = exact[f]
=============================================================================
