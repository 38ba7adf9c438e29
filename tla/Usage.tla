------------------------------- MODULE Usage -------------------------------
(***************************************************************************)
(* UsageAccumulator (usage.py): its dictionary of usage facts, how a fact  *)
(* gets in, and the rollups made of it.                                    *)
(*                                                                         *)
(* A usage event's tokens are a function whose domain are the fields it    *)
(* observed. Its cost is NoCost or an amount in a currency. Amounts are    *)
(* numbers: they are added as decimals, and the one rounding of a rollup,  *)
(* of its sum to a float, is left out.                                     *)
(***************************************************************************)
EXTENDS Naturals, FiniteSets, FiniteSetsExt

CONSTANT TokenFields   \* TOKEN_FIELDS

NoCost == [amount |-> 0, currency |-> "none", source |-> "none"]

NoFacts == [id \in {} |-> NoCost]

\* add takes valid leaves only: the schema accepts them, token counts and amounts
\* are what they should be.
Leaf(event) == event.valid /\ event.scope = "model_call"

IsNew(facts, event) == event.event_id \notin DOMAIN facts

Known(facts, event) ==
    [id \in DOMAIN facts \cup {event.event_id} |->
        IF id = event.event_id THEN event ELSE facts[id]]

\* Mutants of add: it takes events of any scope; it replaces what it has.
add_any_scope(facts, event) ==
    IF IsNew(facts, event) THEN Known(facts, event) ELSE facts

add_replacing(facts, event) ==
    IF Leaf(event) THEN Known(facts, event) ELSE facts

\* An event_id that is known keeps its fact: the same again is not counted, other
\* data under that id is refused.
add(facts, event) ==
    IF Leaf(event) /\ IsNew(facts, event) THEN Known(facts, event) ELSE facts

-----------------------------------------------------------------------------
FactsIn(facts) == {facts[id] : id \in DOMAIN facts}

\* A rollup is asked for with a scope, run and agent, and perhaps a workflow.
Matches(facts, ask) ==
    {e \in FactsIn(facts) :
        /\ e.run_id = ask.run_id
        /\ ask.scope = "workflow_run" \/ e.agent_id = ask.agent_id
        /\ ask.workflow_id = "none" \/ e.workflow_id = ask.workflow_id}

Observed(events, field) == {e \in events : field \in DOMAIN e.tokens}
Costed(events) == {e \in events : e.cost # NoCost}
Currencies(events) == {e.cost.currency : e \in Costed(events)}

\* Mutant of Summary: equal values are counted once.
SummaryOfValues(events) ==
    [event_count    |-> Cardinality(events),
     totals         |->
        [f \in {g \in TokenFields : Observed(events, g) # {}} |->
            SumSet({e.tokens[f] : e \in Observed(events, f)})],
     token_coverage |-> [f \in TokenFields |-> Cardinality(Observed(events, f))],
     cost           |-> SumSet({e.cost.amount : e \in Costed(events)}),
     currencies     |-> Currencies(events),
     cost_coverage  |-> Cardinality(Costed(events)),
     cost_sources   |-> {e.cost.source : e \in Costed(events)}]

Summary(events) ==
    [event_count    |-> Cardinality(events),
     totals         |->
        [f \in {g \in TokenFields : Observed(events, g) # {}} |->
            MapThenSumSet(LAMBDA e : e.tokens[f], Observed(events, f))],
     token_coverage |-> [f \in TokenFields |-> Cardinality(Observed(events, f))],
     cost           |-> MapThenSumSet(LAMBDA e : e.cost.amount, Costed(events)),
     currencies     |-> Currencies(events),
     cost_coverage  |-> Cardinality(Costed(events)),
     cost_sources   |-> {e.cost.source : e \in Costed(events)}]

\* rollup raises when a workflow is not named, when nothing matches, or when costs
\* are in several currencies.
Rollable(facts, ask) ==
    LET events == Matches(facts, ask)
    IN  /\ ask.scope = "workflow_run" => ask.workflow_id # "none"
        /\ events # {}
        /\ Cardinality(Currencies(events)) <= 1

rollup(facts, ask) == Summary(Matches(facts, ask))
=============================================================================
