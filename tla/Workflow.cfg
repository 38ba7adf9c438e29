CONSTANTS
    Unsafe = {"two lines"}
    TokenFields = {"input_tokens", "output_tokens"}
    Agents = {"a", "b"}
    Runs = {"r1", "r2", "r3"}
    WorkflowOf <- Workflows
    Usages <- SomeUsages
    MaxSafe = 7
    MaxSteps = 3
    MaxEvents = 2
    MaxArrivals = 2
SPECIFICATION Spec
CHECK_DEADLOCK FALSE
INVARIANTS TypeOK ContextIsSenders RollupCountsTheRun AgentsAddUp SafeTotalsAreExact
PROPERTIES FactsNeverChange
