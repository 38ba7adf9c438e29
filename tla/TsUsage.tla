------------------------------ MODULE TsUsage ------------------------------
(***************************************************************************)
(* The rollup of the TypeScript UsageAccumulator (usage.ts).  It keeps and *)
(* matches events as the Python one does (Usage), in a Map, and sums token *)
(* counts as JavaScript numbers, in the order in which they were added.    *)
(***************************************************************************)
EXTENDS Usage, SequencesExt

CONSTANT MaxSafe   \* Number.MAX_SAFE_INTEGER, one less than a power of two

ASSUME MaxSafeAssumption == MaxSafe \in Nat /\ MaxSafe % 2 = 1

\* Mutant of IsSafeInteger: off by one.
IsSafeOrNext(n) == n <= MaxSafe + 1

IsSafeInteger(n) == n <= MaxSafe

\* The distance of the numbers about n: beyond MaxSafe only every second integer
\* is one, then every fourth, and so on.
Spacing[n \in Nat] ==
    IF n <= MaxSafe + 1 THEN 1 ELSE 2 * Spacing[(n + 1) \div 2]

\* The number nearest to a sum, the even one of two.
Rounded(n) ==
    LET step == Spacing[n]
        rest == n % step
        down == 2 * rest < step \/ (2 * rest = step /\ (n \div step) % 2 = 0)
    IN  IF down THEN n - rest ELSE n - rest + step

\* observed.reduce, over matching events in the order of the Map.
TsTotal(matches, field) ==
    LET total[i \in 0..Len(matches)] ==
            IF i = 0 THEN 0
            ELSE IF field \in DOMAIN matches[i].tokens
                 THEN Rounded(total[i - 1] + matches[i].tokens[field])
                 ELSE total[i - 1]
    IN  total[Len(matches)]

\* The rollup does not raise.
TsRollable(matches) ==
    /\ matches # << >>
    /\ \A f \in TokenFields : IsSafeInteger(TsTotal(matches, f))
    /\ Cardinality(Currencies(ToSet(matches))) <= 1
=============================================================================
