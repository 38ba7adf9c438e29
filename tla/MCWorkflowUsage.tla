-------------------------- MODULE MCWorkflowUsage --------------------------
(***************************************************************************)
(* An instance of CollectedUsage for TLC: a run with a workflow, one whose *)
(* workflow cannot be sent in a header, and one without.  Token counts go  *)
(* to the largest safe integer.                                            *)
(***************************************************************************)
EXTENDS CollectedUsage, TLC

Workflows == "r1" :> "w1" @@ "r2" :> "two lines" @@ "r3" :> None

Tokens(input) == "input_tokens" :> input
Cost(amount, currency, source) ==
    [amount |-> amount, currency |-> currency, source |-> source]

SomeUsages ==
    {[valid |-> TRUE, tokens |-> Tokens(7) @@ "output_tokens" :> 2, cost |-> Cost(5, "USD", "provider")],
     [valid |-> TRUE, tokens |-> Tokens(2), cost |-> NoCost],
     [valid |-> TRUE, tokens |-> "output_tokens" :> 4, cost |-> Cost(5, "EUR", "estimate")],
     [valid |-> FALSE, tokens |-> Tokens(3), cost |-> NoCost]}
=============================================================================
