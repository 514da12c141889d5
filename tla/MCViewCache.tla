----------------------------- MODULE MCViewCache -----------------------------
(* Small instances for TLC: Sales, whose rules may read FX, and Costs, which   *)
(* FX's rules may read.                                                        *)
EXTENDS ViewCache, TLC

CONSTANTS base, masked, grid, r1, r2

Saved(ctx) == [cube |-> "Sales", view |-> grid, ctx |-> ctx, kind |-> "saved"]
Adhoc(ctx) == [cube |-> "Sales", view |-> grid, ctx |-> ctx, kind |-> "adhoc"]
ThreeRequests == {Saved(base), Saved(masked), Adhoc(base)}

TwoCubes == <<"FX", "Sales">>
(* Rules one cube deep: no cube that rules read has cross-cube rules.          *)
OneDeep == [c \in {"FX", "Sales"} |-> IF c = "Sales" THEN {{}, {"FX"}} ELSE {{}}]

(* Sales reads FX and FX reads Costs: with these two in place of TwoCubes and  *)
(* OneDeep, NeverStale is violated (README, section 5).                        *)
ThreeCubes == <<"Costs", "FX", "Sales">>
TwoDeep == [c \in {"Costs", "FX", "Sales"} |->
              CASE c = "Sales" -> {{"FX"}}
                [] c = "FX"    -> {{"Costs"}}
                [] OTHER       -> {{}}]

Alike == Permutations({r1, r2})
==============================================================================
