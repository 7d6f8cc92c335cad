-------------------------- MODULE DoublingPlanner --------------------------
(***************************************************************************)
(* The seeding planner of clydectl                                         *)
(* (src/tools/clydectl/internal/seed/planner.go) as pure operators over    *)
(* its record [current, total, initial, started], the RECURSIVE plan it    *)
(* produces, and the closed form the doubling is meant to follow.          *)
(***************************************************************************)
EXTENDS Naturals, Integers, Sequences

CONSTANT MaxPlanTotal  \* cluster sizes the plan is checked for: 1..MaxPlanTotal

ASSUME MaxPlanTotal \in Nat \ {0}

(* math.Floor(float64(total)*0.1): total/10 is an integer or at least     *)
(* 0.1 below the next one, and the float product is off by far less than  *)
(* that for any cluster size, so the floor is total \div 10.               *)
TenPercent(total) == total \div 10

(* NewDoublingPlanner: the first wave is initialCount when positive, else  *)
(* 10% of the cluster but at least 2, and never more than total.           *)
NewDoublingPlanner(total, initialCount) ==
  LET seeds == IF initialCount > 0 THEN initialCount
               ELSE IF TenPercent(total) > 2 THEN TenPercent(total) ELSE 2
  IN [current |-> 0, total |-> total,
      initial |-> IF seeds > total THEN total ELSE seeds, started |-> FALSE]

(* Mutant: the loop condition off by one.                                  *)
HasNextInclusive(p) == p.current <= p.total

HasNext(p) == p.current < p.total

Remaining(p) == IF p.current >= p.total THEN 0 ELSE p.total - p.current

(* Mutant: the batch is not capped at the nodes remaining.                *)
NextBatchUncapped(p) == IF ~p.started THEN p.initial ELSE p.current

(* NextBatch: the first wave is the initial density, every later wave the *)
(* number planned so far (doubling), capped at what remains.              *)
NextBatch(p) ==
  LET batch == IF ~p.started THEN p.initial ELSE p.current IN
  IF p.current + batch > p.total THEN p.total - p.current ELSE batch

(* Mutant: `p.current += batch` moved above the safety cap.                *)
AfterBatchBeforeCap(p) == [p EXCEPT !.current = @ + NextBatchUncapped(p), !.started = TRUE]

(* The planner after NextBatch.                                            *)
AfterBatch(p) == [p EXCEPT !.current = @ + NextBatch(p), !.started = TRUE]

(* The batch sizes a `for planner.HasNext() { planner.NextBatch() }` loop  *)
(* yields, cut off after `fuel` waves (a planner that makes progress needs  *)
(* at most total waves).                                                   *)
RECURSIVE PlanUpTo(_, _)
PlanUpTo(p, fuel) ==
  IF HasNext(p) /\ fuel > 0 THEN <<NextBatch(p)>> \o PlanUpTo(AfterBatch(p), fuel - 1)
                            ELSE <<>>

Plan(p) == PlanUpTo(p, p.total)

-----------------------------------------------------------------------------
(* The reference: after wave k the planner has planned                     *)
(* min(total, initial * 2^(k-1)) nodes, and it stops at the first wave     *)
(* that reaches total.                                                     *)
Planned(total, init, k) ==
  IF k = 0 THEN 0 ELSE IF init * 2^(k-1) < total THEN init * 2^(k-1) ELSE total

RefPlan(total, init) ==
  LET waves == CHOOSE w \in 1..total : Planned(total, init, w) = total
                                       /\ Planned(total, init, w - 1) < total
  IN [k \in 1..waves |-> Planned(total, init, k) - Planned(total, init, k - 1)]


(* For every cluster size and --initial-seeds value, the first wave is     *)
(* between 1 and total and the waves are the reference doubling.           *)
PlanMatchesReference ==
  \A t \in 1..MaxPlanTotal, c \in -1..MaxPlanTotal + 1 :
    LET p == NewDoublingPlanner(t, c) IN
    /\ p.initial \in 1..t
    /\ Plan(p) = RefPlan(t, p.initial)

=============================================================================
