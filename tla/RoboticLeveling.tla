--------------------------- MODULE RoboticLeveling ---------------------------
(***************************************************************************)
(* practice/robotic_leveling.go: Solve, asked for one command after        *)
(* another by a factory that executes them.  Solve keeps nothing between   *)
(* calls: targets, source and destination are computed anew from the       *)
(* stacks and the claw each time.                                          *)
(*                                                                         *)
(* Operators named Fault... are wrong versions of the one that follows.    *)
(***************************************************************************)
EXTENDS Integers, FiniteSets, Functions

CONSTANT Factories    (* the stacks at first: functions from 0..n-1 to Nat     *)

(* The constraints of the rules (lines 26 to 28).                            *)
ArmAssumption ==
  \A factory \in Factories :
    /\ \E n \in 2..8 : factory \in [0..n - 1 -> Nat]
    /\ FoldFunction(+, 0, factory) \in 1..16

VARIABLES clawPos, boxes, boxInClaw, turn

armVars == <<clawPos, boxes, boxInClaw, turn>>

Stacks == DOMAIN boxes
Least(S) == CHOOSE s \in S : \A t \in S : s <= t
Total == FoldFunction(+, 0, boxes) + (IF boxInClaw THEN 1 ELSE 0)

ArmInit ==
  /\ boxes \in Factories
  /\ clawPos \in Stacks
  /\ boxInClaw = FALSE /\ turn = 0

FaultForgetClaw(s) ==
  LET sum == FoldFunction(+, 0, boxes) n == Cardinality(Stacks)
  IN  sum \div n + (IF s < sum % n THEN 1 ELSE 0)
(* computeTargetHeights: the extra boxes go to the first stacks. *)
TargetHeight(s) ==
  LET n == Cardinality(Stacks)
  IN  Total \div n + (IF s < Total % n THEN 1 ELSE 0)

Sources == {s \in Stacks : boxes[s] > TargetHeight(s)}
Dests == {s \in Stacks : boxes[s] < TargetHeight(s)}

Toward(goal, here) ==
  IF clawPos < goal THEN "RIGHT" ELSE IF clawPos > goal THEN "LEFT" ELSE here

Solve ==
  IF boxInClaw /\ Dests # {} THEN Toward(Least(Dests), "PLACE")
  ELSE IF ~boxInClaw /\ Sources # {} THEN Toward(Least(Sources), "PICK")
  ELSE ""

(* A command that the rules allow in this state. *)
Valid(command) ==
  CASE command = "RIGHT" -> clawPos + 1 \in Stacks
    [] command = "LEFT" -> clawPos - 1 \in Stacks
    [] command = "PICK" -> ~boxInClaw /\ boxes[clawPos] > 0
    [] command = "PLACE" -> boxInClaw
    [] command = "" -> FALSE

Execute ==
  /\ Valid(Solve)
  /\ clawPos' = clawPos + CASE Solve = "RIGHT" -> 1 [] Solve = "LEFT" -> -1 [] OTHER -> 0
  /\ boxes' = [boxes EXCEPT ![clawPos] =
                 @ + CASE Solve = "PICK" -> -1 [] Solve = "PLACE" -> 1 [] OTHER -> 0]
  /\ boxInClaw' = CASE Solve = "PICK" -> TRUE [] Solve = "PLACE" -> FALSE [] OTHER -> boxInClaw
  /\ turn' = turn + 1

ArmSpec == ArmInit /\ [][Execute]_armVars

-----------------------------------------------------------------------------
(***************************************************************************)
(* The rules (lines 8 to 27): Solve gives valid commands only, stops only  *)
(* when the boxes are level with the extra ones on the left and the claw   *)
(* is empty, and gets there within 200 turns.                              *)
(***************************************************************************)
IsLeveled ==
  \A s, t \in Stacks : s < t => boxes[s] - boxes[t] \in {0, 1}

WinsInTime ==
  /\ Valid(Solve) \/ (Solve = "" /\ IsLeveled /\ ~boxInClaw)
  /\ turn <= 200
=============================================================================
