-------------------------- MODULE CompositionPromise --------------------------
(***************************************************************************)
(* What the composition scheduler promises of one job: once created it     *)
(* advances through the transitions of its document one at a time, it is   *)
(* completed only when all of them are done, and once it has ended it      *)
(* stays as it ended.                                                      *)
(***************************************************************************)
EXTENDS Naturals

CONSTANT Length   \* the transitions of the document

VARIABLES stage, done

Ended == {"completed", "blocked", "cancelled", "expired"}

PromiseInit == stage = "absent" /\ done = 0

Create == stage = "absent" /\ stage' = "active" /\ UNCHANGED done
Advance == stage = "active" /\ done < Length /\ done' = done + 1 /\ UNCHANGED stage
Complete == stage = "active" /\ done = Length /\ stage' = "completed" /\ UNCHANGED done
Stop == stage = "active" /\ stage' \in Ended \ {"completed"} /\ UNCHANGED done

PromiseNext == Create \/ Advance \/ Complete \/ Stop

PromiseSpec == PromiseInit /\ [][PromiseNext]_<<stage, done>>
=============================================================================
