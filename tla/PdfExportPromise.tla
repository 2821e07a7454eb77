-------------------------- MODULE PdfExportPromise --------------------------
(***************************************************************************)
(* What one PDF export operation promises its client, without workers,     *)
(* claims, attempts or checkpoints: at most one artifact and one outcome,  *)
(* and an outcome that is true of what happened before it.                 *)
(***************************************************************************)
EXTENDS Naturals

CONSTANT Deadline   \* deadlineAt

VARIABLES
  outcome,    \* the terminal status, "none" until the export is over
  artifact,   \* whether an artifact projection is retained
  asked,      \* whether a cancellation is retained
  clock

promiseVars == <<outcome, artifact, asked, clock>>

PromiseInit ==
  /\ outcome = "none"
  /\ artifact = FALSE
  /\ asked = FALSE
  /\ clock = 0

Retain ==
  /\ ~artifact
  /\ artifact' = TRUE
  /\ UNCHANGED <<outcome, asked, clock>>

Ask ==
  /\ ~asked
  /\ asked' = TRUE
  /\ UNCHANGED <<outcome, artifact, clock>>

\* A failure may have any cause; the other outcomes have theirs.
End(o) ==
  /\ outcome = "none"
  /\ outcome' = o
  /\ o = "completed" => artifact
  /\ o = "cancelled" => asked
  /\ o = "deadline-exceeded" => clock >= Deadline
  /\ UNCHANGED <<artifact, asked, clock>>

Pass ==
  /\ clock' = clock + 1
  /\ UNCHANGED <<outcome, artifact, asked>>

PromiseNext ==
  \/ Retain
  \/ Ask
  \/ \E o \in {"completed", "failed", "cancelled", "deadline-exceeded"} : End(o)
  \/ Pass

PromiseSpec == PromiseInit /\ [][PromiseNext]_promiseVars
=============================================================================
