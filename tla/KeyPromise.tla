----------------------------- MODULE KeyPromise -----------------------------
(***************************************************************************)
(* What an idempotency key promises those who ask with it, without stores, *)
(* processes or retries: it is bound once, to what one of them asked for,  *)
(* everyone who is told of a result is told of that one, and only one      *)
(* asker is told that it was created.                                      *)
(***************************************************************************)
EXTENDS Naturals

CONSTANTS Values, Unbound   \* what a key can be bound to, and the free key

VARIABLES
  bound,     \* what the key is bound to
  told,      \* the results that were told
  creations  \* how often one was told as created

promiseVars == <<bound, told, creations>>

PromiseInit == bound = Unbound /\ told = {} /\ creations = 0

Bind(v) ==
  /\ bound = Unbound
  /\ bound' = v
  /\ UNCHANGED <<told, creations>>

TellCreated ==
  /\ bound # Unbound
  /\ creations = 0
  /\ told' = told \cup {bound}
  /\ creations' = 1
  /\ UNCHANGED bound

TellReplayed ==
  /\ bound # Unbound
  /\ told' = told \cup {bound}
  /\ UNCHANGED <<bound, creations>>

PromiseNext == (\E v \in Values : Bind(v)) \/ TellCreated \/ TellReplayed

PromiseSpec == PromiseInit /\ [][PromiseNext]_promiseVars
=============================================================================
