-------------------------- MODULE PdfExportRecords --------------------------
(***************************************************************************)
(* The durable records of PDF exports - operations, lifecycle heads with   *)
(* their transition journal, artifact receipts and terminal completions -  *)
(* as the in-memory repositories keep them, where a call is one step.  The *)
(* SQLite repositories do the same inside BEGIN IMMEDIATE, with calls that *)
(* fail before or after their commit.  A call is a record with a kind;     *)
(* facts stand for whatever its fingerprint covers besides its ids.        *)
(***************************************************************************)
EXTENDS Naturals, FiniteSets, Functions

CONSTANTS
  Callers,    \* concurrent callers of the repositories
  Scenarios,  \* sets of calls that callers make together
  NoCall,     \* a caller without a call
  MaxCalls    \* bound on the calls made

VARIABLES
  operations,   \* rows [operation, key, payload]
  heads,        \* rows [operation, binding, revision, stopped]
  journal,      \* rows [operation, transition, call, to]
  receipts,     \* rows [operation, persistence, artifact, job, facts]
  completions,  \* rows [operation, workflow, events, facts]
  scenario,     \* what callers call with
  calls,        \* each caller's call and its answer
  made          \* calls made so far

records == <<operations, heads, journal, receipts, completions>>
recordVars == <<records, scenario, calls, made>>

Of(table, operation) == {row \in table : row.operation = operation}

\* A status, and the revision of the head that comes with it (0 without one).
Says(status, revision) == [status |-> status, revision |-> revision]
NoAnswer == Says("none", 0)
Unavailable == Says("storage-unavailable", 0)
Answer(c, status, revision) == calls' = [calls EXCEPT ![c].answer = Says(status, revision)]

RecordsInit ==
  /\ operations = {} /\ heads = {} /\ journal = {} /\ receipts = {} /\ completions = {}
  /\ scenario \in Scenarios
  /\ calls = [c \in Callers |-> [call |-> NoCall, answer |-> NoAnswer]]
  /\ made = 0

---------------------------------------------------------------------------
(* What each call does when it is served.  The disjuncts exclude each      *)
(* other: they are the early returns of the code.                          *)

\* admitOperation: the caller key decides before the operation id.
Admit(c, r) ==
  LET keyed == {o \in operations : o.key = r.key} IN
  /\ UNCHANGED <<heads, journal, receipts, completions>>
  /\ \/ /\ \E o \in keyed :
             Answer(c, IF o.payload = r.payload THEN "idempotent-replay" ELSE "conflict", 0)
        /\ UNCHANGED operations
     \/ /\ keyed = {} /\ Of(operations, r.operation) # {}
        /\ Answer(c, "conflict", 0)
        /\ UNCHANGED operations
     \/ /\ keyed = {} /\ Of(operations, r.operation) = {}
        /\ Answer(c, "created", 0)
        /\ operations' = operations \cup
             {[operation |-> r.operation, key |-> r.key, payload |-> r.payload]}

NewHead(r) == [operation |-> r.operation, binding |-> r.binding, revision |-> 0, stopped |-> FALSE]

\* initializeLifecycle
Initialize(c, r) ==
  /\ UNCHANGED <<operations, journal, receipts, completions>>
  /\ \/ /\ \E h \in Of(heads, r.operation) :
             IF h.binding = r.binding THEN Answer(c, "idempotent-replay", h.revision)
             ELSE Answer(c, "conflict", 0)
        /\ UNCHANGED heads
     \/ /\ Of(heads, r.operation) = {}
        /\ Answer(c, "created", 0)
        /\ heads' = heads \cup {NewHead(r)}

\* A transition of PdfExportLifecycle, reduced to what the repository sees of
\* it: it is refused once the head has stopped, and may stop it.
Moved(h, r) == [h EXCEPT !.revision = @ + 1, !.stopped = r.stops]
Entry(h, r) ==
  [operation |-> r.operation, transition |-> r.transition, call |-> r, to |-> h.revision + 1]

Replayable(r) == {j \in Of(journal, r.operation) : j.transition = r.transition}

\* applyLifecycleTransition: the journal is asked before the revision.
Transition(c, r) ==
  /\ UNCHANGED <<operations, receipts, completions>>
  /\ \/ /\ Of(heads, r.operation) = {}
        /\ Answer(c, "not-found", 0)
        /\ UNCHANGED <<heads, journal>>
     \/ /\ \E h \in Of(heads, r.operation) : \E j \in Replayable(r) :
             IF j.call = r THEN Answer(c, "idempotent-replay", j.to)
             ELSE Answer(c, "conflict", h.revision)
        /\ UNCHANGED <<heads, journal>>
     \/ /\ Replayable(r) = {}
        /\ \E h \in Of(heads, r.operation) :
             /\ h.revision # r.revision \/ h.stopped
             /\ Answer(c, IF h.revision # r.revision THEN "stale" ELSE "blocked", h.revision)
        /\ UNCHANGED <<heads, journal>>
     \/ /\ Replayable(r) = {}
        /\ \E h \in Of(heads, r.operation) :
             /\ h.revision = r.revision /\ ~h.stopped
             /\ Answer(c, "applied", h.revision + 1)
             /\ heads' = (heads \ {h}) \cup {Moved(h, r)}
             /\ journal' = journal \cup {Entry(h, r)}

\* commitProjection: persistence id, operation, artifact id, job id.
Taken(r) ==
  \/ \E x \in receipts : x.persistence = r.persistence /\ x.operation # r.operation
  \/ \E x \in Of(receipts, r.operation) : x.facts # r.facts
  \/ Of(receipts, r.operation) = {} /\ \E x \in receipts : x.artifact = r.artifact \/ x.job = r.job

\* The receipt goes with the manifest and the job it is committed with.
ReceiptOf(r) ==
  [operation |-> r.operation, persistence |-> r.persistence, artifact |-> r.artifact,
   job |-> r.job, facts |-> r.facts]

Retain(r) == receipts' = receipts \cup {ReceiptOf(r)}

Project(c, r) ==
  /\ UNCHANGED <<operations, heads, journal, completions>>
  /\ \/ /\ Taken(r)
        /\ Answer(c, "conflict", 0)
        /\ UNCHANGED receipts
     \/ /\ ~Taken(r) /\ Of(receipts, r.operation) # {}
        /\ Answer(c, "idempotent-replay", 0)
        /\ UNCHANGED receipts
     \/ /\ ~Taken(r) /\ Of(receipts, r.operation) = {}
        /\ Answer(c, "committed", 0)
        /\ Retain(r)

\* commitTerminalWorkflow: workflow id, operation, event ids.
Owned(r) ==
  \/ \E x \in completions : x.workflow = r.workflow /\ x.operation # r.operation
  \/ \E x \in Of(completions, r.operation) : x.facts # r.facts
  \/ Of(completions, r.operation) = {} /\ \E x \in completions : x.events \cap Range(r.events) # {}

\* The completion goes with its events.
CompletionOf(r) ==
  [operation |-> r.operation, workflow |-> r.workflow, events |-> Range(r.events),
   facts |-> r.facts]

Complete(c, r) ==
  /\ UNCHANGED <<operations, heads, journal, receipts>>
  /\ \/ /\ Owned(r)
        /\ Answer(c, "conflict", 0)
        /\ UNCHANGED completions
     \/ /\ ~Owned(r) /\ Of(completions, r.operation) # {}
        /\ Answer(c, "idempotent-replay", 0)
        /\ UNCHANGED completions
     \/ /\ ~Owned(r) /\ Of(completions, r.operation) = {}
        /\ Answer(c, "committed", 0)
        /\ completions' = completions \cup {CompletionOf(r)}

---------------------------------------------------------------------------
(* Callers *)

Asked(c) == calls[c].call # NoCall
Open(c) == Asked(c) /\ calls[c].answer = NoAnswer

\* A caller makes a call, perhaps one that it or another made before.
Ask(c, r) ==
  /\ ~Asked(c)
  /\ made < MaxCalls
  /\ calls' = [calls EXCEPT ![c].call = r]
  /\ made' = made + 1
  /\ UNCHANGED <<records, scenario>>

Serve(c) ==
  /\ Open(c)
  /\ LET r == calls[c].call IN
     \/ r.kind = "admit" /\ Admit(c, r)
     \/ r.kind = "initialize" /\ Initialize(c, r)
     \/ r.kind = "transition" /\ Transition(c, r)
     \/ r.kind = "project" /\ Project(c, r)
     \/ r.kind = "complete" /\ Complete(c, r)
  /\ UNCHANGED <<scenario, made>>

\* A busy store or a fault before the commit, or after it: the caller of
\* either is told the same.
Fail(c) ==
  /\ Asked(c)
  /\ calls[c].answer # Unavailable
  /\ calls' = [calls EXCEPT ![c].answer = Unavailable]
  /\ UNCHANGED <<records, scenario, made>>

Return(c) ==
  /\ Asked(c) /\ ~Open(c)
  /\ calls' = [calls EXCEPT ![c] = [call |-> NoCall, answer |-> NoAnswer]]
  /\ UNCHANGED <<records, scenario, made>>

RecordsNext ==
  \E c \in Callers : (\E r \in scenario : Ask(c, r)) \/ Serve(c) \/ Fail(c) \/ Return(c)

RecordsSpec == RecordsInit /\ [][RecordsNext]_recordVars

---------------------------------------------------------------------------
(* Properties *)

\* The head of an operation is what its journal tells: each retained
\* transition moved it by one, none moved it twice, and nothing else did, also
\* for transitions that were sent again after an answer was lost
\* (applyLifecycleTransition writes both in one transaction).
HeadsHaveHistory ==
  /\ \A j, k \in journal :
       j.operation = k.operation /\ (j.transition = k.transition \/ j.to = k.to) => j = k
  /\ \A j \in journal : \E h \in Of(heads, j.operation) : j.to \in 1..h.revision
  /\ \A h \in heads : \A n \in 1..h.revision : \E j \in Of(journal, h.operation) : j.to = n

\* Every identity has one owner: operation ids and caller keys, heads, the
\* receipt, artifact and job of an operation, its completion and its events.
OneOwnerEach ==
  /\ \A x, y \in operations : x.operation = y.operation \/ x.key = y.key => x = y
  /\ \A x, y \in heads : x.operation = y.operation => x = y
  /\ \A x, y \in receipts :
       x.operation = y.operation \/ x.persistence = y.persistence \/ x.artifact = y.artifact
         \/ x.job = y.job => x = y
  /\ \A x, y \in completions :
       x.operation = y.operation \/ x.workflow = y.workflow \/ x.events \cap y.events # {} => x = y
=============================================================================
