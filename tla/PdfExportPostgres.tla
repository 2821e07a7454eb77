-------------------------- MODULE PdfExportPostgres --------------------------
(***************************************************************************)
(* The PostgreSQL repositories of PDF exports: operations, lifecycle,      *)
(* artifact projections and terminal workflows, statement by statement.    *)
(* Each call is a transaction under READ COMMITTED on a session of its     *)
(* own.  A statement sees what is committed; rows it inserts wait for an   *)
(* uncommitted row of the same key; SELECT ... FOR UPDATE and the advisory *)
(* locks hold until the transaction ends.  PdfExportRecords is what the    *)
(* calls do when each of them is one step.                                 *)
(***************************************************************************)
EXTENDS Naturals, FiniteSets, Sequences, Functions

CONSTANTS
  Callers,    \* concurrent callers, each with a session
  Scenarios,  \* sets of calls that callers make together
  NoCall,     \* a caller without a call
  NoRow,      \* a session that has read no head
  HashText(_),  \* the hash that an identity's advisory lock is named by
  MaxCalls,   \* bound on the calls made
  MaxFaults   \* bound on lost connections, lost answers and lock timeouts

\* The events of a terminal workflow are one at least and have ids of their own
\* (inspectFlowDocBackendPdfExportWorkflowCommitRequestV1).  What a commit locks is
\* named by numbers, in the order of the strings they stand for.
ASSUME PostgresAssumption ==
  /\ MaxCalls \in Nat /\ MaxFaults \in Nat
  /\ \A s \in Scenarios : \A r \in s :
       /\ r # NoCall
       /\ r.kind \in {"admit", "initialize", "transition", "project", "complete"}
       /\ r.kind = "complete" => r.events \in Seq(Nat) \ {<<>>} /\ IsInjective(r.events)
       /\ r.kind = "project" => {r.operation, r.persistence, r.artifact, r.job} \subseteq Nat
       /\ r.kind = "complete" => {r.operation, r.workflow} \subseteq Nat

VARIABLES
  tables,    \* the committed rows
  sessions,  \* each caller's transaction
  scenario,  \* what callers call with
  made,      \* calls made so far
  faults     \* faults so far

vars == <<tables, sessions, scenario, made, faults>>

TableNames ==
  {"operations", "heads", "transitions", "manifests", "jobs", "receipts", "events", "completions"}

\* The statement a session is at, the head row it has read, the identities it
\* has yet to lock, the locks it holds and the rows it has written.
Idle == [call |-> NoCall, at |-> "idle", seen |-> NoRow, todo |-> {}, locks |-> {}, writes |-> {},
         answer |-> [status |-> "none", revision |-> 0]]

Init ==
  /\ tables = [t \in TableNames |-> {}]
  /\ sessions = [c \in Callers |-> Idle]
  /\ scenario \in Scenarios
  /\ made = 0 /\ faults = 0

Of(t, operation) == {row \in tables[t] : row.operation = operation}
At(c, statement) == sessions[c].at = statement
Call(c) == sessions[c].call
Says(status, revision) == [status |-> status, revision |-> revision]

Unchanged == UNCHANGED <<scenario, made, faults>>
Proceed(c, statement) ==
  /\ sessions' = [sessions EXCEPT ![c].at = statement]
  /\ UNCHANGED tables /\ Unchanged

\* The result is known; what is left of the transaction is its COMMIT.
Conclude(c, status, revision) ==
  /\ sessions' = [sessions EXCEPT ![c].at = "commit", ![c].answer = Says(status, revision)]
  /\ UNCHANGED tables /\ Unchanged

---------------------------------------------------------------------------
(* Keys and locks *)

\* The primary and unique keys of the schema.
SameKey(t, x, y) ==
  \/ t \in {"operations", "heads", "manifests", "jobs", "receipts", "completions"}
       /\ x.operation = y.operation
  \/ t = "operations" /\ x.key = y.key
  \/ t = "transitions" /\ x.operation = y.operation /\ x.transition = y.transition
  \/ t = "manifests" /\ x.artifact = y.artifact
  \/ t = "jobs" /\ x.job = y.job
  \/ t = "receipts" /\ x.persistence = y.persistence
  \/ t = "events" /\ (x.event = y.event \/ (x.operation = y.operation /\ x.sequence = y.sequence))
  \/ t = "completions" /\ x.workflow = y.workflow

Retained(t, row) == \E x \in tables[t] : SameKey(t, x, row)

\* Another transaction has written a row of that key and has not ended.
Contested(c, t, row) ==
  \E d \in Callers \ {c} : \E w \in sessions[d].writes : w.table = t /\ SameKey(t, w.row, row)

Locked(c, lock) == \E d \in Callers \ {c} : lock \in sessions[d].locks

Write(c, t, row, next) ==
  /\ sessions' = [sessions EXCEPT ![c].at = next,
       ![c].writes = @ \cup {[table |-> t, row |-> row]}]
  /\ UNCHANGED tables /\ Unchanged

\* An error that is none of PostgreSQL's unavailabilities is thrown.
Throw(c) ==
  /\ sessions' = [sessions EXCEPT ![c] = [Idle EXCEPT
       !.call = Call(c), !.at = "return", !.answer = Says("thrown", 0)]]
  /\ UNCHANGED tables /\ Unchanged

Insert(c, t, row, next) ==
  /\ ~Contested(c, t, row)
  /\ IF Retained(t, row) THEN Throw(c) ELSE Write(c, t, row, next)

---------------------------------------------------------------------------
(* Transactions *)

\* beginFlowDocBackendPdfExportPostgresTransactionV1, and the first statement.
FirstStatement(kind) ==
  CASE kind = "admit" -> "insert-operation"
    [] kind = "initialize" -> "insert-head"
    [] kind = "transition" -> "select-head"
    [] kind \in {"project", "complete"} -> "lock"

ProjectionIdentities(r) == {r.operation, r.persistence, r.artifact, r.job}
WorkflowIdentities(r) == {r.operation, r.workflow} \cup Range(r.events)

Identities(r) ==
  CASE r.kind = "project" -> ProjectionIdentities(r)
    [] r.kind = "complete" -> WorkflowIdentities(r)
    [] OTHER -> {}

\* Mutation: each commit locks its identities in an order of its own.
DueAnyhow(todo) == todo

\* Identities are numbers in their order as strings: both commits lock theirs
\* in that order.
Due(todo) == {id \in todo : \A other \in todo : id <= other}

Begin(c, r) ==
  /\ At(c, "idle")
  /\ made < MaxCalls
  /\ made' = made + 1
  /\ sessions' = [sessions EXCEPT ![c].call = r, ![c].at = FirstStatement(r.kind),
       ![c].todo = Identities(r)]
  /\ UNCHANGED <<tables, scenario, faults>>

\* INSERT INTO operations ... ON CONFLICT DO NOTHING
OperationRow(r) == [operation |-> r.operation, key |-> r.key, payload |-> r.payload]
InsertOperation(c) ==
  /\ At(c, "insert-operation")
  /\ LET row == OperationRow(Call(c)) IN
     /\ ~Contested(c, "operations", row)
     /\ IF Retained("operations", row) THEN Proceed(c, "select-owner")
        ELSE /\ sessions' = [sessions EXCEPT ![c].at = "commit", ![c].answer = Says("created", 0),
                  ![c].writes = {[table |-> "operations", row |-> row]}]
             /\ UNCHANGED tables /\ Unchanged

\* operationResultAfterNoInsert
SelectOwner(c) ==
  /\ At(c, "select-owner")
  /\ LET r == Call(c) IN
     \/ \E o \in tables["operations"] :
          /\ o.key = r.key
          /\ Conclude(c, IF o.payload = r.payload THEN "idempotent-replay" ELSE "conflict", 0)
     \/ /\ \A o \in tables["operations"] : o.key # r.key
        /\ Conclude(c, "conflict", 0)

\* INSERT INTO heads ... ON CONFLICT DO NOTHING
HeadRow(r) == [operation |-> r.operation, binding |-> r.binding, revision |-> 0, stopped |-> FALSE]

\* Mutation: ON CONFLICT DO UPDATE.
UpsertHead(c) ==
  /\ At(c, "insert-head")
  /\ ~Contested(c, "heads", HeadRow(Call(c)))
  /\ sessions' = [sessions EXCEPT ![c].at = "commit", ![c].answer = Says("created", 0),
       ![c].writes = {[table |-> "heads", row |-> HeadRow(Call(c))]}]
  /\ UNCHANGED tables /\ Unchanged

InsertHead(c) ==
  /\ At(c, "insert-head")
  /\ LET row == HeadRow(Call(c)) IN
     /\ ~Contested(c, "heads", row)
     /\ IF Retained("heads", row) THEN Proceed(c, "select-own-head")
        ELSE /\ sessions' = [sessions EXCEPT ![c].at = "commit", ![c].answer = Says("created", 0),
                  ![c].writes = {[table |-> "heads", row |-> row]}]
             /\ UNCHANGED tables /\ Unchanged

HeadLock(operation) == <<"heads", operation>>

\* SELECT ... FOR UPDATE: waits for the row, then reads its committed version.
ReadLocked(c, h, next, answer) ==
  /\ ~Locked(c, HeadLock(h.operation))
  /\ sessions' = [sessions EXCEPT ![c].at = next, ![c].seen = h, ![c].answer = answer,
       ![c].locks = @ \cup {HeadLock(h.operation)}]
  /\ UNCHANGED tables /\ Unchanged

\* The owner of a head that was not inserted.
SelectOwnHead(c) ==
  /\ At(c, "select-own-head")
  /\ \E h \in Of("heads", Call(c).operation) :
       ReadLocked(c, h, "commit", IF h.binding = Call(c).binding
         THEN Says("idempotent-replay", h.revision) ELSE Says("conflict", 0))

SelectHead(c) ==
  /\ At(c, "select-head")
  /\ \/ /\ Of("heads", Call(c).operation) = {}
        /\ Conclude(c, "not-found", 0)
     \/ \E h \in Of("heads", Call(c).operation) :
          ReadLocked(c, h, "select-transition", sessions[c].answer)

\* Mutation: the revision decides before the journal.
SelectTransitionLate(c) ==
  /\ At(c, "select-transition")
  /\ LET r == Call(c)
         h == sessions[c].seen IN
     \/ /\ h.revision # r.revision
        /\ Conclude(c, "stale", h.revision)
     \/ /\ h.revision = r.revision /\ h.stopped
        /\ Conclude(c, "blocked", h.revision)
     \/ /\ h.revision = r.revision /\ ~h.stopped
        /\ Proceed(c, "update-head")

\* The journal decides first, then the revision, then the transition itself.
SelectTransition(c) ==
  /\ At(c, "select-transition")
  /\ LET r == Call(c)
         h == sessions[c].seen
         known == {j \in Of("transitions", r.operation) : j.transition = r.transition} IN
     \/ \E j \in known :
          IF j.call = r THEN Conclude(c, "idempotent-replay", j.to)
          ELSE Conclude(c, "conflict", h.revision)
     \/ /\ known = {} /\ h.revision # r.revision
        /\ Conclude(c, "stale", h.revision)
     \/ /\ known = {} /\ h.revision = r.revision /\ h.stopped
        /\ Conclude(c, "blocked", h.revision)
     \/ /\ known = {} /\ h.revision = r.revision /\ ~h.stopped
        /\ Proceed(c, "update-head")

\* UPDATE ... WHERE head_revision = and head_fingerprint =
UpdateHead(c) ==
  /\ At(c, "update-head")
  /\ LET r == Call(c)
         h == sessions[c].seen
         moved == [h EXCEPT !.revision = @ + 1, !.stopped = r.stops] IN
     /\ ~Contested(c, "heads", h)
     /\ IF h \in tables["heads"] THEN Write(c, "heads", moved, "insert-transition") ELSE Throw(c)

TransitionRow(r, h) ==
  [operation |-> r.operation, transition |-> r.transition, call |-> r, to |-> h.revision + 1]
InsertTransition(c) ==
  /\ At(c, "insert-transition")
  /\ LET row == TransitionRow(Call(c), sessions[c].seen) IN
     /\ ~Contested(c, "transitions", row)
     /\ IF Retained("transitions", row) THEN Throw(c)
        ELSE /\ sessions' = [sessions EXCEPT ![c].at = "commit",
                  ![c].answer = Says("applied", row.to),
                  ![c].writes = @ \cup {[table |-> "transitions", row |-> row]}]
             /\ UNCHANGED tables /\ Unchanged

\* pg_advisory_xact_lock(hashtext(...), hashtext(identity)), one identity after the other
Lock(c) ==
  /\ At(c, "lock")
  /\ \E id \in Due(sessions[c].todo) :
       LET lock == <<Call(c).kind, HashText(id)>>
           left == sessions[c].todo \ {id} IN
       /\ ~Locked(c, lock)
       /\ sessions' = [sessions EXCEPT ![c].locks = @ \cup {lock}, ![c].todo = left,
            ![c].at = IF left # {} THEN "lock"
                      ELSE IF Call(c).kind = "project" THEN "select-persistence" ELSE "select-workflow"]
       /\ UNCHANGED tables /\ Unchanged

\* What a commit answers if its operation has a record already.
AnswerExisting(c, t, next) ==
  \/ \E x \in Of(t, Call(c).operation) :
       Conclude(c, IF x.facts = Call(c).facts THEN "idempotent-replay" ELSE "conflict", 0)
  \/ Of(t, Call(c).operation) = {} /\ Proceed(c, next)

ConflictIf(c, condition, next) ==
  IF condition THEN Conclude(c, "conflict", 0) ELSE Proceed(c, next)

\* commitProjection
SelectPersistence(c) ==
  /\ At(c, "select-persistence")
  /\ LET r == Call(c) IN
     ConflictIf(c, \E x \in tables["receipts"] :
       x.persistence = r.persistence /\ x.operation # r.operation, "select-receipt")

SelectReceipt(c) == At(c, "select-receipt") /\ AnswerExisting(c, "receipts", "select-artifact")

SelectArtifact(c) ==
  /\ At(c, "select-artifact")
  /\ ConflictIf(c, \E x \in tables["manifests"] : x.artifact = Call(c).artifact, "select-job")

SelectJob(c) ==
  /\ At(c, "select-job")
  /\ ConflictIf(c, \E x \in tables["jobs"] : x.job = Call(c).job, "insert-manifest")

ManifestRow(r) == [operation |-> r.operation, artifact |-> r.artifact]

\* Mutation: the manifest is inserted through the pool, outside the transaction.
InsertManifestApart(c) ==
  /\ At(c, "insert-manifest")
  /\ tables' = [tables EXCEPT !["manifests"] = @ \cup {ManifestRow(Call(c))}]
  /\ sessions' = [sessions EXCEPT ![c].at = "insert-job"]
  /\ Unchanged

InsertManifest(c) ==
  /\ At(c, "insert-manifest")
  /\ Insert(c, "manifests", ManifestRow(Call(c)), "insert-job")

InsertJob(c) ==
  /\ At(c, "insert-job")
  /\ Insert(c, "jobs", [operation |-> Call(c).operation, job |-> Call(c).job], "insert-receipt")

InsertReceipt(c) ==
  /\ At(c, "insert-receipt")
  /\ Insert(c, "receipts", [operation |-> Call(c).operation, persistence |-> Call(c).persistence,
       facts |-> Call(c).facts], "commit")

\* commitTerminalWorkflow
SelectWorkflow(c) ==
  /\ At(c, "select-workflow")
  /\ LET r == Call(c) IN
     ConflictIf(c, \E x \in tables["completions"] :
       x.workflow = r.workflow /\ x.operation # r.operation, "select-completion")

SelectCompletion(c) ==
  At(c, "select-completion") /\ AnswerExisting(c, "completions", "select-events")

SelectEvents(c) ==
  /\ At(c, "select-events")
  /\ LET r == Call(c) IN
     ConflictIf(c, \E x \in tables["events"] :
       x.event \in Range(r.events) /\ x.operation # r.operation, "insert-events")

\* The events one by one, in their sequence; here they are one statement.
EventRows(r) ==
  {[operation |-> r.operation, event |-> r.events[i], sequence |-> i - 1] : i \in DOMAIN r.events}
InsertEvents(c) ==
  /\ At(c, "insert-events")
  /\ \A row \in EventRows(Call(c)) : ~Contested(c, "events", row)
  /\ IF \E row \in EventRows(Call(c)) : Retained("events", row) THEN Throw(c)
     ELSE /\ sessions' = [sessions EXCEPT ![c].at = "insert-completion",
               ![c].writes = {[table |-> "events", row |-> row] : row \in EventRows(Call(c))}]
          /\ UNCHANGED tables /\ Unchanged

InsertCompletion(c) ==
  /\ At(c, "insert-completion")
  /\ Insert(c, "completions", [operation |-> Call(c).operation, workflow |-> Call(c).workflow,
       facts |-> Call(c).facts], "commit")

Replaces(w, t, row) == w.table = t /\ SameKey(t, w.row, row)
Commit(c) ==
  /\ At(c, "commit")
  /\ LET writes == sessions[c].writes IN
     tables' = [t \in TableNames |->
       {row \in tables[t] : \A w \in writes : ~Replaces(w, t, row)}
         \cup {w.row : w \in {x \in writes : x.table = t}}]
  /\ sessions' = [sessions EXCEPT ![c] = [Idle EXCEPT !.call = Call(c), !.at = "return",
       !.answer = IF sessions[c].answer.status = "none" THEN Says("committed", 0)
                 ELSE sessions[c].answer]]
  /\ Unchanged

\* The client gets its answer, and may call again.
Return(c) ==
  /\ At(c, "return")
  /\ sessions' = [sessions EXCEPT ![c] = Idle]
  /\ UNCHANGED tables /\ Unchanged

InTransaction(c) == sessions[c].at \notin {"idle", "return"}

Abort(c) ==
  /\ sessions' = [sessions EXCEPT ![c] = [Idle EXCEPT
       !.call = Call(c), !.at = "return", !.answer = Says("storage-unavailable", 0)]]
  /\ UNCHANGED <<tables, scenario, made>>

\* A lost connection before the commit, or a wait that outlasts lock_timeout,
\* rolls the transaction back; one that is lost after the commit loses the
\* answer.  A waiting session is one of those that may be aborted.
Unavailable(c) ==
  /\ faults < MaxFaults
  /\ faults' = faults + 1
  /\ InTransaction(c) \/ At(c, "return")
  /\ Abort(c)

Statement(c) ==
  \/ InsertOperation(c) \/ SelectOwner(c)
  \/ InsertHead(c) \/ SelectOwnHead(c)
  \/ SelectHead(c) \/ SelectTransition(c) \/ UpdateHead(c) \/ InsertTransition(c)
  \/ Lock(c)
  \/ SelectPersistence(c) \/ SelectReceipt(c) \/ SelectArtifact(c) \/ SelectJob(c)
  \/ InsertManifest(c) \/ InsertJob(c) \/ InsertReceipt(c)
  \/ SelectWorkflow(c) \/ SelectCompletion(c) \/ SelectEvents(c)
  \/ InsertEvents(c) \/ InsertCompletion(c)
  \/ Commit(c) \/ Return(c)

Next ==
  \E c \in Callers : (\E r \in scenario : Begin(c, r)) \/ Statement(c) \/ Unavailable(c)

\* A client goes on with its transaction as long as the database lets it: no
\* lock timeout is needed for it to end.
Spec == Init /\ [][Next]_vars /\ \A c \in Callers : WF_vars(Statement(c))

---------------------------------------------------------------------------
(* Properties *)

\* The rows of the tables go together: a projection is in all three of its
\* tables or in none, a completion has its events, a transition its head.
RowsBelongTogether ==
  LET ids(t) == {row.operation : row \in tables[t]} IN
  /\ ids("manifests") = ids("receipts") /\ ids("jobs") = ids("receipts")
  /\ ids("events") = ids("completions")
  /\ ids("transitions") \subseteq ids("heads")

StatementNames ==
  {"insert-operation", "select-owner", "insert-head", "select-own-head", "select-head",
   "select-transition", "update-head", "insert-transition", "lock", "select-persistence",
   "select-receipt", "select-artifact", "select-job", "insert-manifest", "insert-job",
   "insert-receipt", "select-workflow", "select-completion", "select-events", "insert-events",
   "insert-completion", "commit"}

\* The type of the state; what a transaction may hold at which statement is
\* part of it.
PostgresTypeOK ==
  /\ DOMAIN tables = TableNames
  /\ \A t \in TableNames : \A x, y \in tables[t] : SameKey(t, x, y) => x = y
  /\ scenario \in Scenarios /\ made \in 0..MaxCalls /\ faults \in 0..MaxFaults
  /\ \A c \in Callers :
       /\ sessions[c].at \in StatementNames \cup {"idle", "return"}
       /\ (Call(c) = NoCall) = At(c, "idle")
       /\ ~InTransaction(c) => sessions[c].locks = {} /\ sessions[c].writes = {}
  /\ RowsBelongTogether

\* PdfExportRecords: the calls are served as if each of them were one step, at
\* its commit or, if it writes nothing, when its answer is decided.  Several
\* implementations of one repository contract must not answer differently.  In
\* particular no call fails on a key that another took, and no update loses the
\* head it has read: Records has no answer for what Throw says.
ReceiptRow(x, m, j) ==
  [operation |-> x.operation, persistence |-> x.persistence, artifact |-> m.artifact,
   job |-> j.job, facts |-> x.facts]
ReceiptRows ==
  {ReceiptRow(p[1], p[2], p[3]) :
     p \in {q \in tables["receipts"] \X tables["manifests"] \X tables["jobs"] :
              q[1].operation = q[2].operation /\ q[1].operation = q[3].operation}}
CompletionRows ==
  {[operation |-> x.operation, workflow |-> x.workflow, facts |-> x.facts,
    events |-> {e.event : e \in Of("events", x.operation)}] : x \in tables["completions"]}
Decided(c) == sessions[c].answer.status # "none" /\ sessions[c].writes = {}
Records == INSTANCE PdfExportRecords WITH
  operations <- tables["operations"],
  heads <- tables["heads"],
  journal <- tables["transitions"],
  receipts <- ReceiptRows,
  completions <- CompletionRows,
  calls <- [c \in Callers |-> [call |-> Call(c),
    answer |-> IF Decided(c) THEN sessions[c].answer ELSE Says("none", 0)]]
ServesLikeRecords == Records!RecordsSpec

\* The head of an operation is what its journal tells, also when transitions
\* are sent again (PdfExportRecords).
HeadsHaveHistory == Records!HeadsHaveHistory

\* What the statement that a session is at has to wait for: locks and keys of rows
\* that another transaction holds.
LocksAskedFor(c) ==
  CASE At(c, "lock") -> {<<Call(c).kind, HashText(id)>> : id \in Due(sessions[c].todo)}
    [] At(c, "select-head") \/ At(c, "select-own-head") ->
         {HeadLock(h.operation) : h \in Of("heads", Call(c).operation)}
    [] OTHER -> {}

RowsAskedFor(c) ==
  LET r == Call(c)
      rows(t, all) == {[table |-> t, row |-> row] : row \in all} IN
  CASE At(c, "insert-operation") -> rows("operations", {OperationRow(r)})
    [] At(c, "insert-head") -> rows("heads", {HeadRow(r)})
    [] At(c, "update-head") -> rows("heads", {sessions[c].seen})
    [] At(c, "insert-transition") -> rows("transitions", {TransitionRow(r, sessions[c].seen)})
    [] At(c, "insert-manifest") -> rows("manifests", {ManifestRow(r)})
    [] At(c, "insert-job") -> rows("jobs", {[operation |-> r.operation, job |-> r.job]})
    [] At(c, "insert-receipt") ->
         rows("receipts", {[operation |-> r.operation, persistence |-> r.persistence,
                            facts |-> r.facts]})
    [] At(c, "insert-events") -> rows("events", EventRows(r))
    [] At(c, "insert-completion") ->
         rows("completions", {[operation |-> r.operation, workflow |-> r.workflow,
                               facts |-> r.facts]})
    [] OTHER -> {}

WaitsFor(c, d) ==
  \/ LocksAskedFor(c) \cap sessions[d].locks # {}
  \/ \E w \in RowsAskedFor(c), v \in sessions[d].writes :
       v.table = w.table /\ SameKey(w.table, v.row, w.row)

\* No circle of sessions wait for each other: of any that are at a statement,
\* one can go on without the others.  PostgreSQL would break a circle with an
\* error that the repositories do not expect (40P01); the sorted order of the
\* identities is all that keeps it away, as long as their hashes differ.
NoCircleOfWaits ==
  \A S \in SUBSET Callers : IsFiniteSet(S) /\ S # {} =>
    \E c \in S : \A d \in S \ {c} : ~WaitsFor(c, d)

\* Every call is answered, and not because a lock timeout ends its wait.
CallsAreAnswered == \A c \in Callers : Call(c) # NoCall ~> Call(c) = NoCall
=============================================================================
