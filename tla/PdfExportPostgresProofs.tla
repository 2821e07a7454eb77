----------------------- MODULE PdfExportPostgresProofs -----------------------
(***************************************************************************)
(* Theorems about the PostgreSQL repositories of PDF exports, for any      *)
(* number of sessions and any calls: statement by statement they do what   *)
(* the calls of PdfExportRecords do in one step.                           *)
(***************************************************************************)
EXTENDS PdfExportPostgres, FiniteSetTheorems, WellFoundedInduction, TLAPS

-----------------------------------------------------------------------------
(* What a session knows at each of its statements, of the tables T. *)

W(t, row) == [table |-> t, row |-> row]
MovedRow(h, r) == [h EXCEPT !.revision = @ + 1, !.stopped = r.stops]

\* No row of that key is committed.
New(T, t, row) == \A x \in T[t] : ~SameKey(t, x, row)

Undecided(s) == s.answer = Says("none", 0)
Answered(s) == s.at = "commit" /\ s.answer.status # "none" /\ s.writes = {}
Asks(s, statement) == s.at = statement /\ Undecided(s) /\ s.writes = {}
Wrote(s, statement, writes) == s.at = statement /\ Undecided(s) /\ s.writes = writes

AdmitFits(s, T) ==
  LET row == OperationRow(s.call) IN
  \/ Answered(s)
  \/ Asks(s, "insert-operation")
  \/ Asks(s, "select-owner") /\ ~New(T, "operations", row)
  \/ /\ s.at = "commit" /\ s.answer = Says("created", 0)
     /\ s.writes = {W("operations", row)} /\ New(T, "operations", row)

InitializeFits(s, T) ==
  LET row == HeadRow(s.call) IN
  \/ Answered(s)
  \/ Asks(s, "insert-head")
  \/ Asks(s, "select-own-head")
  \/ /\ s.at = "commit" /\ s.answer = Says("created", 0)
     /\ s.writes = {W("heads", row)} /\ New(T, "heads", row)

\* The head that was read is still the head, because its row is locked.
Sees(s, T) ==
  /\ s.seen \in T["heads"] /\ s.seen.operation = s.call.operation
  /\ HeadLock(s.call.operation) \in s.locks

\* The transition is not retained, and can be made.
Fresh(s, T) ==
  /\ \A j \in T["transitions"] :
       ~(j.operation = s.call.operation /\ j.transition = s.call.transition)
  /\ s.seen.revision = s.call.revision /\ ~s.seen.stopped

TransitionWrites(s) ==
  {W("heads", MovedRow(s.seen, s.call)), W("transitions", TransitionRow(s.call, s.seen))}

TransitionFits(s, T) ==
  \/ Answered(s)
  \/ Asks(s, "select-head")
  \/ Asks(s, "select-transition") /\ Sees(s, T)
  \/ /\ Sees(s, T) /\ Fresh(s, T)
     /\ \/ Asks(s, "update-head")
        \/ Wrote(s, "insert-transition", {W("heads", MovedRow(s.seen, s.call))})
        \/ /\ s.at = "commit" /\ s.answer = Says("applied", s.seen.revision + 1)
           /\ s.writes = TransitionWrites(s)

Holds(s, ids) == \A id \in ids : <<s.call.kind, HashText(id)>> \in s.locks

Locking(s) ==
  /\ Asks(s, "lock") /\ s.todo # {} /\ s.todo \subseteq Identities(s.call)
  /\ Holds(s, Identities(s.call) \ s.todo)

\* Under the locks of its identities, what a session did not find stays unfound.
PersistenceFree(r, T) ==
  \A x \in T["receipts"] : x.persistence = r.persistence => x.operation = r.operation
ReceiptFree(r, T) == \A x \in T["receipts"] : x.operation # r.operation
ArtifactFree(r, T) == \A x \in T["manifests"] : x.artifact # r.artifact
JobFree(r, T) == \A x \in T["jobs"] : x.job # r.job
ProjectionFree(r, T) ==
  PersistenceFree(r, T) /\ ReceiptFree(r, T) /\ ArtifactFree(r, T) /\ JobFree(r, T)

JobRow(r) == [operation |-> r.operation, job |-> r.job]
PersistenceRow(r) ==
  [operation |-> r.operation, persistence |-> r.persistence, facts |-> r.facts]
ProjectionWrites(r) ==
  {W("manifests", ManifestRow(r)), W("jobs", JobRow(r)), W("receipts", PersistenceRow(r))}

ProjectFits(s, T) ==
  LET r == s.call IN
  \/ Answered(s)
  \/ Locking(s)
  \/ /\ Holds(s, Identities(r))
     /\ \/ Asks(s, "select-persistence")
        \/ Asks(s, "select-receipt") /\ PersistenceFree(r, T)
        \/ Asks(s, "select-artifact") /\ PersistenceFree(r, T) /\ ReceiptFree(r, T)
        \/ Asks(s, "select-job") /\ PersistenceFree(r, T) /\ ReceiptFree(r, T) /\ ArtifactFree(r, T)
        \/ /\ ProjectionFree(r, T)
           /\ \/ Asks(s, "insert-manifest")
              \/ Wrote(s, "insert-job", {W("manifests", ManifestRow(r))})
              \/ Wrote(s, "insert-receipt", {W("manifests", ManifestRow(r)), W("jobs", JobRow(r))})
              \/ Wrote(s, "commit", ProjectionWrites(r))

WorkflowFree(r, T) ==
  \A x \in T["completions"] : x.workflow = r.workflow => x.operation = r.operation
CompletionFree(r, T) == \A x \in T["completions"] : x.operation # r.operation
EventsFree(r, T) ==
  \A x \in T["events"] : x.event \in Range(r.events) => x.operation = r.operation
EndingFree(r, T) == WorkflowFree(r, T) /\ CompletionFree(r, T) /\ EventsFree(r, T)

CompletionRow(r) == [operation |-> r.operation, workflow |-> r.workflow, facts |-> r.facts]
EventWrites(r) == {W("events", row) : row \in EventRows(r)}
EndingWrites(r) == EventWrites(r) \cup {W("completions", CompletionRow(r))}

CompleteFits(s, T) ==
  LET r == s.call IN
  \/ Answered(s)
  \/ Locking(s)
  \/ /\ Holds(s, Identities(r))
     /\ \/ Asks(s, "select-workflow")
        \/ Asks(s, "select-completion") /\ WorkflowFree(r, T)
        \/ Asks(s, "select-events") /\ WorkflowFree(r, T) /\ CompletionFree(r, T)
        \/ /\ EndingFree(r, T)
           /\ \/ Asks(s, "insert-events")
              \/ Wrote(s, "insert-completion", EventWrites(r))
              \/ Wrote(s, "commit", EndingWrites(r))

Returns(s) == s.at = "return" /\ s.locks = {} /\ s.writes = {} /\ s.answer.status # "none"

Shape(s) ==
  s = [call |-> s.call, at |-> s.at, seen |-> s.seen, todo |-> s.todo, locks |-> s.locks,
       writes |-> s.writes, answer |-> s.answer]

Calls == UNION Scenarios

KindFits(s, T) ==
  \/ s.call.kind = "admit" /\ AdmitFits(s, T)
  \/ s.call.kind = "initialize" /\ InitializeFits(s, T)
  \/ s.call.kind = "transition" /\ TransitionFits(s, T)
  \/ s.call.kind = "project" /\ ProjectFits(s, T)
  \/ s.call.kind = "complete" /\ CompleteFits(s, T)

Fits(s, T) ==
  \/ s = Idle
  \/ Shape(s) /\ s.call \in Calls /\ (Returns(s) \/ KindFits(s, T))

-----------------------------------------------------------------------------
(* The inductive invariant. *)

HeadShape(h) ==
  h \in [operation : {h.operation}, binding : {h.binding}, revision : Nat, stopped : {h.stopped}]

KeysUnique(T) == \A t \in TableNames : \A x, y \in T[t] : SameKey(t, x, y) => x = y

Ids(T, t) == {row.operation : row \in T[t]}
Together(T) ==
  /\ Ids(T, "manifests") = Ids(T, "receipts") /\ Ids(T, "jobs") = Ids(T, "receipts")
  /\ Ids(T, "events") = Ids(T, "completions")
  /\ Ids(T, "transitions") \subseteq Ids(T, "heads")

TablesFit(T) ==
  /\ T = [t \in TableNames |-> T[t]]
  /\ KeysUnique(T) /\ Together(T)
  /\ \A h \in T["heads"] : HeadShape(h)

\* No lock is held twice, and no key is written twice.
LocksApart ==
  \A c, d \in Callers : c # d => sessions[c].locks \cap sessions[d].locks = {}
Clash(w, v) == w.table = v.table /\ SameKey(w.table, w.row, v.row)
WritesApart ==
  \A c, d \in Callers : c # d =>
    \A w \in sessions[c].writes, v \in sessions[d].writes : ~Clash(w, v)

PostgresInv ==
  /\ scenario \in Scenarios /\ made \in 0 .. MaxCalls /\ faults \in 0 .. MaxFaults
  /\ sessions = [c \in Callers |-> sessions[c]]
  /\ TablesFit(tables)
  /\ \A c \in Callers : Fits(sessions[c], tables)
  /\ LocksApart /\ WritesApart

-----------------------------------------------------------------------------
(* Lemmas on keys and sessions. *)

LEMMA KeySymmetric == ASSUME NEW t, NEW x, NEW y PROVE SameKey(t, x, y) <=> SameKey(t, y, x)
  BY SMT DEF SameKey

LEMMA ClashSymmetric == ASSUME NEW w, NEW v PROVE Clash(w, v) <=> Clash(v, w)
  BY KeySymmetric DEF Clash

LEMMA CallKinds ==
  ASSUME NEW r \in Calls
  PROVE  /\ r # NoCall /\ r.kind \in {"admit", "initialize", "transition", "project", "complete"}
         /\ r.kind = "complete" => r.events \in Seq(Nat) \ {<<>>} /\ IsInjective(r.events)
  BY PostgresAssumption DEF Calls

LEMMA IdleFits ==
  /\ Idle.call = NoCall /\ Idle.at = "idle" /\ Idle.todo = {} /\ Idle.locks = {}
  /\ Idle.writes = {} /\ Idle.answer = Says("none", 0) /\ Shape(Idle)
  BY DEF Idle, Says, Shape

LEMMA SaysFields == ASSUME NEW a, NEW n PROVE Says(a, n).status = a /\ Says(a, n).revision = n
  BY DEF Says

\* A step that changes one session only.
LEMMA SessionStep ==
  ASSUME PostgresInv, NEW c \in Callers, NEW k, sessions' = [sessions EXCEPT ![c] = k],
         tables' = tables, scenario' = scenario, made' \in 0 .. MaxCalls,
         faults' \in 0 .. MaxFaults, Fits(k, tables),
         \A d \in Callers \ {c} : k.locks \cap sessions[d].locks = {},
         \A d \in Callers \ {c} : \A w \in k.writes, v \in sessions[d].writes : ~Clash(w, v)
  PROVE  PostgresInv'
<1>1. sessions = [d \in Callers |-> sessions[d]]
  BY DEF PostgresInv
<1>2. sessions' = [d \in Callers |-> sessions'[d]]
  BY <1>1
<1>3. sessions'[c] = k /\ \A d \in Callers \ {c} : sessions'[d] = sessions[d]
  BY <1>1
<1>4. \A d \in Callers : Fits(sessions'[d], tables')
  BY <1>3 DEF PostgresInv
<1>5. ASSUME NEW d \in Callers, NEW e \in Callers, d # e
      PROVE  sessions'[d].locks \cap sessions'[e].locks = {}
  BY <1>3, <1>5 DEF PostgresInv, LocksApart
<1>6. ASSUME NEW d \in Callers, NEW e \in Callers, d # e,
             NEW w \in sessions'[d].writes, NEW v \in sessions'[e].writes
      PROVE  ~Clash(w, v)
  BY <1>3, <1>6, ClashSymmetric DEF PostgresInv, WritesApart
<1>7. TablesFit(tables') /\ scenario' \in Scenarios
  BY DEF PostgresInv
<1> QED
  BY <1>2, <1>4, <1>5, <1>6, <1>7 DEF PostgresInv, LocksApart, WritesApart

\* One that takes no lock and writes no row.
LEMMA OwnStep ==
  ASSUME PostgresInv, NEW c \in Callers, NEW k, sessions' = [sessions EXCEPT ![c] = k],
         tables' = tables, scenario' = scenario, made' \in 0 .. MaxCalls,
         faults' \in 0 .. MaxFaults, Fits(k, tables),
         k.locks \subseteq sessions[c].locks, k.writes \subseteq sessions[c].writes
  PROVE  PostgresInv'
<1>1. \A d \in Callers \ {c} : k.locks \cap sessions[d].locks = {}
  BY DEF PostgresInv, LocksApart
<1>2. \A d \in Callers \ {c} : \A w \in k.writes, v \in sessions[d].writes : ~Clash(w, v)
  BY DEF PostgresInv, WritesApart
<1> QED
  BY <1>1, <1>2, SessionStep

-----------------------------------------------------------------------------
(* What a session's statement tells of it. *)

LEMMA AdmitStatements ==
  ASSUME NEW s, NEW T, Fits(s, T), s.at \in {"insert-operation", "select-owner"}
  PROVE  /\ Shape(s) /\ s.call \in Calls /\ s.call.kind = "admit" /\ Undecided(s) /\ s.writes = {}
         /\ s.at = "select-owner" => ~New(T, "operations", OperationRow(s.call))
  BY IdleFits DEF Fits, Returns, KindFits, AdmitFits, InitializeFits, TransitionFits, ProjectFits,
     CompleteFits, Answered, Asks, Wrote, Locking

LEMMA InitializeStatements ==
  ASSUME NEW s, NEW T, Fits(s, T), s.at \in {"insert-head", "select-own-head"}
  PROVE  Shape(s) /\ s.call \in Calls /\ s.call.kind = "initialize" /\ Undecided(s) /\ s.writes = {}
  BY IdleFits DEF Fits, Returns, KindFits, AdmitFits, InitializeFits, TransitionFits, ProjectFits,
     CompleteFits, Answered, Asks, Wrote, Locking

LEMMA TransitionStatements ==
  ASSUME NEW s, NEW T, Fits(s, T),
         s.at \in {"select-head", "select-transition", "update-head", "insert-transition"}
  PROVE  /\ Shape(s) /\ s.call \in Calls /\ s.call.kind = "transition" /\ Undecided(s)
         /\ s.at # "insert-transition" => s.writes = {}
         /\ s.at # "select-head" => Sees(s, T)
         /\ s.at \in {"update-head", "insert-transition"} => Fresh(s, T)
         /\ s.at = "insert-transition" => s.writes = {W("heads", MovedRow(s.seen, s.call))}
  BY IdleFits DEF Fits, Returns, KindFits, AdmitFits, InitializeFits, TransitionFits, ProjectFits,
     CompleteFits, Answered, Asks, Wrote, Locking

LEMMA LockStatements ==
  ASSUME NEW s, NEW T, Fits(s, T), s.at = "lock"
  PROVE  Shape(s) /\ s.call \in Calls /\ s.call.kind \in {"project", "complete"} /\ Locking(s)
  BY IdleFits DEF Fits, Returns, KindFits, AdmitFits, InitializeFits, TransitionFits, ProjectFits,
     CompleteFits, Answered, Asks, Wrote

LEMMA ProjectStatements ==
  ASSUME NEW s, NEW T, Fits(s, T),
         s.at \in {"select-persistence", "select-receipt", "select-artifact", "select-job",
                   "insert-manifest", "insert-job", "insert-receipt"}
  PROVE  /\ Shape(s) /\ s.call \in Calls /\ s.call.kind = "project" /\ Undecided(s)
         /\ Holds(s, Identities(s.call))
         /\ s.at # "select-persistence" => PersistenceFree(s.call, T)
         /\ s.at \notin {"select-persistence", "select-receipt"} => ReceiptFree(s.call, T)
         /\ s.at \in {"select-job", "insert-manifest", "insert-job", "insert-receipt"} =>
              ArtifactFree(s.call, T)
         /\ s.at \in {"insert-manifest", "insert-job", "insert-receipt"} =>
              ProjectionFree(s.call, T)
         /\ s.at = "insert-job" => s.writes = {W("manifests", ManifestRow(s.call))}
         /\ s.at = "insert-receipt" =>
              s.writes = {W("manifests", ManifestRow(s.call)), W("jobs", JobRow(s.call))}
         /\ s.at \notin {"insert-job", "insert-receipt"} => s.writes = {}
  BY IdleFits DEF Fits, Returns, KindFits, AdmitFits, InitializeFits, TransitionFits, ProjectFits,
     CompleteFits, Answered, Asks, Wrote, Locking, ProjectionFree

LEMMA CompleteStatements ==
  ASSUME NEW s, NEW T, Fits(s, T),
         s.at \in {"select-workflow", "select-completion", "select-events", "insert-events",
                   "insert-completion"}
  PROVE  /\ Shape(s) /\ s.call \in Calls /\ s.call.kind = "complete" /\ Undecided(s)
         /\ Holds(s, Identities(s.call))
         /\ s.at # "select-workflow" => WorkflowFree(s.call, T)
         /\ s.at \notin {"select-workflow", "select-completion"} => CompletionFree(s.call, T)
         /\ s.at \in {"insert-events", "insert-completion"} => EndingFree(s.call, T)
         /\ s.at = "insert-completion" => s.writes = EventWrites(s.call)
         /\ s.at # "insert-completion" => s.writes = {}
  BY IdleFits DEF Fits, Returns, KindFits, AdmitFits, InitializeFits, TransitionFits, ProjectFits,
     CompleteFits, Answered, Asks, Wrote, Locking, EndingFree

\* An answer that is decided.
LEMMA AnsweredFits ==
  ASSUME NEW s, NEW T, Shape(s), s.call \in Calls, Answered(s)
  PROVE  Fits(s, T)
  BY CallKinds DEF Fits, KindFits, AdmitFits, InitializeFits, TransitionFits, ProjectFits,
     CompleteFits

-----------------------------------------------------------------------------
(* Every statement keeps the invariant. *)

LEMMA SessionIs == ASSUME PostgresInv, NEW c \in Callers PROVE Fits(sessions[c], tables)
  BY DEF PostgresInv

LEMMA BoundsKept ==
  ASSUME PostgresInv, Unchanged
  PROVE  scenario' = scenario /\ made' \in 0 .. MaxCalls /\ faults' \in 0 .. MaxFaults
  BY DEF PostgresInv, Unchanged

LEMMA ConcludeInv ==
  ASSUME PostgresInv, NEW c \in Callers, Shape(sessions[c]), sessions[c].call \in Calls,
         sessions[c].writes = {}, NEW status, NEW n, status # "none", Conclude(c, status, n)
  PROVE  PostgresInv'
<1> DEFINE k == [sessions[c] EXCEPT !.at = "commit", !.answer = Says(status, n)]
<1>0. k = [sessions[c] EXCEPT !.at = "commit", !.answer = Says(status, n)]
  OBVIOUS
<1>2. sessions' = [sessions EXCEPT ![c] = k] /\ tables' = tables /\ Unchanged
  BY DEF Conclude
<1> HIDE DEF k
<1>1. /\ Shape(k) /\ k.call = sessions[c].call /\ k.at = "commit" /\ k.locks = sessions[c].locks
      /\ k.writes = sessions[c].writes /\ k.answer = Says(status, n)
  BY <1>0 DEF Shape
<1>3. Fits(k, tables)
  BY <1>1, AnsweredFits, SaysFields DEF Answered
<1> QED
  BY <1>1, <1>2, <1>3, OwnStep, BoundsKept

LEMMA ProceedInv ==
  ASSUME PostgresInv, NEW c \in Callers, Shape(sessions[c]), NEW statement,
         Proceed(c, statement),
         ASSUME NEW k, Shape(k), k.call = sessions[c].call, k.at = statement,
                k.seen = sessions[c].seen, k.todo = sessions[c].todo, k.locks = sessions[c].locks,
                k.writes = sessions[c].writes, k.answer = sessions[c].answer
         PROVE  Fits(k, tables)
  PROVE  PostgresInv'
<1> DEFINE k == [sessions[c] EXCEPT !.at = statement]
<1>0. k = [sessions[c] EXCEPT !.at = statement]
  OBVIOUS
<1>2. sessions' = [sessions EXCEPT ![c] = k] /\ tables' = tables /\ Unchanged
  BY DEF Proceed
<1> HIDE DEF k
<1>1. /\ Shape(k) /\ k.call = sessions[c].call /\ k.at = statement /\ k.seen = sessions[c].seen
      /\ k.todo = sessions[c].todo /\ k.locks = sessions[c].locks
      /\ k.writes = sessions[c].writes /\ k.answer = sessions[c].answer
  BY <1>0 DEF Shape
<1>3. Fits(k, tables)
  BY <1>1
<1> QED
  BY <1>1, <1>2, <1>3, OwnStep, BoundsKept

\* A caller makes a call.
LEMMA BeginInv ==
  ASSUME PostgresInv, NEW c \in Callers, NEW r \in scenario, Begin(c, r)
  PROVE  PostgresInv'
<1> DEFINE k == [sessions[c] EXCEPT !.call = r, !.at = FirstStatement(r.kind), !.todo = Identities(r)]
<1>0. k = [sessions[c] EXCEPT !.call = r, !.at = FirstStatement(r.kind), !.todo = Identities(r)]
  OBVIOUS
<1>1. sessions' = [sessions EXCEPT ![c] = k]
  BY DEF Begin
<1> HIDE DEF k
<1>7. /\ tables' = tables /\ scenario' = scenario
      /\ made' \in 0 .. MaxCalls /\ faults' \in 0 .. MaxFaults
  BY PostgresAssumption DEF Begin, PostgresInv
<1>2. r \in Calls
  BY DEF PostgresInv, Calls
<1>3. sessions[c] = Idle
  BY SessionIs, CallKinds DEF Begin, At, Fits, Returns, KindFits, AdmitFits, InitializeFits,
     TransitionFits, ProjectFits, CompleteFits, Answered, Asks, Wrote, Locking
<1>4. /\ Shape(k) /\ k.call = r /\ k.at = FirstStatement(r.kind) /\ k.todo = Identities(r)
      /\ k.locks = {} /\ k.writes = {} /\ k.answer = Says("none", 0)
  <2>1. /\ Shape(sessions[c]) /\ sessions[c].locks = {} /\ sessions[c].writes = {}
        /\ sessions[c].answer = Says("none", 0)
    BY <1>3, IdleFits
  <2> QED
    BY <1>0, <2>1 DEF Shape
<1>5. KindFits(k, tables)
  <2>1. CASE r.kind = "admit"
    BY <1>4, <2>1 DEF KindFits, AdmitFits, Asks, Undecided, FirstStatement
  <2>2. CASE r.kind = "initialize"
    BY <1>4, <2>2 DEF KindFits, InitializeFits, Asks, Undecided, FirstStatement
  <2>3. CASE r.kind = "transition"
    BY <1>4, <2>3 DEF KindFits, TransitionFits, Asks, Undecided, FirstStatement
  <2>4. CASE r.kind = "project"
    <3>1. Identities(r) # {}
      BY <2>4 DEF Identities, ProjectionIdentities
    <3>2. k.at = "lock"
      BY <1>4, <2>4 DEF FirstStatement
    <3> QED
      BY <1>4, <2>4, <3>1, <3>2 DEF KindFits, ProjectFits, Locking, Asks, Undecided, Holds
  <2>5. CASE r.kind = "complete"
    <3>1. Identities(r) # {}
      BY <2>5 DEF Identities, WorkflowIdentities
    <3>2. k.at = "lock"
      BY <1>4, <2>5 DEF FirstStatement
    <3> QED
      BY <1>4, <2>5, <3>1, <3>2 DEF KindFits, CompleteFits, Locking, Asks, Undecided, Holds
  <2> QED
    BY <1>2, <2>1, <2>2, <2>3, <2>4, <2>5, CallKinds
<1>6. Fits(k, tables)
  BY <1>2, <1>4, <1>5 DEF Fits
<1> QED
  BY <1>1, <1>4, <1>6, <1>7, OwnStep

LEMMA ReturnInv ==
  ASSUME PostgresInv, NEW c \in Callers, Return(c)
  PROVE  PostgresInv'
<1>1. Fits(Idle, tables)
  BY DEF Fits
<1>2. sessions' = [sessions EXCEPT ![c] = Idle] /\ tables' = tables /\ Unchanged
  BY DEF Return
<1> QED
  BY <1>1, <1>2, IdleFits, OwnStep, BoundsKept

LEMMA CallKnown ==
  ASSUME NEW s, NEW T, Fits(s, T), s.at # "idle"
  PROVE  s.call \in Calls /\ Shape(s)
  BY IdleFits DEF Fits

LEMMA UnavailableInv ==
  ASSUME PostgresInv, NEW c \in Callers, Unavailable(c)
  PROVE  PostgresInv'
<1> DEFINE k == [Idle EXCEPT !.call = Call(c), !.at = "return",
                 !.answer = Says("storage-unavailable", 0)]
<1>1. /\ sessions' = [sessions EXCEPT ![c] = k] /\ tables' = tables /\ scenario' = scenario
      /\ made' \in 0 .. MaxCalls /\ faults' \in 0 .. MaxFaults
  BY PostgresAssumption DEF Unavailable, Abort, PostgresInv
<1>2. Call(c) \in Calls
  BY SessionIs, CallKnown DEF Unavailable, InTransaction, At, Call
<1>3. k = [Idle EXCEPT !.call = Call(c), !.at = "return", !.answer = Says("storage-unavailable", 0)]
  OBVIOUS
<1> HIDE DEF k
<1>4. /\ Shape(k) /\ k.call = Call(c) /\ k.at = "return" /\ k.locks = {} /\ k.writes = {}
      /\ k.answer = Says("storage-unavailable", 0)
  BY <1>3 DEF Shape, Idle
<1>5. Fits(k, tables)
  BY <1>2, <1>4, SaysFields DEF Fits, Returns
<1> QED
  BY <1>1, <1>4, <1>5, OwnStep

\* An uncontested row clashes with none that others have written.
LEMMA Uncontested ==
  ASSUME NEW c \in Callers, NEW t, NEW row, ~Contested(c, t, row)
  PROVE  \A d \in Callers \ {c} : \A v \in sessions[d].writes : ~Clash(W(t, row), v)
<1> SUFFICES ASSUME NEW d \in Callers \ {c}, NEW v \in sessions[d].writes, Clash(W(t, row), v)
             PROVE  FALSE
  OBVIOUS
<1>1. v.table = t /\ SameKey(t, row, v.row)
  BY DEF Clash, W
<1>2. SameKey(t, v.row, row)
  BY <1>1, KeySymmetric
<1> QED
  BY <1>1, <1>2 DEF Contested

LEMMA InsertOperationInv ==
  ASSUME PostgresInv, NEW c \in Callers, InsertOperation(c)
  PROVE  PostgresInv'
<1> DEFINE row == OperationRow(Call(c))
<1>1. /\ Shape(sessions[c]) /\ sessions[c].call \in Calls /\ sessions[c].call.kind = "admit"
      /\ Undecided(sessions[c]) /\ sessions[c].writes = {} /\ row = OperationRow(sessions[c].call)
  BY SessionIs, AdmitStatements DEF InsertOperation, At, Call
<1>2. CASE Retained("operations", row)
  <2>1. Proceed(c, "select-owner")
    BY <1>2 DEF InsertOperation
  <2>2. ~New(tables, "operations", OperationRow(sessions[c].call))
    BY <1>1, <1>2 DEF Retained, New
  <2>3. ASSUME NEW k, Shape(k), k.call = sessions[c].call, k.at = "select-owner",
               k.writes = sessions[c].writes, k.answer = sessions[c].answer
        PROVE  Fits(k, tables)
    BY <1>1, <2>2, <2>3 DEF Fits, KindFits, AdmitFits, Asks, Undecided
  <2> QED
    BY <1>1, <2>1, <2>3, ProceedInv
<1>3. CASE ~Retained("operations", row)
  <2> DEFINE k == [sessions[c] EXCEPT !.at = "commit", !.answer = Says("created", 0),
                   !.writes = {W("operations", row)}]
  <2>1. sessions' = [sessions EXCEPT ![c] = k]
    BY <1>3 DEF InsertOperation, W
  <2>2. k = [sessions[c] EXCEPT !.at = "commit", !.answer = Says("created", 0),
             !.writes = {W("operations", row)}]
    OBVIOUS
  <2> HIDE DEF k, row
  <2>3. /\ Shape(k) /\ k.call = sessions[c].call /\ k.at = "commit" /\ k.locks = sessions[c].locks
        /\ k.answer = Says("created", 0) /\ k.writes = {W("operations", row)}
    BY <1>1, <2>2 DEF Shape
  <2>4. New(tables, "operations", row)
    BY <1>3 DEF New, Retained
  <2>5. Fits(k, tables)
    BY <1>1, <2>3, <2>4 DEF Fits, KindFits, AdmitFits
  <2>6. \A d \in Callers \ {c} : \A w \in k.writes, v \in sessions[d].writes : ~Clash(w, v)
    BY <2>3, Uncontested DEF InsertOperation, row
  <2>7. \A d \in Callers \ {c} : k.locks \cap sessions[d].locks = {}
    BY <2>3 DEF PostgresInv, LocksApart
  <2>8. tables' = tables /\ Unchanged
    BY <1>3 DEF InsertOperation, row
  <2> QED
    BY <2>1, <2>5, <2>6, <2>7, <2>8, SessionStep, BoundsKept
<1> QED
  BY <1>2, <1>3

LEMMA SelectOwnerInv ==
  ASSUME PostgresInv, NEW c \in Callers, SelectOwner(c)
  PROVE  PostgresInv'
<1>1. Shape(sessions[c]) /\ sessions[c].call \in Calls /\ sessions[c].writes = {}
  BY SessionIs, AdmitStatements DEF SelectOwner, At
<1>2. PICK status \in {"idempotent-replay", "conflict"} : Conclude(c, status, 0)
  BY DEF SelectOwner
<1> QED
  BY <1>1, <1>2, ConcludeInv

LEMMA InsertHeadInv ==
  ASSUME PostgresInv, NEW c \in Callers, InsertHead(c)
  PROVE  PostgresInv'
<1> DEFINE row == HeadRow(Call(c))
<1>1. /\ Shape(sessions[c]) /\ sessions[c].call \in Calls /\ sessions[c].call.kind = "initialize"
      /\ Undecided(sessions[c]) /\ sessions[c].writes = {} /\ row = HeadRow(sessions[c].call)
  BY SessionIs, InitializeStatements DEF InsertHead, At, Call
<1>2. CASE Retained("heads", row)
  <2>1. Proceed(c, "select-own-head")
    BY <1>2 DEF InsertHead
  <2>3. ASSUME NEW k, Shape(k), k.call = sessions[c].call, k.at = "select-own-head",
               k.writes = sessions[c].writes, k.answer = sessions[c].answer
        PROVE  Fits(k, tables)
    BY <1>1, <2>3 DEF Fits, KindFits, InitializeFits, Asks, Undecided
  <2> QED
    BY <1>1, <2>1, <2>3, ProceedInv
<1>3. CASE ~Retained("heads", row)
  <2> DEFINE k == [sessions[c] EXCEPT !.at = "commit", !.answer = Says("created", 0),
                   !.writes = {W("heads", row)}]
  <2>1. sessions' = [sessions EXCEPT ![c] = k]
    BY <1>3 DEF InsertHead, W
  <2>2. k = [sessions[c] EXCEPT !.at = "commit", !.answer = Says("created", 0),
             !.writes = {W("heads", row)}]
    OBVIOUS
  <2> HIDE DEF k, row
  <2>3. /\ Shape(k) /\ k.call = sessions[c].call /\ k.at = "commit" /\ k.locks = sessions[c].locks
        /\ k.answer = Says("created", 0) /\ k.writes = {W("heads", row)}
    BY <1>1, <2>2 DEF Shape
  <2>4. New(tables, "heads", row)
    BY <1>3 DEF New, Retained
  <2>5. Fits(k, tables)
    BY <1>1, <2>3, <2>4 DEF Fits, KindFits, InitializeFits
  <2>6. \A d \in Callers \ {c} : \A w \in k.writes, v \in sessions[d].writes : ~Clash(w, v)
    BY <2>3, Uncontested DEF InsertHead, row
  <2>7. \A d \in Callers \ {c} : k.locks \cap sessions[d].locks = {}
    BY <2>3 DEF PostgresInv, LocksApart
  <2>8. tables' = tables /\ Unchanged
    BY <1>3 DEF InsertHead, row
  <2> QED
    BY <2>1, <2>5, <2>6, <2>7, <2>8, SessionStep, BoundsKept
<1> QED
  BY <1>2, <1>3

\* SELECT ... FOR UPDATE
LEMMA ReadLockedInv ==
  ASSUME PostgresInv, NEW c \in Callers, Shape(sessions[c]), sessions[c].writes = {},
         NEW h, NEW next, NEW answer, ReadLocked(c, h, next, answer),
         ASSUME NEW k, Shape(k), k.call = sessions[c].call, k.at = next, k.seen = h, k.writes = {},
                k.locks = sessions[c].locks \cup {HeadLock(h.operation)}, k.answer = answer
         PROVE  Fits(k, tables)
  PROVE  PostgresInv'
<1> DEFINE locks == sessions[c].locks \cup {HeadLock(h.operation)}
           k == [sessions[c] EXCEPT !.at = next, !.seen = h, !.answer = answer, !.locks = locks]
<1>1. sessions' = [sessions EXCEPT ![c] = k] /\ tables' = tables /\ Unchanged
  BY DEF ReadLocked
<1>2. /\ k = [sessions[c] EXCEPT !.at = next, !.seen = h, !.answer = answer, !.locks = locks]
      /\ locks = sessions[c].locks \cup {HeadLock(h.operation)}
  OBVIOUS
<1> HIDE DEF k, locks
<1>3. /\ Shape(k) /\ k.call = sessions[c].call /\ k.at = next /\ k.seen = h /\ k.writes = {}
      /\ k.locks = locks /\ k.answer = answer
  BY <1>2 DEF Shape
<1>4. Fits(k, tables)
  BY <1>2, <1>3
<1>5. \A d \in Callers \ {c} : k.locks \cap sessions[d].locks = {}
  <2> TAKE d \in Callers \ {c}
  <2>1. HeadLock(h.operation) \notin sessions[d].locks
    BY DEF ReadLocked, Locked
  <2>2. sessions[c].locks \cap sessions[d].locks = {}
    BY DEF PostgresInv, LocksApart
  <2> QED
    BY <1>2, <1>3, <2>1, <2>2
<1> QED
  BY <1>1, <1>3, <1>4, <1>5, SessionStep, BoundsKept

LEMMA SelectOwnHeadInv ==
  ASSUME PostgresInv, NEW c \in Callers, SelectOwnHead(c)
  PROVE  PostgresInv'
<1>1. Shape(sessions[c]) /\ sessions[c].call \in Calls /\ sessions[c].writes = {}
  BY SessionIs, InitializeStatements DEF SelectOwnHead, At
<1>4. PICK h \in Of("heads", Call(c).operation) :
        \E a : a.status # "none" /\ ReadLocked(c, h, "commit", a)
  BY SaysFields DEF SelectOwnHead
<1>2. PICK answer : answer.status # "none" /\ ReadLocked(c, h, "commit", answer)
  BY <1>4
<1>3. ASSUME NEW k, Shape(k), k.call = sessions[c].call, k.at = "commit", k.writes = {},
             k.answer = answer
      PROVE  Fits(k, tables)
  BY <1>1, <1>2, <1>3, AnsweredFits DEF Answered
<1> QED
  BY <1>1, <1>2, <1>3, ReadLockedInv

LEMMA SelectHeadInv ==
  ASSUME PostgresInv, NEW c \in Callers, SelectHead(c)
  PROVE  PostgresInv'
<1>1. /\ Shape(sessions[c]) /\ sessions[c].call \in Calls /\ sessions[c].writes = {}
      /\ sessions[c].call.kind = "transition" /\ Undecided(sessions[c])
  BY SessionIs, TransitionStatements DEF SelectHead, At
<1>2. CASE Conclude(c, "not-found", 0)
  BY <1>1, <1>2, ConcludeInv
<1>3. ASSUME NEW h \in Of("heads", Call(c).operation),
             ReadLocked(c, h, "select-transition", sessions[c].answer)
      PROVE  PostgresInv'
  <2>1. ASSUME NEW k, Shape(k), k.call = sessions[c].call, k.at = "select-transition", k.seen = h,
               k.writes = {}, k.locks = sessions[c].locks \cup {HeadLock(h.operation)},
               k.answer = sessions[c].answer
        PROVE  Fits(k, tables)
    BY <1>1, <2>1 DEF Fits, KindFits, TransitionFits, Asks, Undecided, Sees, Of, Call
  <2> QED
    BY <1>1, <1>3, <2>1, ReadLockedInv
<1> QED
  BY <1>2, <1>3 DEF SelectHead

LEMMA SelectTransitionInv ==
  ASSUME PostgresInv, NEW c \in Callers, SelectTransition(c)
  PROVE  PostgresInv'
<1>1. /\ Shape(sessions[c]) /\ sessions[c].call \in Calls /\ sessions[c].writes = {}
      /\ sessions[c].call.kind = "transition" /\ Undecided(sessions[c]) /\ Sees(sessions[c], tables)
  BY SessionIs, TransitionStatements DEF SelectTransition, At
<1>2. CASE \E status \in {"idempotent-replay", "conflict", "stale", "blocked"} : \E n :
             Conclude(c, status, n)
  BY <1>1, <1>2, ConcludeInv
<1>3. CASE /\ Proceed(c, "update-head")
           /\ {j \in Of("transitions", Call(c).operation) : j.transition = Call(c).transition} = {}
           /\ sessions[c].seen.revision = Call(c).revision /\ ~sessions[c].seen.stopped
  <2>1. Fresh(sessions[c], tables)
    BY <1>3 DEF Fresh, Of, Call
  <2>2. ASSUME NEW k, Shape(k), k.call = sessions[c].call, k.at = "update-head",
               k.seen = sessions[c].seen, k.locks = sessions[c].locks,
               k.writes = sessions[c].writes, k.answer = sessions[c].answer
        PROVE  Fits(k, tables)
    BY <1>1, <2>1, <2>2 DEF Fits, KindFits, TransitionFits, Asks, Undecided, Sees, Fresh
  <2> QED
    BY <1>1, <1>3, <2>2, ProceedInv
<1> QED
  BY <1>2, <1>3 DEF SelectTransition

\* Writing an uncontested row.
LEMMA WriteInv ==
  ASSUME PostgresInv, NEW c \in Callers, NEW t, NEW row, NEW key,
         ~Contested(c, t, key), \A x : SameKey(t, x, key) <=> SameKey(t, x, row),
         NEW k, sessions' = [sessions EXCEPT ![c] = k], tables' = tables, Unchanged,
         k.locks = sessions[c].locks, k.writes = sessions[c].writes \cup {W(t, row)},
         Fits(k, tables)
  PROVE  PostgresInv'
<1>1. ~Contested(c, t, row)
  BY DEF Contested
<1>2. ASSUME NEW d \in Callers \ {c}, NEW w \in k.writes, NEW v \in sessions[d].writes
      PROVE  ~Clash(w, v)
  BY <1>1, <1>2, Uncontested DEF PostgresInv, WritesApart
<1>3. \A d \in Callers \ {c} : k.locks \cap sessions[d].locks = {}
  BY DEF PostgresInv, LocksApart
<1> QED
  BY <1>2, <1>3, SessionStep, BoundsKept

LEMMA MovedHead ==
  ASSUME NEW h, HeadShape(h), NEW r
  PROVE  /\ MovedRow(h, r) \in [operation : {h.operation}, binding : {h.binding},
                                revision : {h.revision + 1}, stopped : {r.stops}]
         /\ HeadShape(MovedRow(h, r)) /\ MovedRow(h, r).operation = h.operation
<1>1. /\ h \in [operation : {h.operation}, binding : {h.binding}, revision : Nat,
                stopped : {h.stopped}]
      /\ h.revision \in Nat
  BY DEF HeadShape
<1> DEFINE m == MovedRow(h, r)
<1>2. m \in [operation : {h.operation}, binding : {h.binding}, revision : {h.revision + 1},
             stopped : {r.stops}]
  BY <1>1 DEF MovedRow
<1> HIDE DEF m
<1>3. /\ m.operation = h.operation /\ m.binding = h.binding /\ m.revision = h.revision + 1
      /\ m.stopped = r.stops
  BY <1>2
<1>4. HeadShape(m)
  BY <1>1, <1>2, <1>3 DEF HeadShape
<1> QED
  BY <1>2, <1>3, <1>4 DEF m

LEMMA UpdateHeadInv ==
  ASSUME PostgresInv, NEW c \in Callers, UpdateHead(c)
  PROVE  PostgresInv'
<1> DEFINE h == sessions[c].seen
           moved == MovedRow(h, sessions[c].call)
<1>1. /\ Shape(sessions[c]) /\ sessions[c].call \in Calls /\ sessions[c].writes = {}
      /\ sessions[c].call.kind = "transition" /\ Undecided(sessions[c])
      /\ Sees(sessions[c], tables) /\ Fresh(sessions[c], tables)
  BY SessionIs, TransitionStatements DEF UpdateHead, At
<1>2. h \in tables["heads"] /\ HeadShape(h)
  BY <1>1 DEF Sees, PostgresInv, TablesFit
<1>3. ~Contested(c, "heads", h) /\ Write(c, "heads", moved, "insert-transition")
  BY <1>2 DEF UpdateHead, MovedRow, Call
<1>4. moved.operation = h.operation
  BY <1>2, MovedHead
<1>5. \A x : SameKey("heads", x, h) <=> SameKey("heads", x, moved)
  BY <1>4 DEF SameKey
<1> HIDE DEF moved, h
<1> DEFINE writes == sessions[c].writes \cup {W("heads", moved)}
           k == [sessions[c] EXCEPT !.at = "insert-transition", !.writes = writes]
<1>6. sessions' = [sessions EXCEPT ![c] = k] /\ tables' = tables /\ Unchanged
  BY <1>3 DEF Write, W
<1>7. /\ k = [sessions[c] EXCEPT !.at = "insert-transition", !.writes = writes]
      /\ writes = sessions[c].writes \cup {W("heads", moved)}
  OBVIOUS
<1> HIDE DEF k, writes
<1>8. /\ Shape(k) /\ k.call = sessions[c].call /\ k.at = "insert-transition"
      /\ k.seen = sessions[c].seen /\ k.locks = sessions[c].locks
      /\ k.answer = sessions[c].answer /\ k.writes = writes
  BY <1>1, <1>7 DEF Shape
<1>9. k.writes = {W("heads", MovedRow(k.seen, k.call))}
  BY <1>1, <1>7, <1>8 DEF moved, h
<1>10. Fits(k, tables)
  BY <1>1, <1>8, <1>9 DEF Fits, KindFits, TransitionFits, Wrote, Undecided, Sees, Fresh
<1> QED
  BY <1>3, <1>5, <1>6, <1>7, <1>8, <1>10, WriteInv

LEMMA InsertTransitionInv ==
  ASSUME PostgresInv, NEW c \in Callers, InsertTransition(c)
  PROVE  PostgresInv'
<1> DEFINE row == TransitionRow(Call(c), sessions[c].seen)
<1>1. /\ Shape(sessions[c]) /\ sessions[c].call \in Calls
      /\ sessions[c].call.kind = "transition" /\ Undecided(sessions[c])
      /\ Sees(sessions[c], tables) /\ Fresh(sessions[c], tables)
      /\ sessions[c].writes = {W("heads", MovedRow(sessions[c].seen, sessions[c].call))}
  BY SessionIs, TransitionStatements DEF InsertTransition, At
<1>2. /\ row.to = sessions[c].seen.revision + 1 /\ row.operation = sessions[c].call.operation
      /\ row.transition = sessions[c].call.transition
  BY DEF TransitionRow, Call
<1>3. ~Retained("transitions", row)
  BY <1>1, <1>2 DEF Retained, Fresh, SameKey
<1> DEFINE writes == sessions[c].writes \cup {W("transitions", row)}
           k == [sessions[c] EXCEPT !.at = "commit", !.answer = Says("applied", row.to),
                 !.writes = writes]
<1>4. /\ ~Contested(c, "transitions", row) /\ tables' = tables /\ Unchanged
      /\ sessions' = [sessions EXCEPT ![c] = k]
  BY <1>3 DEF InsertTransition, W
<1>5. /\ row = TransitionRow(sessions[c].call, sessions[c].seen)
      /\ k = [sessions[c] EXCEPT !.at = "commit", !.answer = Says("applied", row.to),
              !.writes = writes]
      /\ writes = sessions[c].writes \cup {W("transitions", row)}
  BY DEF Call
<1> HIDE DEF k, writes, row
<1>6. /\ Shape(k) /\ k.call = sessions[c].call /\ k.at = "commit" /\ k.seen = sessions[c].seen
      /\ k.locks = sessions[c].locks /\ k.answer = Says("applied", row.to) /\ k.writes = writes
  BY <1>1, <1>5 DEF Shape
<1>7. k.writes = TransitionWrites(k)
  BY <1>1, <1>5, <1>6 DEF TransitionWrites
<1>8. Fits(k, tables)
  BY <1>1, <1>2, <1>6, <1>7 DEF Fits, KindFits, TransitionFits, Sees, Fresh
<1>9. k.writes = sessions[c].writes \cup {W("transitions", row)} /\ k.locks = sessions[c].locks
  BY <1>5, <1>6
<1> QED
  BY <1>4, <1>8, <1>9, WriteInv

\* pg_advisory_xact_lock
LEMMA LockInv ==
  ASSUME PostgresInv, NEW c \in Callers, Lock(c)
  PROVE  PostgresInv'
<1>1. /\ Shape(sessions[c]) /\ sessions[c].call \in Calls
      /\ sessions[c].call.kind \in {"project", "complete"} /\ Locking(sessions[c])
  BY SessionIs, LockStatements DEF Lock, At
<1>2. PICK id \in sessions[c].todo :
        /\ ~Locked(c, <<Call(c).kind, HashText(id)>>) /\ tables' = tables /\ Unchanged
        /\ sessions' = [sessions EXCEPT ![c].locks = @ \cup {<<Call(c).kind, HashText(id)>>},
             ![c].todo = sessions[c].todo \ {id},
             ![c].at = IF sessions[c].todo \ {id} # {} THEN "lock"
                       ELSE IF Call(c).kind = "project" THEN "select-persistence"
                       ELSE "select-workflow"]
  BY DEF Lock, Due
<1> DEFINE r == sessions[c].call
           left == sessions[c].todo \ {id}
           lock == <<r.kind, HashText(id)>>
           locks == sessions[c].locks \cup {lock}
           next == IF left # {} THEN "lock"
                   ELSE IF r.kind = "project" THEN "select-persistence" ELSE "select-workflow"
           k == [sessions[c] EXCEPT !.locks = locks, !.todo = left, !.at = next]
<1>3. sessions' = [sessions EXCEPT ![c] = k]
  BY <1>2 DEF Call
<1>4. k = [sessions[c] EXCEPT !.locks = locks, !.todo = left, !.at = next]
  OBVIOUS
<1> HIDE DEF k, next, locks, left, lock
<1>5. /\ Shape(k) /\ k.call = r /\ k.at = next /\ k.todo = left /\ k.locks = locks
      /\ k.writes = sessions[c].writes /\ k.answer = sessions[c].answer
  BY <1>1, <1>4 DEF Shape
<1>6. k.writes = {} /\ Undecided(k)
  BY <1>1, <1>5 DEF Locking, Asks, Undecided
<1>7. /\ left \subseteq Identities(r) /\ Holds(k, Identities(r) \ left)
  BY <1>1, <1>2, <1>5 DEF Locking, Holds, left, lock, locks
<1>8. KindFits(k, tables)
  <2>1. CASE left # {}
    <3>1. Locking(k)
      BY <1>5, <1>6, <1>7, <2>1 DEF Locking, Asks, next
    <3> QED
      BY <1>1, <1>5, <3>1 DEF KindFits, ProjectFits, CompleteFits
  <2>2. CASE left = {} /\ r.kind = "project"
    <3>1. Asks(k, "select-persistence") /\ Holds(k, Identities(k.call))
      BY <1>5, <1>6, <1>7, <2>2 DEF Asks, next
    <3> QED
      BY <1>5, <2>2, <3>1 DEF KindFits, ProjectFits
  <2>3. CASE left = {} /\ r.kind = "complete"
    <3>1. Asks(k, "select-workflow") /\ Holds(k, Identities(k.call))
      BY <1>5, <1>6, <1>7, <2>3 DEF Asks, next
    <3> QED
      BY <1>5, <2>3, <3>1 DEF KindFits, CompleteFits
  <2> QED
    BY <1>1, <2>1, <2>2, <2>3
<1>9. Fits(k, tables)
  BY <1>1, <1>5, <1>8 DEF Fits
<1>10. \A d \in Callers \ {c} : k.locks \cap sessions[d].locks = {}
  <2> TAKE d \in Callers \ {c}
  <2>1. lock \notin sessions[d].locks
    BY <1>2 DEF Locked, lock, Call
  <2>2. sessions[c].locks \cap sessions[d].locks = {}
    BY DEF PostgresInv, LocksApart
  <2> QED
    BY <1>5, <2>1, <2>2 DEF locks
<1> QED
  BY <1>2, <1>3, <1>6, <1>9, <1>10, SessionStep, BoundsKept

\* What a projection and a completion do not find, they can insert.
LEMMA ProjectionNew ==
  ASSUME NEW T, TablesFit(T), NEW r, ProjectionFree(r, T)
  PROVE  /\ New(T, "manifests", ManifestRow(r)) /\ New(T, "jobs", JobRow(r))
         /\ New(T, "receipts", PersistenceRow(r))
<1>1. \A x \in T["manifests"] : \E y \in T["receipts"] : y.operation = x.operation
  <2> TAKE x \in T["manifests"]
  <2>1. x.operation \in Ids(T, "receipts")
    BY DEF TablesFit, Together, Ids
  <2> QED
    BY <2>1 DEF Ids
<1>2. \A x \in T["jobs"] : \E y \in T["receipts"] : y.operation = x.operation
  <2> TAKE x \in T["jobs"]
  <2>1. x.operation \in Ids(T, "receipts")
    BY DEF TablesFit, Together, Ids
  <2> QED
    BY <2>1 DEF Ids
<1>3. New(T, "manifests", ManifestRow(r))
  BY <1>1 DEF New, SameKey, ManifestRow, ProjectionFree, ReceiptFree, ArtifactFree
<1>4. New(T, "jobs", JobRow(r))
  BY <1>2 DEF New, SameKey, JobRow, ProjectionFree, ReceiptFree, JobFree
<1>5. New(T, "receipts", PersistenceRow(r))
  BY DEF New, SameKey, PersistenceRow, ProjectionFree, ReceiptFree, PersistenceFree
<1> QED
  BY <1>3, <1>4, <1>5

LEMMA EndingNew ==
  ASSUME NEW T, TablesFit(T), NEW r, EndingFree(r, T)
  PROVE  /\ \A row \in EventRows(r) : New(T, "events", row)
         /\ New(T, "completions", CompletionRow(r))
<1>1. \A x \in T["events"] : x.operation # r.operation
  <2> TAKE x \in T["events"]
  <2>1. x.operation \in Ids(T, "completions")
    BY DEF TablesFit, Together, Ids
  <2> QED
    BY <2>1 DEF Ids, EndingFree, CompletionFree
<1>2. ASSUME NEW row \in EventRows(r)
      PROVE  New(T, "events", row)
  <2>1. row.operation = r.operation /\ row.event \in Range(r.events)
    BY DEF EventRows, Range
  <2> QED
    BY <1>1, <2>1 DEF New, SameKey, EndingFree, EventsFree
<1>3. New(T, "completions", CompletionRow(r))
  BY DEF New, SameKey, CompletionRow, EndingFree, CompletionFree, WorkflowFree
<1> QED
  BY <1>2, <1>3

\* INSERT of a row that is new is not thrown.
LEMMA InsertInv ==
  ASSUME PostgresInv, NEW c \in Callers, Shape(sessions[c]), NEW t, NEW row, NEW next,
         Insert(c, t, row, next), New(tables, t, row),
         ASSUME NEW k, Shape(k), k.call = sessions[c].call, k.at = next,
                k.locks = sessions[c].locks, k.answer = sessions[c].answer,
                k.writes = sessions[c].writes \cup {W(t, row)}
         PROVE  Fits(k, tables)
  PROVE  PostgresInv'
<1>1. ~Contested(c, t, row) /\ Write(c, t, row, next)
  BY DEF Insert, New, Retained
<1> DEFINE writes == sessions[c].writes \cup {W(t, row)}
           k == [sessions[c] EXCEPT !.at = next, !.writes = writes]
<1>2. sessions' = [sessions EXCEPT ![c] = k] /\ tables' = tables /\ Unchanged
  BY <1>1 DEF Write, W
<1>3. /\ k = [sessions[c] EXCEPT !.at = next, !.writes = writes]
      /\ writes = sessions[c].writes \cup {W(t, row)}
  OBVIOUS
<1> HIDE DEF k, writes
<1>4. /\ Shape(k) /\ k.call = sessions[c].call /\ k.at = next /\ k.locks = sessions[c].locks
      /\ k.answer = sessions[c].answer /\ k.writes = writes
  BY <1>3 DEF Shape
<1>5. Fits(k, tables) /\ k.writes = sessions[c].writes \cup {W(t, row)}
  BY <1>3, <1>4
<1> QED
  BY <1>1, <1>2, <1>4, <1>5, WriteInv

\* commitProjection
LEMMA SelectPersistenceInv ==
  ASSUME PostgresInv, NEW c \in Callers, SelectPersistence(c)
  PROVE  PostgresInv'
<1> DEFINE r == sessions[c].call
<1>1. /\ Shape(sessions[c]) /\ r \in Calls /\ r.kind = "project" /\ Undecided(sessions[c])
      /\ sessions[c].writes = {} /\ Holds(sessions[c], Identities(r))
  BY SessionIs, ProjectStatements DEF SelectPersistence, At
<1>2. \/ \E status \in {"idempotent-replay", "conflict"} : Conclude(c, status, 0)
      \/ Proceed(c, "select-receipt") /\ PersistenceFree(r, tables)
  BY SessionIs, ProjectStatements DEF SelectPersistence, At, ConflictIf, Call, PersistenceFree
<1>3. ASSUME PersistenceFree(r, tables),
             NEW k, Shape(k), k.call = r, k.at = "select-receipt", k.locks = sessions[c].locks,
             k.writes = sessions[c].writes, k.answer = sessions[c].answer
      PROVE  Fits(k, tables)
  BY <1>1, <1>3 DEF Fits, KindFits, ProjectFits, Asks, Undecided, Holds
<1>4. CASE \E status \in {"idempotent-replay", "conflict"} : Conclude(c, status, 0)
  BY <1>1, <1>4, ConcludeInv
<1>5. CASE Proceed(c, "select-receipt") /\ PersistenceFree(r, tables)
  BY <1>1, <1>3, <1>5, ProceedInv
<1> QED
  BY <1>2, <1>4, <1>5

LEMMA SelectReceiptInv ==
  ASSUME PostgresInv, NEW c \in Callers, SelectReceipt(c)
  PROVE  PostgresInv'
<1> DEFINE r == sessions[c].call
<1>1. /\ Shape(sessions[c]) /\ r \in Calls /\ r.kind = "project" /\ Undecided(sessions[c])
      /\ sessions[c].writes = {} /\ Holds(sessions[c], Identities(r))
  BY SessionIs, ProjectStatements DEF SelectReceipt, At
<1>2. \/ \E status \in {"idempotent-replay", "conflict"} : Conclude(c, status, 0)
      \/ Proceed(c, "select-artifact") /\ PersistenceFree(r, tables) /\ ReceiptFree(r, tables)
  BY SessionIs, ProjectStatements DEF SelectReceipt, At, AnswerExisting, Call, Of, ReceiptFree
<1>3. ASSUME PersistenceFree(r, tables), ReceiptFree(r, tables),
             NEW k, Shape(k), k.call = r, k.at = "select-artifact", k.locks = sessions[c].locks,
             k.writes = sessions[c].writes, k.answer = sessions[c].answer
      PROVE  Fits(k, tables)
  BY <1>1, <1>3 DEF Fits, KindFits, ProjectFits, Asks, Undecided, Holds
<1>4. CASE \E status \in {"idempotent-replay", "conflict"} : Conclude(c, status, 0)
  BY <1>1, <1>4, ConcludeInv
<1>5. CASE Proceed(c, "select-artifact") /\ PersistenceFree(r, tables) /\ ReceiptFree(r, tables)
  BY <1>1, <1>3, <1>5, ProceedInv
<1> QED
  BY <1>2, <1>4, <1>5

LEMMA SelectArtifactInv ==
  ASSUME PostgresInv, NEW c \in Callers, SelectArtifact(c)
  PROVE  PostgresInv'
<1> DEFINE r == sessions[c].call
<1>1. /\ Shape(sessions[c]) /\ r \in Calls /\ r.kind = "project" /\ Undecided(sessions[c])
      /\ sessions[c].writes = {} /\ Holds(sessions[c], Identities(r))
  BY SessionIs, ProjectStatements DEF SelectArtifact, At
<1>2. \/ \E status \in {"idempotent-replay", "conflict"} : Conclude(c, status, 0)
      \/ Proceed(c, "select-job") /\ PersistenceFree(r, tables) /\ ReceiptFree(r, tables) /\ ArtifactFree(r, tables)
  BY SessionIs, ProjectStatements DEF SelectArtifact, At, ConflictIf, Call, ArtifactFree
<1>3. ASSUME PersistenceFree(r, tables), ReceiptFree(r, tables), ArtifactFree(r, tables),
             NEW k, Shape(k), k.call = r, k.at = "select-job", k.locks = sessions[c].locks,
             k.writes = sessions[c].writes, k.answer = sessions[c].answer
      PROVE  Fits(k, tables)
  BY <1>1, <1>3 DEF Fits, KindFits, ProjectFits, Asks, Undecided, Holds
<1>4. CASE \E status \in {"idempotent-replay", "conflict"} : Conclude(c, status, 0)
  BY <1>1, <1>4, ConcludeInv
<1>5. CASE Proceed(c, "select-job") /\ PersistenceFree(r, tables) /\ ReceiptFree(r, tables) /\ ArtifactFree(r, tables)
  BY <1>1, <1>3, <1>5, ProceedInv
<1> QED
  BY <1>2, <1>4, <1>5

LEMMA SelectJobInv ==
  ASSUME PostgresInv, NEW c \in Callers, SelectJob(c)
  PROVE  PostgresInv'
<1> DEFINE r == sessions[c].call
<1>1. /\ Shape(sessions[c]) /\ r \in Calls /\ r.kind = "project" /\ Undecided(sessions[c])
      /\ sessions[c].writes = {} /\ Holds(sessions[c], Identities(r))
  BY SessionIs, ProjectStatements DEF SelectJob, At
<1>2. \/ \E status \in {"idempotent-replay", "conflict"} : Conclude(c, status, 0)
      \/ Proceed(c, "insert-manifest") /\ ProjectionFree(r, tables)
  BY SessionIs, ProjectStatements DEF SelectJob, At, ConflictIf, Call, ProjectionFree, JobFree
<1>3. ASSUME ProjectionFree(r, tables),
             NEW k, Shape(k), k.call = r, k.at = "insert-manifest", k.locks = sessions[c].locks,
             k.writes = sessions[c].writes, k.answer = sessions[c].answer
      PROVE  Fits(k, tables)
  BY <1>1, <1>3 DEF Fits, KindFits, ProjectFits, Asks, Undecided, Holds
<1>4. CASE \E status \in {"idempotent-replay", "conflict"} : Conclude(c, status, 0)
  BY <1>1, <1>4, ConcludeInv
<1>5. CASE Proceed(c, "insert-manifest") /\ ProjectionFree(r, tables)
  BY <1>1, <1>3, <1>5, ProceedInv
<1> QED
  BY <1>2, <1>4, <1>5

LEMMA InsertManifestInv ==
  ASSUME PostgresInv, NEW c \in Callers, InsertManifest(c)
  PROVE  PostgresInv'
<1> DEFINE r == sessions[c].call
           row == ManifestRow(r)
<1>1. /\ Shape(sessions[c]) /\ r \in Calls /\ r.kind = "project" /\ Undecided(sessions[c])
      /\ sessions[c].writes = {} /\ Holds(sessions[c], Identities(r)) /\ ProjectionFree(r, tables)
  BY SessionIs, ProjectStatements DEF InsertManifest, At
<1>2. Insert(c, "manifests", row, "insert-job")
  BY DEF InsertManifest, Call
<1>3. New(tables, "manifests", row)
  BY <1>1, ProjectionNew DEF PostgresInv
<1>4. ASSUME NEW k, Shape(k), k.call = r, k.at = "insert-job", k.locks = sessions[c].locks,
             k.answer = sessions[c].answer, k.writes = sessions[c].writes \cup {W("manifests", row)}
      PROVE  Fits(k, tables)
  <2>1. Undecided(k) /\ Holds(k, Identities(r)) /\ ProjectionFree(r, tables)
    BY <1>1, <1>4 DEF Undecided, Holds
  <2>2. k.writes = {W("manifests", ManifestRow(r))}
    BY <1>1, <1>4 DEF W
  <2> QED
    BY <1>1, <1>4, <2>1, <2>2 DEF Fits, KindFits, ProjectFits, Wrote
<1> HIDE DEF row
<1> QED
  BY <1>1, <1>2, <1>3, <1>4, InsertInv

LEMMA InsertJobInv ==
  ASSUME PostgresInv, NEW c \in Callers, InsertJob(c)
  PROVE  PostgresInv'
<1> DEFINE r == sessions[c].call
           row == JobRow(r)
<1>1. /\ Shape(sessions[c]) /\ r \in Calls /\ r.kind = "project" /\ Undecided(sessions[c])
      /\ sessions[c].writes = {W("manifests", ManifestRow(r))} /\ Holds(sessions[c], Identities(r)) /\ ProjectionFree(r, tables)
  BY SessionIs, ProjectStatements DEF InsertJob, At
<1>2. Insert(c, "jobs", row, "insert-receipt")
  BY DEF InsertJob, Call, JobRow
<1>3. New(tables, "jobs", row)
  BY <1>1, ProjectionNew DEF PostgresInv
<1>4. ASSUME NEW k, Shape(k), k.call = r, k.at = "insert-receipt", k.locks = sessions[c].locks,
             k.answer = sessions[c].answer, k.writes = sessions[c].writes \cup {W("jobs", row)}
      PROVE  Fits(k, tables)
  <2>1. Undecided(k) /\ Holds(k, Identities(r)) /\ ProjectionFree(r, tables)
    BY <1>1, <1>4 DEF Undecided, Holds
  <2>2. k.writes = {W("manifests", ManifestRow(r)), W("jobs", JobRow(r))}
    BY <1>1, <1>4 DEF W
  <2> QED
    BY <1>1, <1>4, <2>1, <2>2 DEF Fits, KindFits, ProjectFits, Wrote
<1> HIDE DEF row
<1> QED
  BY <1>1, <1>2, <1>3, <1>4, InsertInv

LEMMA InsertReceiptInv ==
  ASSUME PostgresInv, NEW c \in Callers, InsertReceipt(c)
  PROVE  PostgresInv'
<1> DEFINE r == sessions[c].call
           row == PersistenceRow(r)
<1>1. /\ Shape(sessions[c]) /\ r \in Calls /\ r.kind = "project" /\ Undecided(sessions[c])
      /\ sessions[c].writes = {W("manifests", ManifestRow(r)), W("jobs", JobRow(r))} /\ Holds(sessions[c], Identities(r)) /\ ProjectionFree(r, tables)
  BY SessionIs, ProjectStatements DEF InsertReceipt, At
<1>2. Insert(c, "receipts", row, "commit")
  BY DEF InsertReceipt, Call, PersistenceRow
<1>3. New(tables, "receipts", row)
  BY <1>1, ProjectionNew DEF PostgresInv
<1>4. ASSUME NEW k, Shape(k), k.call = r, k.at = "commit", k.locks = sessions[c].locks,
             k.answer = sessions[c].answer, k.writes = sessions[c].writes \cup {W("receipts", row)}
      PROVE  Fits(k, tables)
  <2>1. Undecided(k) /\ Holds(k, Identities(r)) /\ ProjectionFree(r, tables)
    BY <1>1, <1>4 DEF Undecided, Holds
  <2>2. k.writes = ProjectionWrites(r)
    BY <1>1, <1>4 DEF ProjectionWrites
  <2> QED
    BY <1>1, <1>4, <2>1, <2>2 DEF Fits, KindFits, ProjectFits, Wrote
<1> HIDE DEF row
<1> QED
  BY <1>1, <1>2, <1>3, <1>4, InsertInv

\* commitTerminalWorkflow
LEMMA SelectWorkflowInv ==
  ASSUME PostgresInv, NEW c \in Callers, SelectWorkflow(c)
  PROVE  PostgresInv'
<1> DEFINE r == sessions[c].call
<1>1. /\ Shape(sessions[c]) /\ r \in Calls /\ r.kind = "complete" /\ Undecided(sessions[c])
      /\ sessions[c].writes = {} /\ Holds(sessions[c], Identities(r))
  BY SessionIs, CompleteStatements DEF SelectWorkflow, At
<1>2. \/ \E status \in {"idempotent-replay", "conflict"} : Conclude(c, status, 0)
      \/ Proceed(c, "select-completion") /\ WorkflowFree(r, tables)
  BY SessionIs, CompleteStatements DEF SelectWorkflow, At, ConflictIf, Call, WorkflowFree
<1>3. ASSUME WorkflowFree(r, tables),
             NEW k, Shape(k), k.call = r, k.at = "select-completion", k.locks = sessions[c].locks,
             k.writes = sessions[c].writes, k.answer = sessions[c].answer
      PROVE  Fits(k, tables)
  BY <1>1, <1>3 DEF Fits, KindFits, CompleteFits, Asks, Undecided, Holds
<1>4. CASE \E status \in {"idempotent-replay", "conflict"} : Conclude(c, status, 0)
  BY <1>1, <1>4, ConcludeInv
<1>5. CASE Proceed(c, "select-completion") /\ WorkflowFree(r, tables)
  BY <1>1, <1>3, <1>5, ProceedInv
<1> QED
  BY <1>2, <1>4, <1>5

LEMMA SelectCompletionInv ==
  ASSUME PostgresInv, NEW c \in Callers, SelectCompletion(c)
  PROVE  PostgresInv'
<1> DEFINE r == sessions[c].call
<1>1. /\ Shape(sessions[c]) /\ r \in Calls /\ r.kind = "complete" /\ Undecided(sessions[c])
      /\ sessions[c].writes = {} /\ Holds(sessions[c], Identities(r))
  BY SessionIs, CompleteStatements DEF SelectCompletion, At
<1>2. \/ \E status \in {"idempotent-replay", "conflict"} : Conclude(c, status, 0)
      \/ Proceed(c, "select-events") /\ WorkflowFree(r, tables) /\ CompletionFree(r, tables)
  BY SessionIs, CompleteStatements DEF SelectCompletion, At, AnswerExisting, Call, Of, CompletionFree
<1>3. ASSUME WorkflowFree(r, tables), CompletionFree(r, tables),
             NEW k, Shape(k), k.call = r, k.at = "select-events", k.locks = sessions[c].locks,
             k.writes = sessions[c].writes, k.answer = sessions[c].answer
      PROVE  Fits(k, tables)
  BY <1>1, <1>3 DEF Fits, KindFits, CompleteFits, Asks, Undecided, Holds
<1>4. CASE \E status \in {"idempotent-replay", "conflict"} : Conclude(c, status, 0)
  BY <1>1, <1>4, ConcludeInv
<1>5. CASE Proceed(c, "select-events") /\ WorkflowFree(r, tables) /\ CompletionFree(r, tables)
  BY <1>1, <1>3, <1>5, ProceedInv
<1> QED
  BY <1>2, <1>4, <1>5

LEMMA SelectEventsInv ==
  ASSUME PostgresInv, NEW c \in Callers, SelectEvents(c)
  PROVE  PostgresInv'
<1> DEFINE r == sessions[c].call
<1>1. /\ Shape(sessions[c]) /\ r \in Calls /\ r.kind = "complete" /\ Undecided(sessions[c])
      /\ sessions[c].writes = {} /\ Holds(sessions[c], Identities(r))
  BY SessionIs, CompleteStatements DEF SelectEvents, At
<1>2. \/ \E status \in {"idempotent-replay", "conflict"} : Conclude(c, status, 0)
      \/ Proceed(c, "insert-events") /\ EndingFree(r, tables)
  BY SessionIs, CompleteStatements DEF SelectEvents, At, ConflictIf, Call, EndingFree, EventsFree
<1>3. ASSUME EndingFree(r, tables),
             NEW k, Shape(k), k.call = r, k.at = "insert-events", k.locks = sessions[c].locks,
             k.writes = sessions[c].writes, k.answer = sessions[c].answer
      PROVE  Fits(k, tables)
  BY <1>1, <1>3 DEF Fits, KindFits, CompleteFits, Asks, Undecided, Holds
<1>4. CASE \E status \in {"idempotent-replay", "conflict"} : Conclude(c, status, 0)
  BY <1>1, <1>4, ConcludeInv
<1>5. CASE Proceed(c, "insert-events") /\ EndingFree(r, tables)
  BY <1>1, <1>3, <1>5, ProceedInv
<1> QED
  BY <1>2, <1>4, <1>5

LEMMA InsertCompletionInv ==
  ASSUME PostgresInv, NEW c \in Callers, InsertCompletion(c)
  PROVE  PostgresInv'
<1> DEFINE r == sessions[c].call
           row == CompletionRow(r)
<1>1. /\ Shape(sessions[c]) /\ r \in Calls /\ r.kind = "complete" /\ Undecided(sessions[c])
      /\ sessions[c].writes = EventWrites(r) /\ Holds(sessions[c], Identities(r)) /\ EndingFree(r, tables)
  BY SessionIs, CompleteStatements DEF InsertCompletion, At
<1>2. Insert(c, "completions", row, "commit")
  BY DEF InsertCompletion, Call, CompletionRow
<1>3. New(tables, "completions", row)
  BY <1>1, EndingNew DEF PostgresInv
<1>4. ASSUME NEW k, Shape(k), k.call = r, k.at = "commit", k.locks = sessions[c].locks,
             k.answer = sessions[c].answer, k.writes = sessions[c].writes \cup {W("completions", row)}
      PROVE  Fits(k, tables)
  <2>1. Undecided(k) /\ Holds(k, Identities(r)) /\ EndingFree(r, tables)
    BY <1>1, <1>4 DEF Undecided, Holds
  <2>2. k.writes = EndingWrites(r)
    BY <1>1, <1>4 DEF EndingWrites
  <2> QED
    BY <1>1, <1>4, <2>1, <2>2 DEF Fits, KindFits, CompleteFits, Wrote
<1> HIDE DEF row
<1> QED
  BY <1>1, <1>2, <1>3, <1>4, InsertInv

LEMMA InsertEventsInv ==
  ASSUME PostgresInv, NEW c \in Callers, InsertEvents(c)
  PROVE  PostgresInv'
<1> DEFINE r == sessions[c].call
           writes == EventWrites(r)
           k == [sessions[c] EXCEPT !.at = "insert-completion", !.writes = writes]
<1>1. /\ Shape(sessions[c]) /\ r \in Calls /\ r.kind = "complete" /\ Undecided(sessions[c])
      /\ Holds(sessions[c], Identities(r)) /\ EndingFree(r, tables)
  BY SessionIs, CompleteStatements DEF InsertEvents, At
<1>2. \A row \in EventRows(r) : New(tables, "events", row)
  BY <1>1, EndingNew DEF PostgresInv
<1>3. \A row \in EventRows(r) : ~Retained("events", row) /\ ~Contested(c, "events", row)
  BY <1>2 DEF InsertEvents, Call, New, Retained
<1>4. sessions' = [sessions EXCEPT ![c] = k] /\ tables' = tables /\ Unchanged
  BY <1>3 DEF InsertEvents, Call, EventWrites, W
<1>5. k = [sessions[c] EXCEPT !.at = "insert-completion", !.writes = writes]
  OBVIOUS
<1> HIDE DEF k, writes
<1>6. /\ Shape(k) /\ k.call = r /\ k.at = "insert-completion" /\ k.locks = sessions[c].locks
      /\ k.answer = sessions[c].answer /\ k.writes = writes
  BY <1>1, <1>5 DEF Shape
<1>7. Fits(k, tables)
  <2>1. Undecided(k) /\ Holds(k, Identities(r))
    BY <1>1, <1>6 DEF Undecided, Holds
  <2> QED
    BY <1>1, <1>6, <2>1 DEF Fits, KindFits, CompleteFits, Wrote, writes
<1>8. ASSUME NEW d \in Callers \ {c}, NEW w \in k.writes, NEW v \in sessions[d].writes
      PROVE  ~Clash(w, v)
  <2>1. PICK row \in EventRows(r) : w = W("events", row)
    BY <1>6 DEF writes, EventWrites
  <2> QED
    BY <1>3, <2>1, Uncontested
<1>9. \A d \in Callers \ {c} : k.locks \cap sessions[d].locks = {}
  BY <1>6 DEF PostgresInv, LocksApart
<1> QED
  BY <1>4, <1>7, <1>8, <1>9, SessionStep, BoundsKept

-----------------------------------------------------------------------------
(* COMMIT: the rows become visible at once. *)

Admitted(s, T) ==
  LET row == OperationRow(s.call) IN
  /\ s.call.kind = "admit" /\ s.answer = Says("created", 0)
  /\ s.writes = {W("operations", row)} /\ New(T, "operations", row)

Initialized(s, T) ==
  LET row == HeadRow(s.call) IN
  /\ s.call.kind = "initialize" /\ s.answer = Says("created", 0)
  /\ s.writes = {W("heads", row)} /\ New(T, "heads", row)

Transitioned(s, T) ==
  /\ s.call.kind = "transition" /\ s.answer = Says("applied", s.seen.revision + 1)
  /\ s.writes = TransitionWrites(s) /\ Sees(s, T) /\ Fresh(s, T)

Projected(s, T) ==
  /\ s.call.kind = "project" /\ Undecided(s) /\ Holds(s, Identities(s.call))
  /\ s.writes = ProjectionWrites(s.call) /\ ProjectionFree(s.call, T)

Completed(s, T) ==
  /\ s.call.kind = "complete" /\ Undecided(s) /\ Holds(s, Identities(s.call))
  /\ s.writes = EndingWrites(s.call) /\ EndingFree(s.call, T)

LEMMA CommitStatements ==
  ASSUME NEW s, NEW T, Fits(s, T), s.at = "commit"
  PROVE  /\ Shape(s) /\ s.call \in Calls
         /\ \/ Answered(s) \/ Admitted(s, T) \/ Initialized(s, T) \/ Transitioned(s, T)
            \/ Projected(s, T) \/ Completed(s, T)
  BY IdleFits DEF Fits, Returns, KindFits, AdmitFits, InitializeFits, TransitionFits, ProjectFits,
     CompleteFits, Asks, Wrote, Locking, Admitted, Initialized, Transitioned, Projected, Completed

CommittedRows(T, writes, t) ==
  {row \in T[t] : \A w \in writes : ~Replaces(w, t, row)}
    \cup {w.row : w \in {x \in writes : x.table = t}}

LEMMA CommitTables ==
  ASSUME NEW c \in Callers, Commit(c)
  PROVE  /\ tables' = [t \in TableNames |-> tables'[t]]
         /\ \A t \in TableNames : tables'[t] = CommittedRows(tables, sessions[c].writes, t)
  BY DEF Commit, CommittedRows

\* New rows are added.
LEMMA NewRowsAdded ==
  ASSUME NEW T, NEW writes, \A w \in writes : New(T, w.table, w.row), NEW t
  PROVE  CommittedRows(T, writes, t) = T[t] \cup {w.row : w \in {x \in writes : x.table = t}}
<1>1. \A row \in T[t] : \A w \in writes : ~Replaces(w, t, row)
  <2> SUFFICES ASSUME NEW row \in T[t], NEW w \in writes, Replaces(w, t, row) PROVE FALSE
    OBVIOUS
  <2>1. w.table = t /\ SameKey(t, row, w.row)
    BY KeySymmetric DEF Replaces
  <2>2. New(T, t, w.row)
    BY <2>1
  <2> QED
    BY <2>1, <2>2 DEF New
<1> QED
  BY <1>1 DEF CommittedRows

\* A session's statement depends on the tables of its kind of call alone.
LEMMA AdmitTables ==
  ASSUME NEW s, NEW T, NEW U, U["operations"] = T["operations"], AdmitFits(s, T)
  PROVE  AdmitFits(s, U)
  BY DEF AdmitFits, New

LEMMA InitializeTables ==
  ASSUME NEW s, NEW T, NEW U, U["heads"] = T["heads"], InitializeFits(s, T)
  PROVE  InitializeFits(s, U)
  BY DEF InitializeFits, New

LEMMA TransitionTables ==
  ASSUME NEW s, NEW T, NEW U, U["heads"] = T["heads"], U["transitions"] = T["transitions"],
         TransitionFits(s, T)
  PROVE  TransitionFits(s, U)
  BY DEF TransitionFits, Sees, Fresh

LEMMA ProjectTables ==
  ASSUME NEW s, NEW T, NEW U, U["manifests"] = T["manifests"], U["jobs"] = T["jobs"],
         U["receipts"] = T["receipts"], ProjectFits(s, T)
  PROVE  ProjectFits(s, U)
  BY DEF ProjectFits, PersistenceFree, ReceiptFree, ArtifactFree, JobFree, ProjectionFree

LEMMA CompleteTables ==
  ASSUME NEW s, NEW T, NEW U, U["events"] = T["events"], U["completions"] = T["completions"],
         CompleteFits(s, T)
  PROVE  CompleteFits(s, U)
  BY DEF CompleteFits, WorkflowFree, CompletionFree, EventsFree, EndingFree

LEMMA FitsByKind ==
  ASSUME NEW s, NEW T, NEW U, Fits(s, T),
         s.call.kind = "admit" /\ AdmitFits(s, T) => AdmitFits(s, U),
         s.call.kind = "initialize" /\ InitializeFits(s, T) => InitializeFits(s, U),
         s.call.kind = "transition" /\ TransitionFits(s, T) => TransitionFits(s, U),
         s.call.kind = "project" /\ ProjectFits(s, T) => ProjectFits(s, U),
         s.call.kind = "complete" /\ CompleteFits(s, T) => CompleteFits(s, U)
  PROVE  Fits(s, U)
  BY DEF Fits, KindFits

UniqueIn(X, t) == \A x, y \in X : SameKey(t, x, y) => x = y

LEMMA UniqueGrows ==
  ASSUME NEW t, NEW X, NEW A, UniqueIn(X, t), UniqueIn(A, t), \A x \in X, a \in A : ~SameKey(t, x, a)
  PROVE  UniqueIn(X \cup A, t)
  BY KeySymmetric DEF UniqueIn

Stand(c, U) == \A d \in Callers \ {c} : Fits(sessions[d], U)

\* The rows that a commit adds to a table.
Added(writes, t) == {w.row : w \in {x \in writes : x.table = t}}

LEMMA AddedOne ==
  ASSUME NEW t, NEW u, NEW row
  PROVE  /\ t = u => Added({W(u, row)}, t) = {row}
         /\ t # u => Added({W(u, row)}, t) = {}
<1>1. W(u, row).table = u /\ W(u, row).row = row
  BY DEF W
<1> HIDE DEF W
<1> QED
  BY <1>1 DEF Added

LEMMA AddedBoth ==
  ASSUME NEW t, NEW X, NEW Y
  PROVE  Added(X \cup Y, t) = Added(X, t) \cup Added(Y, t)
  BY DEF Added

LEMMA CommitAdmit ==
  ASSUME PostgresInv, NEW c \in Callers, NEW U, U = [t \in TableNames |-> U[t]],
         Admitted(sessions[c], tables),
         \A t \in TableNames : U[t] = CommittedRows(tables, sessions[c].writes, t)
  PROVE  /\ TablesFit(U) /\ Stand(c, U)
         /\ U["operations"] = tables["operations"] \cup {OperationRow(sessions[c].call)}
         /\ \A t \in TableNames \ {"operations"} : U[t] = tables[t]
<1> DEFINE row == OperationRow(sessions[c].call)
<1>1. sessions[c].writes = {W("operations", row)} /\ New(tables, "operations", row)
  BY DEF Admitted
<1> HIDE DEF row
<1>2. ASSUME NEW t \in TableNames
      PROVE  U[t] = tables[t] \cup Added({W("operations", row)}, t)
  BY <1>1, NewRowsAdded DEF W, Added
<1>3. U["operations"] = tables["operations"] \cup {row}
  BY <1>2, AddedOne DEF TableNames
<1>4. \A t \in TableNames \ {"operations"} : U[t] = tables[t]
  BY <1>2, AddedOne
<1>5. TablesFit(U)
  <2>1. UniqueIn(U["operations"], "operations")
    <3>1. UniqueIn(tables["operations"], "operations")
      BY DEF PostgresInv, TablesFit, KeysUnique, UniqueIn, TableNames
    <3>2. UniqueIn({row}, "operations")
      BY DEF UniqueIn
    <3> QED
      BY <1>1, <1>3, <3>1, <3>2, UniqueGrows DEF New
  <2>2. KeysUnique(U)
    BY <1>4, <2>1 DEF KeysUnique, UniqueIn, PostgresInv, TablesFit
  <2>3. Together(U)
    BY <1>4 DEF Together, Ids, PostgresInv, TablesFit, TableNames
  <2> QED
    BY <1>4, <2>2, <2>3 DEF PostgresInv, TablesFit, TableNames
<1>6. ASSUME NEW d \in Callers \ {c}
      PROVE  Fits(sessions[d], U)
  <2> DEFINE s == sessions[d]
  <2>1. Fits(s, tables)
    BY SessionIs
  <2>2. ASSUME AdmitFits(s, tables) PROVE AdmitFits(s, U)
    <3> DEFINE mine == OperationRow(s.call)
    <3>1. CASE Answered(s) \/ Asks(s, "insert-operation")
      BY <3>1 DEF AdmitFits
    <3>2. CASE Asks(s, "select-owner") /\ ~New(tables, "operations", mine)
      <4>1. ~New(U, "operations", mine)
        BY <1>3, <3>2 DEF New
      <4> QED
        BY <3>2, <4>1 DEF AdmitFits
    <3>3. CASE /\ s.at = "commit" /\ s.answer = Says("created", 0)
               /\ s.writes = {W("operations", mine)} /\ New(tables, "operations", mine)
      <4>1. ~Clash(W("operations", row), W("operations", mine))
        BY <1>1, <3>3 DEF PostgresInv, WritesApart
      <4>2. New(U, "operations", mine)
        BY <1>3, <3>3, <4>1 DEF New, Clash, W
      <4> QED
        BY <3>3, <4>2 DEF AdmitFits
    <3> QED
      BY <2>2, <3>1, <3>2, <3>3 DEF AdmitFits
  <2>3. /\ U["heads"] = tables["heads"] /\ U["transitions"] = tables["transitions"]
        /\ U["manifests"] = tables["manifests"] /\ U["jobs"] = tables["jobs"]
        /\ U["receipts"] = tables["receipts"] /\ U["events"] = tables["events"]
        /\ U["completions"] = tables["completions"]
    BY <1>4 DEF TableNames
  <2> HIDE DEF s
  <2>4. Fits(s, U)
    BY <2>1, <2>2, <2>3, FitsByKind, InitializeTables, TransitionTables, ProjectTables, CompleteTables
  <2> QED
    BY <2>4 DEF s
<1> QED
  BY <1>3, <1>4, <1>5, <1>6 DEF Stand, row

LEMMA CommitInitialize ==
  ASSUME PostgresInv, NEW c \in Callers, NEW U, U = [t \in TableNames |-> U[t]],
         Initialized(sessions[c], tables),
         \A t \in TableNames : U[t] = CommittedRows(tables, sessions[c].writes, t)
  PROVE  /\ TablesFit(U) /\ Stand(c, U)
         /\ U["heads"] = tables["heads"] \cup {HeadRow(sessions[c].call)}
         /\ \A t \in TableNames \ {"heads"} : U[t] = tables[t]
<1> DEFINE row == HeadRow(sessions[c].call)
<1>1. sessions[c].writes = {W("heads", row)} /\ New(tables, "heads", row)
  BY DEF Initialized
<1>0. HeadShape(row)
  BY DEF HeadShape, HeadRow
<1> HIDE DEF row
<1>2. ASSUME NEW t \in TableNames
      PROVE  U[t] = tables[t] \cup Added({W("heads", row)}, t)
  BY <1>1, NewRowsAdded DEF W, Added
<1>3. U["heads"] = tables["heads"] \cup {row}
  BY <1>2, AddedOne DEF TableNames
<1>4. \A t \in TableNames \ {"heads"} : U[t] = tables[t]
  BY <1>2, AddedOne
<1>5. TablesFit(U)
  <2>1. UniqueIn(U["heads"], "heads")
    <3>1. UniqueIn(tables["heads"], "heads")
      BY DEF PostgresInv, TablesFit, KeysUnique, UniqueIn, TableNames
    <3>2. UniqueIn({row}, "heads")
      BY DEF UniqueIn
    <3> QED
      BY <1>1, <1>3, <3>1, <3>2, UniqueGrows DEF New
  <2>2. KeysUnique(U)
    BY <1>4, <2>1 DEF KeysUnique, UniqueIn, PostgresInv, TablesFit
  <2>3. Together(U)
    <3>1. Ids(tables, "heads") \subseteq Ids(U, "heads")
      BY <1>3 DEF Ids
    <3>2. \A t \in TableNames \ {"heads"} : Ids(U, t) = Ids(tables, t)
      BY <1>4 DEF Ids
    <3> QED
      BY <3>1, <3>2 DEF Together, PostgresInv, TablesFit, TableNames
  <2>4. \A h \in U["heads"] : HeadShape(h)
    BY <1>0, <1>3 DEF PostgresInv, TablesFit
  <2> QED
    BY <2>2, <2>3, <2>4 DEF TablesFit
<1>6. ASSUME NEW d \in Callers \ {c}
      PROVE  Fits(sessions[d], U)
  <2> DEFINE s == sessions[d]
  <2>1. Fits(s, tables)
    BY SessionIs
  <2>2. ASSUME InitializeFits(s, tables) PROVE InitializeFits(s, U)
    <3> DEFINE mine == HeadRow(s.call)
    <3>1. CASE Answered(s) \/ Asks(s, "insert-head") \/ Asks(s, "select-own-head")
      BY <3>1 DEF InitializeFits
    <3>2. CASE /\ s.at = "commit" /\ s.answer = Says("created", 0)
               /\ s.writes = {W("heads", mine)} /\ New(tables, "heads", mine)
      <4>1. ~Clash(W("heads", row), W("heads", mine))
        BY <1>1, <3>2 DEF PostgresInv, WritesApart
      <4>2. New(U, "heads", mine)
        BY <1>3, <3>2, <4>1 DEF New, Clash, W
      <4> QED
        BY <3>2, <4>2 DEF InitializeFits
    <3> QED
      BY <2>2, <3>1, <3>2 DEF InitializeFits
  <2>3. /\ U["operations"] = tables["operations"] /\ U["transitions"] = tables["transitions"]
        /\ U["manifests"] = tables["manifests"] /\ U["jobs"] = tables["jobs"]
        /\ U["receipts"] = tables["receipts"] /\ U["events"] = tables["events"]
        /\ U["completions"] = tables["completions"]
    BY <1>4 DEF TableNames
  <2>4. ASSUME TransitionFits(s, tables) PROVE TransitionFits(s, U)
    BY <1>3, <2>3, <2>4 DEF TransitionFits, Sees, Fresh
  <2> HIDE DEF s
  <2>5. Fits(s, U)
    BY <2>1, <2>2, <2>3, <2>4, FitsByKind, AdmitTables, ProjectTables, CompleteTables
  <2> QED
    BY <2>5 DEF s
<1> QED
  BY <1>3, <1>4, <1>5, <1>6 DEF Stand, row

LEMMA CommitTransition ==
  ASSUME PostgresInv, NEW c \in Callers, NEW U, U = [t \in TableNames |-> U[t]],
         Shape(sessions[c]), Transitioned(sessions[c], tables),
         \A t \in TableNames : U[t] = CommittedRows(tables, sessions[c].writes, t)
  PROVE  /\ TablesFit(U) /\ Stand(c, U)
         /\ U["heads"] = (tables["heads"] \ {sessions[c].seen})
              \cup {MovedRow(sessions[c].seen, sessions[c].call)}
         /\ U["transitions"] = tables["transitions"]
              \cup {TransitionRow(sessions[c].call, sessions[c].seen)}
         /\ \A t \in TableNames \ {"heads", "transitions"} : U[t] = tables[t]
<1> DEFINE r == sessions[c].call
           h == sessions[c].seen
           moved == MovedRow(h, r)
           row == TransitionRow(r, h)
<1>1. /\ sessions[c].writes = {W("heads", moved), W("transitions", row)}
      /\ h \in tables["heads"] /\ h.operation = r.operation /\ HeadLock(r.operation) \in sessions[c].locks
      /\ HeadShape(h)
  BY DEF Transitioned, TransitionWrites, Sees, PostgresInv, TablesFit
<1>2. HeadShape(moved) /\ moved.operation = r.operation
  BY <1>1, MovedHead
<1>3. row.operation = r.operation /\ row.transition = r.transition
  BY DEF TransitionRow
<1>4. New(tables, "transitions", row)
  BY <1>3 DEF Transitioned, Fresh, New, SameKey
<1> HIDE DEF moved, row
<1>5. \A g \in tables["heads"] : g.operation = r.operation => g = h
  BY <1>1 DEF PostgresInv, TablesFit, KeysUnique, SameKey, TableNames
<1>8. \A t : Added(sessions[c].writes, t)
                              = Added({W("heads", moved)}, t) \cup Added({W("transitions", row)}, t)
  <2>1. sessions[c].writes = {W("heads", moved)} \cup {W("transitions", row)}
    BY <1>1
  <2> QED
    BY <2>1, AddedBoth
<1>6. U["heads"] = (tables["heads"] \ {h}) \cup {moved}
  <2>1. U["heads"] = {g \in tables["heads"] : \A w \in sessions[c].writes : ~Replaces(w, "heads", g)}
                       \cup Added(sessions[c].writes, "heads")
    BY DEF CommittedRows, Added, TableNames
  <2>2. Added(sessions[c].writes, "heads") = {moved}
    <3>1. Added({W("heads", moved)}, "heads") = {moved}
      BY AddedOne
    <3>2. Added({W("transitions", row)}, "heads") = {}
      BY AddedOne
    <3> QED
      BY <1>8, <3>1, <3>2
  <2>3. ASSUME NEW g \in tables["heads"]
        PROVE  (\A w \in sessions[c].writes : ~Replaces(w, "heads", g)) <=> g # h
    BY <1>1, <1>2, <1>5 DEF Replaces, W, SameKey
  <2> QED
    BY <2>1, <2>2, <2>3
<1>7. ASSUME NEW t \in TableNames \ {"heads"}
      PROVE  U[t] = tables[t] \cup Added(sessions[c].writes, t)
  <2>1. ASSUME NEW g \in tables[t], NEW w \in sessions[c].writes
        PROVE  ~Replaces(w, t, g)
    BY <1>1, <1>4, <2>1, KeySymmetric DEF Replaces, W, New
  <2> QED
    BY <2>1 DEF CommittedRows, Added
<1>9. U["transitions"] = tables["transitions"] \cup {row}
  BY <1>7, <1>8, AddedOne DEF TableNames
<1>10. \A t \in TableNames \ {"heads", "transitions"} : U[t] = tables[t]
  <2> TAKE t \in TableNames \ {"heads", "transitions"}
  <2>1. Added({W("heads", moved)}, t) = {} /\ Added({W("transitions", row)}, t) = {}
    BY AddedOne
  <2> QED
    BY <1>7, <1>8, <2>1
<1>11. TablesFit(U)
  <2>1. UniqueIn(U["transitions"], "transitions")
    <3>1. UniqueIn(tables["transitions"], "transitions")
      BY DEF PostgresInv, TablesFit, KeysUnique, UniqueIn, TableNames
    <3>2. UniqueIn({row}, "transitions")
      BY DEF UniqueIn
    <3> QED
      BY <1>4, <1>9, <3>1, <3>2, UniqueGrows DEF New
  <2>2. UniqueIn(U["heads"], "heads")
    BY <1>1, <1>2, <1>5, <1>6 DEF UniqueIn, SameKey, PostgresInv, TablesFit, KeysUnique, TableNames
  <2>3. KeysUnique(U)
    BY <1>10, <2>1, <2>2 DEF KeysUnique, UniqueIn, PostgresInv, TablesFit
  <2>4. Ids(U, "heads") = Ids(tables, "heads")
    BY <1>1, <1>2, <1>6 DEF Ids
  <2>5. Ids(U, "transitions") = Ids(tables, "transitions") \cup {r.operation}
    BY <1>3, <1>9 DEF Ids
  <2>6. r.operation \in Ids(tables, "heads")
    BY <1>1 DEF Ids
  <2>7. Together(U)
    <3>1. Ids(U, "transitions") \subseteq Ids(U, "heads")
      BY <2>4, <2>5, <2>6 DEF PostgresInv, TablesFit, Together
    <3> QED
      BY <1>10, <3>1 DEF Together, Ids, PostgresInv, TablesFit, TableNames
  <2>8. \A g \in U["heads"] : HeadShape(g)
    BY <1>2, <1>6 DEF PostgresInv, TablesFit
  <2> QED
    BY <2>3, <2>7, <2>8 DEF TablesFit
<1>12. ASSUME NEW d \in Callers \ {c}
       PROVE  Fits(sessions[d], U)
  <2> DEFINE s == sessions[d]
  <2>1. Fits(s, tables) /\ HeadLock(r.operation) \notin s.locks
    BY <1>1, SessionIs DEF PostgresInv, LocksApart
  <2>2. ASSUME InitializeFits(s, tables) PROVE InitializeFits(s, U)
    <3>1. \A g \in U["heads"] : \E f \in tables["heads"] : f.operation = g.operation
      BY <1>1, <1>2, <1>6
    <3>2. ASSUME NEW mine, New(tables, "heads", mine) PROVE New(U, "heads", mine)
      BY <3>1, <3>2 DEF New, SameKey
    <3> QED
      BY <2>2, <3>2 DEF InitializeFits
  <2>3. ASSUME TransitionFits(s, tables) PROVE TransitionFits(s, U)
    <3>1. ASSUME Sees(s, tables)
          PROVE  Sees(s, U) /\ s.call.operation # r.operation
      <4>1. s.call.operation # r.operation
        BY <2>1, <3>1 DEF Sees
      <4> QED
        BY <1>1, <1>6, <3>1, <4>1 DEF Sees
    <3>2. ASSUME Sees(s, tables), Fresh(s, tables)
          PROVE  Fresh(s, U)
      BY <1>3, <1>9, <3>1, <3>2 DEF Fresh
    <3> QED
      BY <2>3, <3>1, <3>2 DEF TransitionFits
  <2>4. /\ U["operations"] = tables["operations"]
        /\ U["manifests"] = tables["manifests"] /\ U["jobs"] = tables["jobs"]
        /\ U["receipts"] = tables["receipts"] /\ U["events"] = tables["events"]
        /\ U["completions"] = tables["completions"]
    BY <1>10 DEF TableNames
  <2> HIDE DEF s
  <2>5. Fits(s, U)
    BY <2>1, <2>2, <2>3, <2>4, FitsByKind, AdmitTables, ProjectTables, CompleteTables
  <2> QED
    BY <2>5 DEF s
<1> QED
  BY <1>6, <1>9, <1>10, <1>11, <1>12 DEF Stand, moved, row

\* Sessions that hold all their identities for the same kind of call have none
\* in common.
LEMMA IdentitiesApart ==
  ASSUME PostgresInv, NEW c \in Callers, NEW d \in Callers \ {c},
         sessions[c].call.kind = sessions[d].call.kind,
         Holds(sessions[c], Identities(sessions[c].call)),
         Holds(sessions[d], Identities(sessions[d].call))
  PROVE  Identities(sessions[c].call) \cap Identities(sessions[d].call) = {}
<1> SUFFICES ASSUME NEW id \in Identities(sessions[c].call), id \in Identities(sessions[d].call)
             PROVE  FALSE
  OBVIOUS
<1> DEFINE lock == <<sessions[c].call.kind, HashText(id)>>
<1>1. lock \in sessions[c].locks
  BY DEF Holds
<1>2. lock \in sessions[d].locks
  BY DEF Holds
<1> HIDE DEF lock
<1>3. sessions[c].locks \cap sessions[d].locks = {}
  BY DEF PostgresInv, LocksApart
<1> QED
  BY <1>1, <1>2, <1>3

LEMMA CommitProject ==
  ASSUME PostgresInv, NEW c \in Callers, NEW U, U = [t \in TableNames |-> U[t]],
         Projected(sessions[c], tables),
         \A t \in TableNames : U[t] = CommittedRows(tables, sessions[c].writes, t)
  PROVE  /\ TablesFit(U) /\ Stand(c, U)
         /\ U["manifests"] = tables["manifests"] \cup {ManifestRow(sessions[c].call)}
         /\ U["jobs"] = tables["jobs"] \cup {JobRow(sessions[c].call)}
         /\ U["receipts"] = tables["receipts"] \cup {PersistenceRow(sessions[c].call)}
         /\ \A t \in TableNames \ {"manifests", "jobs", "receipts"} : U[t] = tables[t]
<1> DEFINE r == sessions[c].call
           m == ManifestRow(r)
           j == JobRow(r)
           x == PersistenceRow(r)
<1>1. /\ sessions[c].writes = ({W("manifests", m)} \cup {W("jobs", j)}) \cup {W("receipts", x)}
      /\ r.kind = "project" /\ Holds(sessions[c], Identities(r))
  BY DEF Projected, ProjectionWrites
<1>2. /\ New(tables, "manifests", m) /\ New(tables, "jobs", j) /\ New(tables, "receipts", x)
  BY ProjectionNew DEF Projected, PostgresInv
<1>3. /\ m.operation = r.operation /\ m.artifact = r.artifact
      /\ j.operation = r.operation /\ j.job = r.job
      /\ x.operation = r.operation /\ x.persistence = r.persistence
  BY DEF ManifestRow, JobRow, PersistenceRow
<1> HIDE DEF m, j, x
<1>4. ASSUME NEW t \in TableNames
      PROVE  U[t] = tables[t] \cup Added(sessions[c].writes, t)
  <2>1. \A w \in sessions[c].writes : New(tables, w.table, w.row)
    BY <1>1, <1>2 DEF W
  <2> QED
    BY <2>1, NewRowsAdded DEF Added
<1>5. \A t : Added(sessions[c].writes, t) = (Added({W("manifests", m)}, t)
               \cup Added({W("jobs", j)}, t)) \cup Added({W("receipts", x)}, t)
  <2> TAKE t
  <2> DEFINE two == {W("manifests", m)} \cup {W("jobs", j)}
  <2>1. Added(two, t) = Added({W("manifests", m)}, t) \cup Added({W("jobs", j)}, t)
    BY AddedBoth
  <2>2. sessions[c].writes = two \cup {W("receipts", x)}
    BY <1>1
  <2> HIDE DEF two
  <2>3. Added(sessions[c].writes, t) = Added(two, t) \cup Added({W("receipts", x)}, t)
    BY <2>2, AddedBoth
  <2> QED
    BY <2>1, <2>3
<1>6. U["manifests"] = tables["manifests"] \cup {m}
  <2>1. /\ Added({W("manifests", m)}, "manifests") = {m} /\ Added({W("jobs", j)}, "manifests") = {}
        /\ Added({W("receipts", x)}, "manifests") = {}
    BY AddedOne
  <2> QED
    BY <1>4, <1>5, <2>1 DEF TableNames
<1>7. U["jobs"] = tables["jobs"] \cup {j}
  <2>1. /\ Added({W("manifests", m)}, "jobs") = {} /\ Added({W("jobs", j)}, "jobs") = {j}
        /\ Added({W("receipts", x)}, "jobs") = {}
    BY AddedOne
  <2> QED
    BY <1>4, <1>5, <2>1 DEF TableNames
<1>8. U["receipts"] = tables["receipts"] \cup {x}
  <2>1. /\ Added({W("manifests", m)}, "receipts") = {} /\ Added({W("jobs", j)}, "receipts") = {}
        /\ Added({W("receipts", x)}, "receipts") = {x}
    BY AddedOne
  <2> QED
    BY <1>4, <1>5, <2>1 DEF TableNames
<1>9. \A t \in TableNames \ {"manifests", "jobs", "receipts"} : U[t] = tables[t]
  <2> TAKE t \in TableNames \ {"manifests", "jobs", "receipts"}
  <2>1. /\ Added({W("manifests", m)}, t) = {} /\ Added({W("jobs", j)}, t) = {}
        /\ Added({W("receipts", x)}, t) = {}
    BY AddedOne
  <2> QED
    BY <1>4, <1>5, <2>1
<1>10. TablesFit(U)
  <2>1. \A t \in TableNames : UniqueIn(tables[t], t)
    BY DEF PostgresInv, TablesFit, KeysUnique, UniqueIn
  <2>2. \A t : UniqueIn({m}, t) /\ UniqueIn({j}, t) /\ UniqueIn({x}, t)
    BY DEF UniqueIn
  <2>3. UniqueIn(U["manifests"], "manifests")
    BY <1>2, <1>6, <2>1, <2>2, UniqueGrows DEF New, TableNames
  <2>4. UniqueIn(U["jobs"], "jobs")
    BY <1>2, <1>7, <2>1, <2>2, UniqueGrows DEF New, TableNames
  <2>5. UniqueIn(U["receipts"], "receipts")
    BY <1>2, <1>8, <2>1, <2>2, UniqueGrows DEF New, TableNames
  <2>6. KeysUnique(U)
    BY <1>9, <2>1, <2>3, <2>4, <2>5 DEF KeysUnique, UniqueIn
  <2>7. Ids(U, "manifests") = Ids(tables, "manifests") \cup {r.operation}
    BY <1>3, <1>6 DEF Ids
  <2>8. Ids(U, "jobs") = Ids(tables, "jobs") \cup {r.operation}
    BY <1>3, <1>7 DEF Ids
  <2>9. Ids(U, "receipts") = Ids(tables, "receipts") \cup {r.operation}
    BY <1>3, <1>8 DEF Ids
  <2>10. \A t \in TableNames \ {"manifests", "jobs", "receipts"} : Ids(U, t) = Ids(tables, t)
    BY <1>9 DEF Ids
  <2>11. Together(U)
    BY <2>7, <2>8, <2>9, <2>10 DEF Together, PostgresInv, TablesFit, TableNames
  <2> QED
    BY <1>9, <2>6, <2>11 DEF PostgresInv, TablesFit, TableNames
<1>11. ASSUME NEW d \in Callers \ {c}
       PROVE  Fits(sessions[d], U)
  <2> DEFINE s == sessions[d]
             q == sessions[d].call
  <2>1. Fits(s, tables)
    BY SessionIs
  <2>2. ASSUME q.kind = "project", ProjectFits(s, tables) PROVE ProjectFits(s, U)
    <3>1. CASE Answered(s) \/ Locking(s)
      BY <3>1 DEF ProjectFits
    <3>2. CASE Holds(s, Identities(q))
      <4>1. Identities(r) \cap Identities(q) = {}
        BY <1>1, <2>2, <3>2, IdentitiesApart
      <4>2. /\ r.operation # q.operation /\ r.persistence # q.persistence
            /\ r.artifact # q.artifact /\ r.job # q.job
        BY <1>1, <2>2, <4>1 DEF Identities, ProjectionIdentities
      <4>3. PersistenceFree(q, tables) => PersistenceFree(q, U)
        BY <1>3, <1>8, <4>2 DEF PersistenceFree
      <4>4. ReceiptFree(q, tables) => ReceiptFree(q, U)
        BY <1>3, <1>8, <4>2 DEF ReceiptFree
      <4>5. ArtifactFree(q, tables) => ArtifactFree(q, U)
        BY <1>3, <1>6, <4>2 DEF ArtifactFree
      <4>6. JobFree(q, tables) => JobFree(q, U)
        BY <1>3, <1>7, <4>2 DEF JobFree
      <4> QED
        BY <2>2, <4>3, <4>4, <4>5, <4>6 DEF ProjectFits, ProjectionFree
    <3> QED
      BY <2>2, <3>1, <3>2 DEF ProjectFits
  <2>3. /\ U["operations"] = tables["operations"] /\ U["heads"] = tables["heads"]
        /\ U["transitions"] = tables["transitions"] /\ U["events"] = tables["events"]
        /\ U["completions"] = tables["completions"]
    BY <1>9 DEF TableNames
  <2> HIDE DEF s
  <2>4. Fits(s, U)
    BY <2>1, <2>2, <2>3, FitsByKind, AdmitTables, InitializeTables, TransitionTables,
       CompleteTables DEF s
  <2> QED
    BY <2>4 DEF s
<1> QED
  BY <1>6, <1>7, <1>8, <1>9, <1>10, <1>11 DEF Stand, m, j, x

\* The rows of a workflow's events have keys of their own.
LEMMA EventRowsUnique ==
  ASSUME NEW r, r.events \in Seq(Nat), IsInjective(r.events)
  PROVE  UniqueIn(EventRows(r), "events")
<1> DEFINE row(i) == [operation |-> r.operation, event |-> r.events[i], sequence |-> i - 1]
<1> SUFFICES ASSUME NEW i \in DOMAIN r.events, NEW k \in DOMAIN r.events,
                    SameKey("events", row(i), row(k))
             PROVE  i = k
  BY DEF UniqueIn, EventRows
<1>1. i \in Nat /\ k \in Nat
  <2> PICK n \in Nat : DOMAIN r.events = 1 .. n
    BY DEF Seq
  <2> QED
    OBVIOUS
<1>2. r.events[i] = r.events[k] \/ i - 1 = k - 1
  BY DEF SameKey
<1>3. CASE r.events[i] = r.events[k]
  BY <1>3 DEF IsInjective
<1>4. CASE i - 1 = k - 1
  BY <1>1, <1>4
<1> QED
  BY <1>2, <1>3, <1>4

LEMMA CommitComplete ==
  ASSUME PostgresInv, NEW c \in Callers, NEW U, U = [t \in TableNames |-> U[t]],
         sessions[c].call \in Calls, Completed(sessions[c], tables),
         \A t \in TableNames : U[t] = CommittedRows(tables, sessions[c].writes, t)
  PROVE  /\ TablesFit(U) /\ Stand(c, U)
         /\ U["events"] = tables["events"] \cup EventRows(sessions[c].call)
         /\ U["completions"] = tables["completions"] \cup {CompletionRow(sessions[c].call)}
         /\ \A t \in TableNames \ {"events", "completions"} : U[t] = tables[t]
<1> DEFINE r == sessions[c].call
           E == EventRows(r)
           x == CompletionRow(r)
<1>1. /\ sessions[c].writes = EventWrites(r) \cup {W("completions", x)}
      /\ r.kind = "complete" /\ Holds(sessions[c], Identities(r))
      /\ r.events \in Seq(Nat) \ {<<>>} /\ IsInjective(r.events)
  BY CallKinds DEF Completed, EndingWrites
<1>2. (\A row \in E : New(tables, "events", row)) /\ New(tables, "completions", x)
  BY EndingNew DEF Completed, PostgresInv
<1>3. /\ \A row \in E : row.operation = r.operation /\ row.event \in Range(r.events)
      /\ x.operation = r.operation /\ x.workflow = r.workflow
  BY DEF EventRows, CompletionRow, Range
<1>4. E # {}
  <2>1. 1 \in DOMAIN r.events
    BY <1>1
  <2> QED
    BY <2>1 DEF EventRows
<1>5. UniqueIn(E, "events")
  BY <1>1, EventRowsUnique
<1>6. \A t : Added(EventWrites(r), t) = IF t = "events" THEN E ELSE {}
  <2>1. \A row : W("events", row).table = "events" /\ W("events", row).row = row
    BY DEF W
  <2> QED
    BY <2>1 DEF Added, EventWrites
<1> HIDE DEF E, x
<1>7. ASSUME NEW t \in TableNames
      PROVE  U[t] = (tables[t] \cup Added(EventWrites(r), t)) \cup Added({W("completions", x)}, t)
  <2>1. \A w \in sessions[c].writes : New(tables, w.table, w.row)
    BY <1>1, <1>2 DEF W, EventWrites, E
  <2>2. U[t] = tables[t] \cup Added(sessions[c].writes, t)
    BY <2>1, NewRowsAdded DEF Added
  <2>3. Added(sessions[c].writes, t) = Added(EventWrites(r), t) \cup Added({W("completions", x)}, t)
    BY <1>1, AddedBoth
  <2> QED
    BY <2>2, <2>3
<1>8. U["events"] = tables["events"] \cup E
  <2>1. Added({W("completions", x)}, "events") = {}
    BY AddedOne
  <2> QED
    BY <1>6, <1>7, <2>1 DEF TableNames
<1>9. U["completions"] = tables["completions"] \cup {x}
  <2>1. Added({W("completions", x)}, "completions") = {x}
    BY AddedOne
  <2> QED
    BY <1>6, <1>7, <2>1 DEF TableNames
<1>10. \A t \in TableNames \ {"events", "completions"} : U[t] = tables[t]
  <2> TAKE t \in TableNames \ {"events", "completions"}
  <2>1. Added({W("completions", x)}, t) = {}
    BY AddedOne
  <2> QED
    BY <1>6, <1>7, <2>1
<1>11. TablesFit(U)
  <2>1. \A t \in TableNames : UniqueIn(tables[t], t)
    BY DEF PostgresInv, TablesFit, KeysUnique, UniqueIn
  <2>2. \A t : UniqueIn({x}, t)
    BY DEF UniqueIn
  <2>3. UniqueIn(U["events"], "events")
    BY <1>2, <1>5, <1>8, <2>1, UniqueGrows DEF New, TableNames
  <2>4. UniqueIn(U["completions"], "completions")
    BY <1>2, <1>9, <2>1, <2>2, UniqueGrows DEF New, TableNames
  <2>5. KeysUnique(U)
    BY <1>10, <2>1, <2>3, <2>4 DEF KeysUnique, UniqueIn
  <2>6. Ids(U, "events") = Ids(tables, "events") \cup {r.operation}
    BY <1>3, <1>4, <1>8 DEF Ids
  <2>7. Ids(U, "completions") = Ids(tables, "completions") \cup {r.operation}
    BY <1>3, <1>9 DEF Ids
  <2>8. \A t \in TableNames \ {"events", "completions"} : Ids(U, t) = Ids(tables, t)
    BY <1>10 DEF Ids
  <2>9. Together(U)
    BY <2>6, <2>7, <2>8 DEF Together, PostgresInv, TablesFit, TableNames
  <2> QED
    BY <1>10, <2>5, <2>9 DEF PostgresInv, TablesFit, TableNames
<1>12. ASSUME NEW d \in Callers \ {c}
       PROVE  Fits(sessions[d], U)
  <2> DEFINE s == sessions[d]
             q == sessions[d].call
  <2>1. Fits(s, tables)
    BY SessionIs
  <2>2. ASSUME q.kind = "complete", CompleteFits(s, tables) PROVE CompleteFits(s, U)
    <3>1. CASE Answered(s) \/ Locking(s)
      BY <3>1 DEF CompleteFits
    <3>2. CASE Holds(s, Identities(q))
      <4>1. Identities(r) \cap Identities(q) = {}
        BY <1>1, <2>2, <3>2, IdentitiesApart
      <4>2. /\ r.operation # q.operation /\ r.workflow # q.workflow
            /\ Range(r.events) \cap Range(q.events) = {}
        BY <1>1, <2>2, <4>1 DEF Identities, WorkflowIdentities
      <4>3. WorkflowFree(q, tables) => WorkflowFree(q, U)
        BY <1>3, <1>9, <4>2 DEF WorkflowFree
      <4>4. CompletionFree(q, tables) => CompletionFree(q, U)
        BY <1>3, <1>9, <4>2 DEF CompletionFree
      <4>5. EventsFree(q, tables) => EventsFree(q, U)
        BY <1>3, <1>8, <4>2 DEF EventsFree
      <4> QED
        BY <2>2, <4>3, <4>4, <4>5 DEF CompleteFits, EndingFree
    <3> QED
      BY <2>2, <3>1, <3>2 DEF CompleteFits
  <2>3. /\ U["operations"] = tables["operations"] /\ U["heads"] = tables["heads"]
        /\ U["transitions"] = tables["transitions"] /\ U["manifests"] = tables["manifests"]
        /\ U["jobs"] = tables["jobs"] /\ U["receipts"] = tables["receipts"]
    BY <1>10 DEF TableNames
  <2> HIDE DEF s
  <2>4. Fits(s, U)
    BY <2>1, <2>2, <2>3, FitsByKind, AdmitTables, InitializeTables, TransitionTables,
       ProjectTables DEF s
  <2> QED
    BY <2>4 DEF s
<1> QED
  BY <1>8, <1>9, <1>10, <1>11, <1>12 DEF Stand, E, x

LEMMA CommitAnswered ==
  ASSUME PostgresInv, NEW c \in Callers, NEW U, U = [t \in TableNames |-> U[t]],
         sessions[c].writes = {},
         \A t \in TableNames : U[t] = CommittedRows(tables, sessions[c].writes, t)
  PROVE  U = tables
<1>1. \A t \in TableNames : U[t] = tables[t]
  BY DEF CommittedRows
<1> QED
  BY <1>1 DEF PostgresInv, TablesFit

LEMMA CommitInv ==
  ASSUME PostgresInv, NEW c \in Callers, Commit(c)
  PROVE  PostgresInv'
<1> DEFINE s == sessions[c]
           answer == IF s.answer.status = "none" THEN Says("committed", 0) ELSE s.answer
           k == [Idle EXCEPT !.call = Call(c), !.at = "return", !.answer = answer]
<1>1. /\ Shape(s) /\ s.call \in Calls
      /\ \/ Answered(s) \/ Admitted(s, tables) \/ Initialized(s, tables)
         \/ Transitioned(s, tables) \/ Projected(s, tables) \/ Completed(s, tables)
  BY SessionIs, CommitStatements DEF Commit, At
<1>2. /\ tables' = [t \in TableNames |-> tables'[t]]
      /\ \A t \in TableNames : tables'[t] = CommittedRows(tables, sessions[c].writes, t)
  BY CommitTables
<1>3. TablesFit(tables') /\ Stand(c, tables')
  <2>1. CASE Answered(s)
    <3>1. tables' = tables
      BY <1>2, <2>1, CommitAnswered DEF Answered
    <3> QED
      BY <3>1 DEF PostgresInv, Stand
  <2>2. CASE Admitted(s, tables)
    BY <1>2, <2>2, CommitAdmit
  <2>3. CASE Initialized(s, tables)
    BY <1>2, <2>3, CommitInitialize
  <2>4. CASE Transitioned(s, tables)
    BY <1>1, <1>2, <2>4, CommitTransition
  <2>5. CASE Projected(s, tables)
    BY <1>2, <2>5, CommitProject
  <2>6. CASE Completed(s, tables)
    BY <1>1, <1>2, <2>6, CommitComplete
  <2> QED
    BY <1>1, <2>1, <2>2, <2>3, <2>4, <2>5, <2>6
<1>4. sessions' = [sessions EXCEPT ![c] = k] /\ Unchanged
  BY DEF Commit
<1>5. answer.status # "none"
  BY SaysFields
<1>6. k = [Idle EXCEPT !.call = Call(c), !.at = "return", !.answer = answer]
  OBVIOUS
<1> HIDE DEF k, answer
<1>7. /\ Shape(k) /\ k.call = s.call /\ k.at = "return" /\ k.locks = {} /\ k.writes = {}
      /\ k.answer = answer
  BY <1>6 DEF Shape, Idle, Call
<1>8. Fits(k, tables')
  BY <1>1, <1>5, <1>7 DEF Fits, Returns
<1>9. sessions = [d \in Callers |-> sessions[d]]
  BY DEF PostgresInv
<1>10. sessions' = [d \in Callers |-> sessions'[d]] /\ sessions'[c] = k
  BY <1>4, <1>9
<1>11. \A d \in Callers \ {c} : sessions'[d] = sessions[d]
  BY <1>4, <1>9
<1>12. \A d \in Callers : Fits(sessions'[d], tables')
  BY <1>3, <1>8, <1>10, <1>11 DEF Stand
<1>13. LocksApart'
  BY <1>7, <1>10, <1>11 DEF LocksApart, PostgresInv
<1>14. WritesApart'
  BY <1>7, <1>10, <1>11 DEF WritesApart, PostgresInv
<1>15. scenario' \in Scenarios /\ made' \in 0 .. MaxCalls /\ faults' \in 0 .. MaxFaults
  BY <1>4 DEF Unchanged, PostgresInv
<1> QED
  BY <1>3, <1>10, <1>12, <1>13, <1>14, <1>15 DEF PostgresInv

-----------------------------------------------------------------------------
(* The invariant. *)

LEMMA PostgresInvInit == Init => PostgresInv
<1> SUFFICES ASSUME Init PROVE PostgresInv
  OBVIOUS
<1>1. TablesFit(tables)
  BY DEF Init, TablesFit, KeysUnique, Together, Ids, TableNames
<1>2. \A c \in Callers : sessions[c] = Idle
  BY DEF Init
<1>3. LocksApart /\ WritesApart
  BY <1>2, IdleFits DEF LocksApart, WritesApart
<1>4. \A c \in Callers : Fits(sessions[c], tables)
  BY <1>2 DEF Fits
<1>5. sessions = [c \in Callers |-> sessions[c]] /\ scenario \in Scenarios
  BY DEF Init
<1>6. made \in 0 .. MaxCalls /\ faults \in 0 .. MaxFaults
  BY PostgresAssumption DEF Init
<1> QED
  BY <1>1, <1>3, <1>4, <1>5, <1>6 DEF PostgresInv

LEMMA PostgresInvNext == PostgresInv /\ [Next]_vars => PostgresInv'
<1> SUFFICES ASSUME PostgresInv, [Next]_vars PROVE PostgresInv'
  OBVIOUS
<1>1. CASE UNCHANGED vars
  BY <1>1 DEF vars, PostgresInv, LocksApart, WritesApart
<1>2. ASSUME NEW c \in Callers, NEW r \in scenario, Begin(c, r) PROVE PostgresInv'
  BY <1>2, BeginInv
<1>3. ASSUME NEW c \in Callers, Statement(c) PROVE PostgresInv'
  BY <1>3, InsertOperationInv, SelectOwnerInv, InsertHeadInv, SelectOwnHeadInv, SelectHeadInv,
     SelectTransitionInv, UpdateHeadInv, InsertTransitionInv, LockInv, SelectPersistenceInv,
     SelectReceiptInv, SelectArtifactInv, SelectJobInv, InsertManifestInv, InsertJobInv,
     InsertReceiptInv, SelectWorkflowInv, SelectCompletionInv, SelectEventsInv, InsertEventsInv,
     InsertCompletionInv, CommitInv, ReturnInv DEF Statement
<1>4. ASSUME NEW c \in Callers, Unavailable(c) PROVE PostgresInv'
  BY <1>4, UnavailableInv
<1> QED
  BY <1>1, <1>2, <1>3, <1>4 DEF Next

\* What a session knows, holds and has written at each of its statements, and
\* how the tables go together, hold for any sessions and any calls.
THEOREM PostgresInvariant == Spec => []PostgresInv
  BY PostgresInvInit, PostgresInvNext, PTL DEF Spec

\* The tables keep their keys, a projection is in its three tables or in none, a
\* completion has its events and a transition its head; locks and rows belong to
\* a transaction that has not ended.
THEOREM PostgresTypeCorrect == Spec => []PostgresTypeOK
<1>1. PostgresInv => PostgresTypeOK
  <2> SUFFICES ASSUME PostgresInv PROVE PostgresTypeOK
    OBVIOUS
  <2>1. DOMAIN tables = TableNames
    BY DEF PostgresInv, TablesFit
  <2>2. RowsBelongTogether
    BY DEF PostgresInv, TablesFit, Together, Ids, RowsBelongTogether
  <2>3. ASSUME NEW c \in Callers
        PROVE  /\ sessions[c].at \in StatementNames \cup {"idle", "return"}
               /\ (Call(c) = NoCall) = At(c, "idle")
               /\ ~InTransaction(c) => sessions[c].locks = {} /\ sessions[c].writes = {}
    BY SessionIs, IdleFits, CallKinds DEF Fits, Returns, KindFits, AdmitFits, InitializeFits,
       TransitionFits, ProjectFits, CompleteFits, Answered, Asks, Wrote, Locking, StatementNames,
       Call, At, InTransaction
  <2> QED
    BY <2>1, <2>2, <2>3 DEF PostgresTypeOK, PostgresInv, TablesFit, KeysUnique
<1> QED
  BY <1>1, PostgresInvariant, PTL

-----------------------------------------------------------------------------
(* No circle of waits.  Whoever holds something and waits, waits for the next *)
(* of its identities, and for one above all that it holds.                   *)

\* What is locked before and while a session takes its locks: nothing, and the
\* identities below those it has yet to lock.
LocksTaken(s) ==
  /\ s.at \in {"insert-operation", "insert-head", "select-own-head", "select-head"} => s.locks = {}
  /\ s.at = "lock" => \A lock \in s.locks :
       \E id \in Identities(s.call) :
         lock = <<s.call.kind, HashText(id)>> /\ \A other \in s.todo : id < other

WaitsInv == \A c \in Callers : LocksTaken(sessions[c])

LEMMA IdentitiesAreNumbers ==
  ASSUME NEW r \in Calls, r.kind \in {"project", "complete"}
  PROVE  Identities(r) \subseteq Nat
<1>1. CASE r.kind = "project"
  BY <1>1, PostgresAssumption DEF Calls, Identities, ProjectionIdentities
<1>2. CASE r.kind = "complete"
  <2>1. r.events \in Seq(Nat) /\ {r.operation, r.workflow} \subseteq Nat
    BY <1>2, PostgresAssumption DEF Calls
  <2>2. Range(r.events) \subseteq Nat
    BY <2>1 DEF Range
  <2>3. Identities(r) = WorkflowIdentities(r)
    BY <1>2 DEF Identities
  <2> QED
    BY <2>1, <2>2, <2>3 DEF WorkflowIdentities
<1> QED
  BY <1>1, <1>2

LEMMA LockTakesNext ==
  ASSUME PostgresInv, WaitsInv, NEW c \in Callers, Lock(c)
  PROVE  LocksTaken(sessions'[c])
<1> DEFINE s == sessions[c]
           k == sessions'[c]
<1>1. /\ Shape(s) /\ s.call \in Calls /\ s.call.kind \in {"project", "complete"} /\ Locking(s)
  BY SessionIs, LockStatements DEF Lock, At
<1> DEFINE Takes(id) ==
        sessions' = [sessions EXCEPT ![c].locks = @ \cup {<<Call(c).kind, HashText(id)>>},
             ![c].todo = sessions[c].todo \ {id},
             ![c].at = IF sessions[c].todo \ {id} # {} THEN "lock"
                       ELSE IF Call(c).kind = "project" THEN "select-persistence"
                       ELSE "select-workflow"]
<1>2. PICK id : id \in Due(sessions[c].todo) /\ Takes(id)
  BY Zenon DEF Lock
<1>3. id \in s.todo /\ \A other \in s.todo : id <= other
  BY <1>2 DEF Due
<1>4. /\ k.call = s.call /\ k.todo = s.todo \ {id} /\ k.locks = s.locks \cup {<<s.call.kind, HashText(id)>>}
      /\ k.at \in {"lock", "select-persistence", "select-workflow"}
  BY <1>1, <1>2 DEF Shape, Call, PostgresInv
<1>5. s.todo \subseteq Identities(s.call) /\ Identities(s.call) \subseteq Nat /\ s.at = "lock"
  BY <1>1, IdentitiesAreNumbers DEF Locking, Asks
<1>6. id \in Identities(s.call) /\ \A other \in k.todo : id < other
  BY <1>4, <1>5, <1>3
<1>7. LocksTaken(s)
  BY DEF WaitsInv
<1> HIDE DEF s, k
<1>8. \A lock \in s.locks : \E i \in Identities(s.call) :
        lock = <<s.call.kind, HashText(i)>> /\ \A other \in k.todo : i < other
  BY <1>4, <1>5, <1>7 DEF LocksTaken
<1>9. \A lock \in k.locks : \E i \in Identities(k.call) :
        lock = <<k.call.kind, HashText(i)>> /\ \A other \in k.todo : i < other
  <2> SUFFICES ASSUME NEW lock \in k.locks
               PROVE  \E i \in Identities(k.call) :
                        lock = <<k.call.kind, HashText(i)>> /\ \A other \in k.todo : i < other
    OBVIOUS
  <2>1. CASE lock \in s.locks
    BY <1>4, <1>8, <2>1
  <2>2. CASE lock = <<s.call.kind, HashText(id)>>
    BY <1>4, <1>6, <2>2
  <2> QED
    BY <1>4, <2>1, <2>2
<1>10. LocksTaken(k)
  BY <1>4, <1>9 DEF LocksTaken
<1> QED
  BY <1>10 DEF k

LEMMA WaitsInit == Init => WaitsInv
  BY IdleFits DEF Init, WaitsInv, LocksTaken


Early == {"insert-operation", "insert-head", "select-own-head", "select-head", "lock"}

\* The other sessions are as they were, and this one is at another statement.
GoesTo(c, statement) ==
  /\ \A d \in Callers \ {c} : sessions'[d] = sessions[d]
  /\ sessions'[c].at = statement

LEMMA LaterTakes ==
  ASSUME WaitsInv, NEW c \in Callers, NEW statement, statement \notin Early, GoesTo(c, statement)
  PROVE  WaitsInv'
  BY DEF WaitsInv, LocksTaken, GoesTo, Early

LEMMA Goes ==
  ASSUME PostgresInv, NEW c \in Callers, Shape(sessions[c])
  PROVE  /\ \A status, n : Conclude(c, status, n) => GoesTo(c, "commit")
         /\ \A next : Proceed(c, next) => GoesTo(c, next)
         /\ \A t, row, next : Write(c, t, row, next) => GoesTo(c, next)
         /\ \A h, next, answer : ReadLocked(c, h, next, answer) => GoesTo(c, next)
         /\ Throw(c) => GoesTo(c, "return")
<1>1. sessions = [d \in Callers |-> sessions[d]]
  BY DEF PostgresInv
<1>2. ASSUME NEW k, NEW next, sessions' = [sessions EXCEPT ![c] = k], k.at = next
      PROVE  GoesTo(c, next)
  BY <1>1, <1>2 DEF GoesTo
<1>3. ASSUME NEW status, NEW n, Conclude(c, status, n) PROVE GoesTo(c, "commit")
  BY <1>1, <1>3 DEF Conclude, Shape, GoesTo
<1>4. ASSUME NEW next, Proceed(c, next) PROVE GoesTo(c, next)
  BY <1>1, <1>4 DEF Proceed, Shape, GoesTo
<1>5. ASSUME NEW t, NEW row, NEW next, Write(c, t, row, next) PROVE GoesTo(c, next)
  BY <1>1, <1>5 DEF Write, Shape, GoesTo
<1>6. ASSUME NEW h, NEW next, NEW answer, ReadLocked(c, h, next, answer) PROVE GoesTo(c, next)
  BY <1>1, <1>6 DEF ReadLocked, Shape, GoesTo
<1>7. ASSUME Throw(c) PROVE GoesTo(c, "return")
  BY <1>1, <1>7 DEF Throw, Idle, GoesTo
<1> QED
  BY <1>3, <1>4, <1>5, <1>6, <1>7

LEMMA StatementsGoOn ==
  ASSUME PostgresInv, WaitsInv, NEW c \in Callers, Statement(c)
  PROVE  WaitsInv'
<1>1. sessions = [d \in Callers |-> sessions[d]]
  BY DEF PostgresInv
<1>2. CASE Return(c)
  BY <1>1, <1>2, IdleFits, LaterTakes DEF Return, GoesTo, Early
<1>3. CASE ~Return(c)
  <2>1. Shape(sessions[c])
    BY <1>3, SessionIs, IdleFits DEF Fits
  <2>2. ASSUME NEW next, next \notin Early, GoesTo(c, next) PROVE WaitsInv'
    BY <2>2, LaterTakes
  <2>3. CASE InsertOperation(c)
    <3>1. GoesTo(c, "select-owner") \/ GoesTo(c, "commit")
      BY <1>1, <2>1, <2>3, Goes DEF InsertOperation, Shape, GoesTo
    <3> QED
      BY <2>2, <3>1 DEF Early
  <2>4. CASE InsertHead(c)
    <3>1. CASE Proceed(c, "select-own-head")
      <4>1. /\ sessions'[c].at = "select-own-head" /\ sessions'[c].locks = {}
            /\ \A d \in Callers \ {c} : sessions'[d] = sessions[d]
        BY <1>1, <2>1, <2>4, <3>1 DEF Proceed, Shape, InsertHead, At, WaitsInv, LocksTaken
      <4> QED
        BY <4>1 DEF WaitsInv, LocksTaken
    <3>2. CASE ~Proceed(c, "select-own-head")
      <4>1. GoesTo(c, "commit")
        BY <1>1, <2>1, <2>4, <3>2 DEF InsertHead, Shape, GoesTo
      <4> QED
        BY <2>2, <4>1 DEF Early
    <3> QED
      BY <3>1, <3>2
  <2>5. CASE SelectOwner(c) \/ SelectTransition(c)
    <3>1. GoesTo(c, "commit") \/ GoesTo(c, "update-head")
      <4>1. CASE SelectOwner(c)
        BY <2>1, <4>1, Goes DEF SelectOwner
      <4>2. CASE SelectTransition(c)
        BY <2>1, <4>2, Goes DEF SelectTransition
      <4> QED
        BY <2>5, <4>1, <4>2
    <3> QED
      BY <2>2, <3>1 DEF Early
  <2>6. CASE SelectOwnHead(c) \/ SelectHead(c)
    <3>1. GoesTo(c, "commit") \/ GoesTo(c, "select-transition")
      BY <2>1, <2>6, Goes DEF SelectOwnHead, SelectHead
    <3> QED
      BY <2>2, <3>1 DEF Early
  <2>7. CASE UpdateHead(c) \/ InsertTransition(c)
    <3>1. GoesTo(c, "insert-transition") \/ GoesTo(c, "return") \/ GoesTo(c, "commit")
      <4>1. CASE UpdateHead(c)
        BY <2>1, <4>1, Goes DEF UpdateHead
      <4>2. CASE InsertTransition(c)
        BY <1>1, <2>1, <4>2, Goes DEF InsertTransition, Shape, GoesTo
      <4> QED
        BY <2>7, <4>1, <4>2
    <3> QED
      BY <2>2, <3>1 DEF Early
  <2>8. CASE Lock(c)
    <3>1. \A d \in Callers \ {c} : sessions'[d] = sessions[d]
      BY <1>1, <2>8 DEF Lock
    <3> QED
      BY <2>8, <3>1, LockTakesNext DEF WaitsInv
  <2>9. CASE SelectPersistence(c) \/ SelectReceipt(c) \/ SelectArtifact(c) \/ SelectJob(c)
             \/ SelectWorkflow(c) \/ SelectCompletion(c) \/ SelectEvents(c)
    <3>1. GoesTo(c, "commit") \/ \E next \in StatementNames \ Early : GoesTo(c, next)
      BY <2>1, <2>9, Goes DEF SelectPersistence, SelectReceipt, SelectArtifact, SelectJob,
         SelectWorkflow, SelectCompletion, SelectEvents, ConflictIf, AnswerExisting,
         StatementNames, Early
    <3> QED
      BY <2>2, <3>1 DEF Early
  <2>10. CASE InsertManifest(c) \/ InsertJob(c) \/ InsertReceipt(c) \/ InsertCompletion(c)
    <3>1. GoesTo(c, "return") \/ \E next \in StatementNames \ Early : GoesTo(c, next)
      BY <2>1, <2>10, Goes DEF InsertManifest, InsertJob, InsertReceipt, InsertCompletion, Insert,
         StatementNames, Early
    <3> QED
      BY <2>2, <3>1 DEF Early
  <2>11. CASE InsertEvents(c)
    <3>1. GoesTo(c, "return") \/ GoesTo(c, "insert-completion")
      BY <1>1, <2>1, <2>11, Goes DEF InsertEvents, Shape, GoesTo
    <3> QED
      BY <2>2, <3>1 DEF Early
  <2>12. CASE Commit(c)
    <3>1. GoesTo(c, "return")
      BY <1>1, <2>12 DEF Commit, Idle, GoesTo
    <3> QED
      BY <2>2, <3>1 DEF Early
  <2> QED
    BY <1>3, <2>3, <2>4, <2>5, <2>6, <2>7, <2>8, <2>9, <2>10, <2>11, <2>12 DEF Statement
<1> QED
  BY <1>2, <1>3

LEMMA WaitsNext == PostgresInv /\ WaitsInv /\ [Next]_vars => WaitsInv'
<1> SUFFICES ASSUME PostgresInv, WaitsInv, [Next]_vars PROVE WaitsInv'
  OBVIOUS
<1>1. CASE UNCHANGED vars
  BY <1>1 DEF vars, WaitsInv
<1>2. ASSUME NEW c \in Callers, NEW r \in scenario, Begin(c, r) PROVE WaitsInv'
  <2>1. sessions[c] = Idle
    BY <1>2, SessionIs, CallKinds DEF Begin, At, Fits, Returns, KindFits, AdmitFits,
       InitializeFits, TransitionFits, ProjectFits, CompleteFits, Answered, Asks, Wrote, Locking
  <2>2. sessions'[c].locks = {} /\ \A d \in Callers \ {c} : sessions'[d] = sessions[d]
    BY <1>2, <2>1 DEF Begin, Idle, PostgresInv
  <2> QED
    BY <2>2 DEF WaitsInv, LocksTaken
<1>3. ASSUME NEW c \in Callers, Unavailable(c) PROVE WaitsInv'
  <2>1. GoesTo(c, "return")
    BY <1>3 DEF Unavailable, Abort, Idle, GoesTo, PostgresInv
  <2> QED
    BY <2>1, LaterTakes DEF Early
<1> QED
  BY <1>1, <1>2, <1>3, StatementsGoOn DEF Next

-----------------------------------------------------------------------------
(* Who waits for whom. *)

\* What has been written says what its writer holds.
Mine(v, r) == v.row.operation = r.operation
Told(s, v) ==
  LET r == s.call IN
  /\ v.table = "manifests" => Mine(v, r) /\ v.row.artifact = r.artifact
  /\ v.table = "jobs" => Mine(v, r) /\ v.row.job = r.job
  /\ v.table = "receipts" => Mine(v, r) /\ v.row.persistence = r.persistence
  /\ v.table = "events" => Mine(v, r) /\ v.row.event \in Range(r.events)
  /\ v.table = "completions" => Mine(v, r) /\ v.row.workflow = r.workflow
  /\ v.table \in {"manifests", "jobs", "receipts"} =>
       r.kind = "project" /\ Holds(s, Identities(r))
  /\ v.table \in {"events", "completions"} =>
       r.kind = "complete" /\ Holds(s, Identities(r))
  /\ v.table = "heads" =>
       New(tables, "heads", v.row) \/ (Mine(v, r) /\ HeadLock(r.operation) \in s.locks)
  /\ v.table = "transitions" => Mine(v, r) /\ HeadLock(r.operation) \in s.locks

LEMMA WritersHold ==
  ASSUME PostgresInv, NEW d \in Callers, NEW v \in sessions[d].writes
  PROVE  Told(sessions[d], v)
<1> DEFINE s == sessions[d]
           r == s.call
<1>1. Fits(s, tables) /\ v \in s.writes
  BY SessionIs
<1>2. r.kind \in {"admit", "initialize", "transition", "project", "complete"} /\ KindFits(s, tables)
  BY <1>1, IdleFits, CallKinds DEF Fits, Returns
<1>3. \A t, row : W(t, row).table = t /\ W(t, row).row = row
  BY DEF W
<1> HIDE DEF s
<1>4. CASE r.kind = "admit"
  <2>1. v = W("operations", OperationRow(r))
    BY <1>1, <1>2, <1>4 DEF KindFits, AdmitFits, Answered, Asks
  <2> QED
    BY <1>3, <2>1 DEF Told, s
<1>5. CASE r.kind = "initialize"
  <2>1. v = W("heads", HeadRow(r)) /\ New(tables, "heads", HeadRow(r))
    BY <1>1, <1>2, <1>5 DEF KindFits, InitializeFits, Answered, Asks
  <2> QED
    BY <1>3, <2>1 DEF Told, s
<1>6. CASE r.kind = "transition"
  <2>1. /\ v \in TransitionWrites(s) /\ Sees(s, tables)
    BY <1>1, <1>2, <1>6
       DEF KindFits, TransitionFits, Answered, Asks, Wrote, TransitionWrites
  <2>2. /\ MovedRow(s.seen, r).operation = r.operation
        /\ TransitionRow(r, s.seen).operation = r.operation
    BY <2>1, MovedHead DEF Sees, PostgresInv, TablesFit, TransitionRow
  <2> QED
    BY <1>3, <2>1, <2>2 DEF Told, s, TransitionWrites, Mine, Sees
<1>7. CASE r.kind = "project"
  <2>1. v \in ProjectionWrites(r) /\ Holds(s, Identities(r))
    BY <1>1, <1>2, <1>7
       DEF KindFits, ProjectFits, Answered, Asks, Wrote, Locking, ProjectionWrites
  <2>2. /\ ManifestRow(r).operation = r.operation /\ ManifestRow(r).artifact = r.artifact
        /\ JobRow(r).operation = r.operation /\ JobRow(r).job = r.job
        /\ PersistenceRow(r).operation = r.operation /\ PersistenceRow(r).persistence = r.persistence
    BY DEF ManifestRow, JobRow, PersistenceRow
  <2> QED
    BY <1>3, <1>7, <2>1, <2>2 DEF Told, s, ProjectionWrites, Mine
<1>8. CASE r.kind = "complete"
  <2>1. v \in EndingWrites(r) /\ Holds(s, Identities(r))
    BY <1>1, <1>2, <1>8
       DEF KindFits, CompleteFits, Answered, Asks, Wrote, Locking, EndingWrites
  <2>2. CompletionRow(r).operation = r.operation /\ CompletionRow(r).workflow = r.workflow
    BY DEF CompletionRow
  <2>3. \A row \in EventRows(r) : row.operation = r.operation /\ row.event \in Range(r.events)
    BY DEF EventRows, Range
  <2> QED
    BY <1>3, <1>8, <2>1, <2>2, <2>3 DEF Told, s, EndingWrites, EventWrites, Mine
<1> QED
  BY <1>2, <1>4, <1>5, <1>6, <1>7, <1>8

\* A session that waits for another while it holds something is at its locks.
LEMMA HolderWaitsAtLock ==
  ASSUME PostgresInv, WaitsInv, NEW c \in Callers, NEW d \in Callers \ {c}, WaitsFor(c, d),
         sessions[c].locks # {} \/ sessions[c].writes # {}
  PROVE  At(c, "lock")
<1> SUFFICES ASSUME ~At(c, "lock") PROVE FALSE
  OBVIOUS
<1> DEFINE s == sessions[c]
           r == s.call
<1>1. Fits(s, tables) /\ LocksTaken(s)
  BY SessionIs DEF WaitsInv
<1>2. s.at \notin {"insert-operation", "insert-head", "select-own-head", "select-head", "lock"}
  BY <1>1, AdmitStatements, InitializeStatements, TransitionStatements DEF LocksTaken, At
<1>3. LocksAskedFor(c) = {}
  BY <1>2 DEF LocksAskedFor, At
<1>4. PICK w \in RowsAskedFor(c), v \in sessions[d].writes :
        v.table = w.table /\ SameKey(w.table, v.row, w.row)
  BY <1>3 DEF WaitsFor
<1>5. Told(sessions[d], v) /\ sessions[c].locks \cap sessions[d].locks = {}
  BY WritersHold DEF PostgresInv, LocksApart
<1>6. ASSUME s.at \in {"update-head", "insert-transition"} PROVE FALSE
  <2>1. Sees(s, tables)
    BY <1>1, <1>6, TransitionStatements
  <2>2. w.table \in {"heads", "transitions"} /\ w.row.operation = r.operation
        /\ (w.table = "heads" => w.row \in tables["heads"])
    <3>1. CASE s.at = "update-head"
      BY <1>4, <2>1, <3>1 DEF RowsAskedFor, At, Sees
    <3>2. CASE s.at = "insert-transition"
      BY <1>4, <3>2 DEF RowsAskedFor, At, TransitionRow, Call
    <3> QED
      BY <1>6, <3>1, <3>2
  <2>3. v.row.operation = r.operation
    BY <1>4, <2>2 DEF SameKey
  <2>4. CASE New(tables, "heads", v.row) /\ w.table = "heads"
    BY <1>4, <2>2, <2>4, KeySymmetric DEF New
  <2>5. CASE HeadLock(r.operation) \in sessions[d].locks
    BY <1>5, <2>1, <2>5 DEF Sees
  <2> QED
    BY <1>4, <1>5, <2>2, <2>3, <2>4, <2>5 DEF Told, Mine
<1>7. ASSUME s.at \in {"insert-manifest", "insert-job", "insert-receipt"} PROVE FALSE
  <2> DEFINE q == sessions[d].call
  <2>1. r.kind = "project" /\ Holds(s, Identities(r))
    BY <1>1, <1>7, ProjectStatements
  <2>2. \/ w.table = "manifests" /\ w.row = ManifestRow(r)
        \/ w.table = "jobs" /\ w.row = JobRow(r)
        \/ w.table = "receipts" /\ w.row = PersistenceRow(r)
    BY <1>4, <1>7 DEF RowsAskedFor, At, Call, JobRow, PersistenceRow
  <2>3. q.kind = "project" /\ Holds(sessions[d], Identities(q))
    BY <1>4, <1>5, <2>2 DEF Told
  <2>4. Identities(r) \cap Identities(q) = {}
    BY <2>1, <2>3, IdentitiesApart
  <2>5. /\ r.operation # q.operation /\ r.artifact # q.artifact /\ r.job # q.job
        /\ r.persistence # q.persistence
    BY <2>1, <2>3, <2>4 DEF Identities, ProjectionIdentities
  <2> QED
    BY <1>4, <1>5, <2>2, <2>5 DEF Told, Mine, SameKey, ManifestRow, JobRow, PersistenceRow
<1>8. ASSUME s.at \in {"insert-events", "insert-completion"} PROVE FALSE
  <2> DEFINE q == sessions[d].call
  <2>1. r.kind = "complete" /\ Holds(s, Identities(r))
    BY <1>1, <1>8, CompleteStatements
  <2>2. \/ w.table = "events" /\ w.row \in EventRows(r)
        \/ w.table = "completions" /\ w.row = CompletionRow(r)
    BY <1>4, <1>8 DEF RowsAskedFor, At, Call, CompletionRow
  <2>3. q.kind = "complete" /\ Holds(sessions[d], Identities(q))
    BY <1>4, <1>5, <2>2 DEF Told
  <2>4. Identities(r) \cap Identities(q) = {}
    BY <2>1, <2>3, IdentitiesApart
  <2>5. /\ r.operation # q.operation /\ r.workflow # q.workflow
        /\ Range(r.events) \cap Range(q.events) = {}
    BY <2>1, <2>3, <2>4 DEF Identities, WorkflowIdentities
  <2>6. CASE w.table = "events" /\ w.row \in EventRows(r)
    <3>1. w.row.operation = r.operation /\ w.row.event \in Range(r.events)
      BY <2>6 DEF EventRows, Range
    <3> QED
      BY <1>4, <1>5, <2>5, <2>6, <3>1 DEF Told, Mine, SameKey
  <2>7. CASE w.table = "completions" /\ w.row = CompletionRow(r)
    BY <1>4, <1>5, <2>5, <2>7 DEF Told, Mine, SameKey, CompletionRow
  <2> QED
    BY <2>2, <2>6, <2>7
<1>9. s.at \in {"update-head", "insert-transition", "insert-manifest", "insert-job",
                "insert-receipt", "insert-events", "insert-completion"}
  BY <1>2, <1>4 DEF RowsAskedFor, At
<1> QED
  BY <1>6, <1>7, <1>8, <1>9

\* No two identities have one hash.
HashesApart == \A i, j \in Nat : HashText(i) = HashText(j) => i = j

\* If that other one waits too, it holds what the first asks for, and asks for
\* something above it.
LEMMA WaitsAscend ==
  ASSUME HashesApart, PostgresInv, WaitsInv, NEW c \in Callers, NEW d \in Callers \ {c}, WaitsFor(c, d),
         NEW e \in Callers \ {d}, WaitsFor(d, e)
  PROVE  /\ At(c, "lock") /\ At(d, "lock")
         /\ \E id \in Due(sessions[c].todo) : \A other \in Due(sessions[d].todo) : id < other
<1>1. sessions[d].locks # {} \/ sessions[d].writes # {}
  BY DEF WaitsFor
<1>2. At(d, "lock")
  BY <1>1, HolderWaitsAtLock
<1>3. /\ Locking(sessions[d]) /\ LocksTaken(sessions[d])
      /\ sessions[d].call.kind \in {"project", "complete"}
  BY <1>2, SessionIs, LockStatements DEF At, WaitsInv
<1>4. PICK lock \in LocksAskedFor(c) : lock \in sessions[d].locks
  BY <1>3 DEF WaitsFor, Locking, Asks
<1>5. PICK id \in Identities(sessions[d].call) :
        /\ lock = <<sessions[d].call.kind, HashText(id)>>
        /\ \A other \in sessions[d].todo : id < other
  BY <1>2, <1>3, <1>4 DEF LocksTaken, At
<1>6. lock[1] \in {"project", "complete"} /\ lock[2] = HashText(id)
  BY <1>3, <1>5
<1>7. At(c, "lock")
  BY <1>4, <1>6 DEF LocksAskedFor, HeadLock
<1>8. PICK mine \in Due(sessions[c].todo) : lock[2] = HashText(mine)
  BY <1>4, <1>7 DEF LocksAskedFor, At
<1>9. Identities(sessions[d].call) \subseteq Nat /\ sessions[c].todo \subseteq Nat
  BY <1>2, <1>7, SessionIs, LockStatements, IdentitiesAreNumbers DEF At, Locking
<1>10. mine = id
  BY <1>5, <1>6, <1>8, <1>9 DEF HashesApart, Due
<1> QED
  BY <1>2, <1>5, <1>7, <1>8, <1>10 DEF Due

\* Of finitely many, some value is the greatest.
Lesser == {pair \in Nat \X Nat : pair[1] < pair[2]}
LEMMA LesserWellFounded == IsWellFoundedOn(Lesser, Nat)
  BY NatLessThanWellFounded DEF OpToRel, Lesser

LEMMA SomeHighest ==
  ASSUME NEW S, IsFiniteSet(S), S # {}, NEW f, \A c \in S : f[c] \in Nat
  PROVE  \E c \in S : \A d \in S : f[d] <= f[c]
<1> DEFINE Bare(T) == T # {} /\ \A c \in T : \E d \in T : ~(f[d] <= f[c])
           sizes == {n \in Nat : \E T \in SUBSET S : Cardinality(T) = n /\ Bare(T)}
<1>1. \A T \in SUBSET S : IsFiniteSet(T) /\ Cardinality(T) \in Nat
  BY FS_Subset, FS_CardinalityType
<1>2. SUFFICES ASSUME sizes # {} PROVE FALSE
  BY <1>1
<1>3. PICK n \in sizes : \A m \in sizes : ~(<<m, n>> \in Lesser)
  <2>1. sizes \subseteq Nat
    OBVIOUS
  <2> HIDE DEF sizes
  <2> QED
    BY <1>2, <2>1, LesserWellFounded, WFMin, Zenon
<1>4. PICK T \in SUBSET S : Cardinality(T) = n /\ Bare(T)
  OBVIOUS
<1>5. PICK c \in T : TRUE
  BY <1>4
<1> DEFINE rest == T \ {c}
<1>6. Cardinality(rest) = n - 1 /\ Cardinality(rest) \in Nat
  BY <1>1, <1>4, FS_RemoveElement
<1>7. n - 1 \notin sizes
  <2>1. n \in Nat /\ n - 1 \in Nat /\ n - 1 < n
    BY <1>1, <1>4, <1>6
  <2>2. <<n - 1, n>> \in Lesser
    BY <2>1 DEF Lesser
  <2> HIDE DEF sizes
  <2> QED
    BY <1>3, <2>2
<1>8. ~Bare(rest)
  BY <1>6, <1>7
<1>9. rest # {}
  BY <1>4, <1>5
<1>10. PICK d \in rest : \A e \in rest : f[e] <= f[d]
  BY <1>8, <1>9
<1>11. PICK e \in T : ~(f[e] <= f[d])
  BY <1>4, <1>10
<1>12. e = c /\ f[d] < f[c]
  BY <1>5, <1>10, <1>11
<1>13. \A x \in T : f[x] <= f[c]
  BY <1>5, <1>10, <1>12
<1> QED
  BY <1>4, <1>5, <1>13

LEMMA NoCircle == ASSUME HashesApart, PostgresInv, WaitsInv PROVE NoCircleOfWaits
<1> SUFFICES ASSUME NEW S \in SUBSET Callers, IsFiniteSet(S), S # {},
                    \A c \in S : \E d \in S \ {c} : WaitsFor(c, d)
             PROVE  FALSE
  BY DEF NoCircleOfWaits
<1> DEFINE asked == [c \in S |-> CHOOSE id : id \in Due(sessions[c].todo)]
<1>1. ASSUME NEW c \in S, NEW d \in S \ {c}, WaitsFor(c, d)
      PROVE  asked[c] \in Nat /\ asked[d] \in Nat /\ asked[c] < asked[d]
  <2>1. PICK e \in S \ {d} : WaitsFor(d, e)
    OBVIOUS
  <2>2. PICK f \in S \ {e} : WaitsFor(e, f)
    OBVIOUS
  <2>3. PICK id \in Due(sessions[c].todo) : \A other \in Due(sessions[d].todo) : id < other
    BY <1>1, <2>1, WaitsAscend
  <2>4. PICK next \in Due(sessions[d].todo) : TRUE
    BY <2>1, <2>2, WaitsAscend
  <2>5. At(c, "lock") /\ At(d, "lock")
    BY <1>1, <2>1, WaitsAscend
  <2>6. sessions[c].todo \subseteq Nat /\ sessions[d].todo \subseteq Nat
    BY <2>5, SessionIs, LockStatements, IdentitiesAreNumbers DEF At, Locking
  <2>7. \A i, j \in Due(sessions[c].todo) : i = j
    BY <2>6 DEF Due
  <2>8. asked[c] = id /\ asked[d] \in Due(sessions[d].todo)
    BY <2>3, <2>4, <2>7
  <2> QED
    BY <2>3, <2>6, <2>8 DEF Due
<1>2. \A c \in S : asked[c] \in Nat
  BY <1>1
<1> HIDE DEF asked
<1>3. PICK c \in S : \A d \in S : asked[d] <= asked[c]
  BY <1>2, SomeHighest
<1>4. PICK d \in S \ {c} : WaitsFor(c, d)
  OBVIOUS
<1> QED
  BY <1>1, <1>2, <1>3, <1>4

\* However many sessions commit projections, end workflows, admit, initialize and
\* move heads at once, and whatever identities of theirs overlap, no circle of
\* them waits for each other, so that PostgreSQL has none to end with a deadlock
\* (pdfExportObservabilityPostgresRepository.ts:276, the sorted identities), if
\* their hashes differ.
THEOREM PostgresNoCircleOfWaits == HashesApart => (Spec => []NoCircleOfWaits)
<1> SUFFICES ASSUME HashesApart PROVE Spec => []NoCircleOfWaits
  OBVIOUS
<1>1. PostgresInv /\ WaitsInv => NoCircleOfWaits
  BY NoCircle
<1> QED
  BY <1>1, PostgresInvariant, WaitsInit, WaitsNext, PTL DEF Spec

-----------------------------------------------------------------------------
(* The calls are served as if each of them were one step (PdfExportRecords). *)

\* What PdfExportRecords sees of a session.
View(s) ==
  [call |-> s.call, answer |-> IF s.answer.status # "none" /\ s.writes = {} THEN s.answer
                               ELSE Says("none", 0)]
Views == [c \in Callers |-> View(sessions[c])]

LEMMA MappedCalls ==
  [c \in Callers |-> [call |-> Call(c),
     answer |-> IF Decided(c) THEN sessions[c].answer ELSE Says("none", 0)]] = Views
  BY DEF Views, View, Call, Decided

Receipts(T) ==
  {ReceiptRow(p[1], p[2], p[3]) :
     p \in {q \in T["receipts"] \X T["manifests"] \X T["jobs"] :
              q[1].operation = q[2].operation /\ q[1].operation = q[3].operation}}
Completions(T) ==
  {[operation |-> x.operation, workflow |-> x.workflow, facts |-> x.facts,
    events |-> {e.event : e \in {y \in T["events"] : y.operation = x.operation}}]
     : x \in T["completions"]}

LEMMA MappedRows == ReceiptRows = Receipts(tables) /\ CompletionRows = Completions(tables)
  BY DEF ReceiptRows, Receipts, CompletionRows, Completions, Of

\* The same after a step.
LEMMA MappedNext ==
  /\ (ReceiptRows)' = Receipts(tables') /\ (CompletionRows)' = Completions(tables')
  /\ ([c \in Callers |-> [call |-> Call(c),
        answer |-> IF Decided(c) THEN sessions[c].answer ELSE Says("none", 0)]])' = Views'
  BY DEF ReceiptRows, Receipts, CompletionRows, Completions, Of, Views, View, Call, Decided

\* A step that PdfExportRecords does not see.
LEMMA QuietStep ==
  ASSUME PostgresInv, NEW c \in Callers, NEW k, sessions' = [sessions EXCEPT ![c] = k],
         View(k) = View(sessions[c]), tables' = tables, scenario' = scenario, made' = made
  PROVE  UNCHANGED Records!recordVars
<1>1. Views' = Views
  BY DEF Views, PostgresInv
<1>2. (ReceiptRows)' = ReceiptRows /\ (CompletionRows)' = CompletionRows
  BY MappedRows, MappedNext
<1> QED
  BY <1>1, <1>2, MappedCalls, MappedNext DEF Records!recordVars, Records!records

LEMMA ViewFields ==
  ASSUME NEW s
  PROVE  /\ View(s).call = s.call
         /\ View(s).answer = IF s.answer.status # "none" /\ s.writes = {} THEN s.answer
                             ELSE Says("none", 0)
         /\ View(s) = [call |-> View(s).call, answer |-> View(s).answer]
  BY DEF View

\* A step in which PdfExportRecords sees a call answered.
LEMMA AnswerStep ==
  ASSUME PostgresInv, NEW c \in Callers, NEW k, sessions' = [sessions EXCEPT ![c] = k],
         sessions[c].call \in Calls, View(sessions[c]).answer = Says("none", 0),
         k.call = sessions[c].call, k.writes = {}, NEW status, NEW n, status # "none",
         k.answer = Says(status, n)
  PROVE  Records!Open(c) /\ Records!Answer(c, status, n)
<1>1. /\ View(k).call = View(sessions[c]).call /\ View(k).answer = Says(status, n)
      /\ View(sessions[c]).call = sessions[c].call
  BY ViewFields, SaysFields
<1>2. Views[c] = View(sessions[c]) /\ Views'[c] = View(k)
  BY DEF Views, PostgresInv
<1>3. Views' = [Views EXCEPT ![c].answer = Says(status, n)]
  <2> DEFINE v == [View(sessions[c]) EXCEPT !.answer = Says(status, n)]
  <2>1. View(k) = v
    BY <1>1 DEF View
  <2> HIDE DEF v
  <2>2. Views' = [Views EXCEPT ![c] = v]
    BY <2>1 DEF Views, PostgresInv
  <2> QED
    BY <1>2, <2>2 DEF v
<1>4. Records!Open(c)
  BY <1>1, <1>2, MappedCalls, CallKinds DEF Records!Open, Records!Asked, Records!NoAnswer, Records!Says, Says
<1>5. Records!Answer(c, status, n)
  BY <1>3, MappedCalls, MappedNext DEF Records!Answer, Records!Says, Says
<1> QED
  BY <1>4, <1>5

LEMMA UndecidedView ==
  ASSUME NEW s, Undecided(s) PROVE View(s).answer = Says("none", 0)
  BY ViewFields, SaysFields DEF Undecided

LEMMA RecordsKept ==
  ASSUME tables' = tables PROVE UNCHANGED Records!records
  BY MappedRows, MappedNext DEF Records!records

LEMMA ConcludeAnswers ==
  ASSUME PostgresInv, NEW c \in Callers, Shape(sessions[c]), sessions[c].call \in Calls,
         Undecided(sessions[c]), sessions[c].writes = {}, NEW status, NEW n, status # "none",
         Conclude(c, status, n)
  PROVE  /\ Records!Open(c) /\ Records!Answer(c, status, n)
         /\ UNCHANGED Records!records /\ scenario' = scenario /\ made' = made
<1> DEFINE k == [sessions[c] EXCEPT !.at = "commit", !.answer = Says(status, n)]
<1>1. k = [sessions[c] EXCEPT !.at = "commit", !.answer = Says(status, n)]
  OBVIOUS
<1>2. /\ sessions' = [sessions EXCEPT ![c] = k] /\ tables' = tables
      /\ scenario' = scenario /\ made' = made
  BY DEF Conclude, Unchanged
<1> HIDE DEF k
<1>3. k.call = sessions[c].call /\ k.writes = {} /\ k.answer = Says(status, n)
  BY <1>1 DEF Shape
<1>4. Records!Open(c) /\ Records!Answer(c, status, n)
  BY <1>2, <1>3, UndecidedView, AnswerStep
<1> QED
  BY <1>2, <1>4, RecordsKept

LEMMA ProceedQuiet ==
  ASSUME PostgresInv, NEW c \in Callers, Shape(sessions[c]), NEW statement, Proceed(c, statement)
  PROVE  UNCHANGED Records!recordVars
<1> DEFINE k == [sessions[c] EXCEPT !.at = statement]
<1>1. k = [sessions[c] EXCEPT !.at = statement]
  OBVIOUS
<1>2. /\ sessions' = [sessions EXCEPT ![c] = k] /\ tables' = tables
      /\ scenario' = scenario /\ made' = made
  BY DEF Proceed, Unchanged
<1> HIDE DEF k
<1>3. k.call = sessions[c].call /\ k.writes = sessions[c].writes /\ k.answer = sessions[c].answer
  BY <1>1 DEF Shape
<1>4. View(k) = View(sessions[c])
  BY <1>3 DEF View
<1> QED
  BY <1>2, <1>4, QuietStep

\* Writing a row is not seen before its commit.
LEMMA WriteQuiet ==
  ASSUME PostgresInv, NEW c \in Callers, Undecided(sessions[c]), NEW k,
         sessions' = [sessions EXCEPT ![c] = k], tables' = tables, Unchanged,
         k.call = sessions[c].call, k.writes # {} \/ k.answer = sessions[c].answer
  PROVE  UNCHANGED Records!recordVars
<1>1. View(k).answer = Says("none", 0)
  BY ViewFields, SaysFields DEF Undecided
<1>2. View(k) = View(sessions[c])
  BY <1>1, UndecidedView, ViewFields
<1> QED
  BY <1>2, QuietStep DEF Unchanged

\* What serving a call takes.
LEMMA ServeStep ==
  ASSUME PostgresInv, NEW c \in Callers, Records!Open(c), scenario' = scenario, made' = made,
         \/ sessions[c].call.kind = "admit" /\ Records!Admit(c, sessions[c].call)
         \/ sessions[c].call.kind = "initialize" /\ Records!Initialize(c, sessions[c].call)
         \/ sessions[c].call.kind = "transition" /\ Records!Transition(c, sessions[c].call)
         \/ sessions[c].call.kind = "project" /\ Records!Project(c, sessions[c].call)
         \/ sessions[c].call.kind = "complete" /\ Records!Complete(c, sessions[c].call)
  PROVE  Records!Serve(c)
<1>1. Views[c].call = sessions[c].call
  BY ViewFields DEF Views
<1> QED
  BY <1>1, MappedCalls DEF Records!Serve

Serves(c) == Records!Serve(c) \/ UNCHANGED Records!recordVars

LEMMA InsertOperationServes ==
  ASSUME PostgresInv, NEW c \in Callers, InsertOperation(c)
  PROVE  UNCHANGED Records!recordVars
<1> DEFINE row == OperationRow(Call(c))
<1>1. Shape(sessions[c]) /\ Undecided(sessions[c])
  BY SessionIs, AdmitStatements DEF InsertOperation, At
<1>2. CASE Retained("operations", row)
  BY <1>1, <1>2, ProceedQuiet DEF InsertOperation
<1>3. CASE ~Retained("operations", row)
  <2> DEFINE k == [sessions[c] EXCEPT !.at = "commit", !.answer = Says("created", 0),
                   !.writes = {W("operations", row)}]
  <2>1. sessions' = [sessions EXCEPT ![c] = k] /\ tables' = tables /\ Unchanged
    BY <1>3 DEF InsertOperation, W
  <2>2. k = [sessions[c] EXCEPT !.at = "commit", !.answer = Says("created", 0),
             !.writes = {W("operations", row)}]
    OBVIOUS
  <2> HIDE DEF k, row
  <2>3. k.call = sessions[c].call /\ k.writes # {}
    BY <1>1, <2>2 DEF Shape
  <2> QED
    BY <1>1, <2>1, <2>3, WriteQuiet
<1> QED
  BY <1>2, <1>3

LEMMA SelectOwnerServes ==
  ASSUME PostgresInv, NEW c \in Callers, SelectOwner(c)
  PROVE  Records!Serve(c)
<1> DEFINE r == sessions[c].call
<1>1. /\ Shape(sessions[c]) /\ r \in Calls /\ r.kind = "admit" /\ Undecided(sessions[c])
      /\ sessions[c].writes = {} /\ ~New(tables, "operations", OperationRow(r))
  BY SessionIs, AdmitStatements DEF SelectOwner, At
<1>2. CASE \E o \in tables["operations"] :
             /\ o.key = r.key
             /\ Conclude(c, IF o.payload = r.payload THEN "idempotent-replay" ELSE "conflict", 0)
  <2>1. PICK o \in tables["operations"] :
             /\ o.key = r.key
             /\ Conclude(c, IF o.payload = r.payload THEN "idempotent-replay" ELSE "conflict", 0)
    BY <1>2
  <2> DEFINE status == IF o.payload = r.payload THEN "idempotent-replay" ELSE "conflict"
  <2>2. status # "none" /\ Conclude(c, status, 0)
    BY <2>1
  <2> HIDE DEF status
  <2>3. /\ Records!Open(c) /\ Records!Answer(c, status, 0)
        /\ UNCHANGED Records!records /\ scenario' = scenario /\ made' = made
    BY <1>1, <2>2, ConcludeAnswers
  <2>4. Records!Admit(c, r)
    BY <2>1, <2>3 DEF Records!Admit, Records!records, status
  <2> QED
    BY <1>1, <2>3, <2>4, ServeStep
<1>3. CASE (\A o \in tables["operations"] : o.key # r.key) /\ Conclude(c, "conflict", 0)
  <2>1. /\ Records!Open(c) /\ Records!Answer(c, "conflict", 0)
        /\ UNCHANGED Records!records /\ scenario' = scenario /\ made' = made
    BY <1>1, <1>3, ConcludeAnswers
  <2>2. \E o \in tables["operations"] : o.operation = r.operation
    BY <1>1, <1>3 DEF New, SameKey, OperationRow
  <2>3. Records!Admit(c, r)
    BY <1>3, <2>1, <2>2 DEF Records!Admit, Records!records, Records!Of
  <2> QED
    BY <1>1, <2>1, <2>3, ServeStep
<1> QED
  BY <1>2, <1>3 DEF SelectOwner, Call

LEMMA InsertHeadServes ==
  ASSUME PostgresInv, NEW c \in Callers, InsertHead(c)
  PROVE  UNCHANGED Records!recordVars
<1> DEFINE row == HeadRow(Call(c))
<1>1. Shape(sessions[c]) /\ Undecided(sessions[c])
  BY SessionIs, InitializeStatements DEF InsertHead, At
<1>2. CASE Retained("heads", row)
  BY <1>1, <1>2, ProceedQuiet DEF InsertHead
<1>3. CASE ~Retained("heads", row)
  <2> DEFINE k == [sessions[c] EXCEPT !.at = "commit", !.answer = Says("created", 0),
                   !.writes = {W("heads", row)}]
  <2>1. sessions' = [sessions EXCEPT ![c] = k] /\ tables' = tables /\ Unchanged
    BY <1>3 DEF InsertHead, W
  <2>2. k = [sessions[c] EXCEPT !.at = "commit", !.answer = Says("created", 0),
             !.writes = {W("heads", row)}]
    OBVIOUS
  <2> HIDE DEF k, row
  <2>3. k.call = sessions[c].call /\ k.writes # {}
    BY <1>1, <2>2 DEF Shape
  <2> QED
    BY <1>1, <2>1, <2>3, WriteQuiet
<1> QED
  BY <1>2, <1>3

\* A locked head, read.
LEMMA ReadLockedIs ==
  ASSUME NEW c \in Callers, Shape(sessions[c]), sessions[c].writes = {},
         NEW h, NEW next, NEW answer, ReadLocked(c, h, next, answer)
  PROVE  /\ tables' = tables /\ scenario' = scenario /\ made' = made /\ Unchanged
         /\ \E k : /\ sessions' = [sessions EXCEPT ![c] = k]
                   /\ k.call = sessions[c].call /\ k.writes = {} /\ k.answer = answer
<1> DEFINE locks == sessions[c].locks \cup {HeadLock(h.operation)}
           k == [sessions[c] EXCEPT !.at = next, !.seen = h, !.answer = answer, !.locks = locks]
<1>1. /\ sessions' = [sessions EXCEPT ![c] = k]
      /\ tables' = tables /\ scenario' = scenario /\ made' = made /\ Unchanged
  BY DEF ReadLocked, Unchanged
<1>2. k = [sessions[c] EXCEPT !.at = next, !.seen = h, !.answer = answer, !.locks = locks]
  OBVIOUS
<1> HIDE DEF k, locks
<1>3. k.call = sessions[c].call /\ k.writes = {} /\ k.answer = answer
  BY <1>2 DEF Shape
<1> QED
  BY <1>1, <1>3

LEMMA SelectOwnHeadServes ==
  ASSUME PostgresInv, NEW c \in Callers, SelectOwnHead(c)
  PROVE  Records!Serve(c)
<1> DEFINE r == sessions[c].call
<1>1. /\ Shape(sessions[c]) /\ r \in Calls /\ r.kind = "initialize" /\ Undecided(sessions[c])
      /\ sessions[c].writes = {}
  BY SessionIs, InitializeStatements DEF SelectOwnHead, At
<1>2. PICK h \in tables["heads"] :
        /\ h.operation = r.operation
        /\ ReadLocked(c, h, "commit", IF h.binding = r.binding
             THEN Says("idempotent-replay", h.revision) ELSE Says("conflict", 0))
  BY DEF SelectOwnHead, Of, Call
<1>3. ASSUME NEW status, NEW n, status # "none", ReadLocked(c, h, "commit", Says(status, n))
      PROVE  /\ Records!Open(c) /\ Records!Answer(c, status, n)
             /\ UNCHANGED Records!records /\ scenario' = scenario /\ made' = made
  <2>1. PICK k : /\ sessions' = [sessions EXCEPT ![c] = k]
                 /\ k.call = sessions[c].call /\ k.writes = {} /\ k.answer = Says(status, n)
    BY <1>1, <1>3, ReadLockedIs
  <2>2. tables' = tables /\ scenario' = scenario /\ made' = made
    BY <1>1, <1>3, ReadLockedIs
  <2>3. View(sessions[c]).answer = Says("none", 0)
    BY <1>1, UndecidedView
  <2>4. Records!Open(c) /\ Records!Answer(c, status, n)
    BY <1>1, <1>3, <2>1, <2>3, AnswerStep
  <2> QED
    BY <2>2, <2>4, RecordsKept
<1>4. h \in Records!Of(tables["heads"], r.operation)
  BY <1>2 DEF Records!Of
<1>5. CASE h.binding = r.binding
  <2>1. ReadLocked(c, h, "commit", Says("idempotent-replay", h.revision))
    BY <1>2, <1>5
  <2>2. /\ Records!Open(c) /\ Records!Answer(c, "idempotent-replay", h.revision)
        /\ UNCHANGED Records!records /\ scenario' = scenario /\ made' = made
    BY <1>3, <2>1
  <2>3. Records!Initialize(c, r)
    BY <1>4, <1>5, <2>2 DEF Records!Initialize, Records!records
  <2> QED
    BY <1>1, <2>2, <2>3, ServeStep
<1>6. CASE h.binding # r.binding
  <2>1. ReadLocked(c, h, "commit", Says("conflict", 0))
    BY <1>2, <1>6
  <2>2. /\ Records!Open(c) /\ Records!Answer(c, "conflict", 0)
        /\ UNCHANGED Records!records /\ scenario' = scenario /\ made' = made
    BY <1>3, <2>1
  <2>3. Records!Initialize(c, r)
    BY <1>4, <1>6, <2>2 DEF Records!Initialize, Records!records
  <2> QED
    BY <1>1, <2>2, <2>3, ServeStep
<1> QED
  BY <1>5, <1>6

LEMMA SelectHeadServes ==
  ASSUME PostgresInv, NEW c \in Callers, SelectHead(c)
  PROVE  Serves(c)
<1> DEFINE r == sessions[c].call
<1>1. /\ Shape(sessions[c]) /\ r \in Calls /\ r.kind = "transition" /\ Undecided(sessions[c])
      /\ sessions[c].writes = {}
  BY SessionIs, TransitionStatements DEF SelectHead, At
<1>2. CASE Of("heads", r.operation) = {} /\ Conclude(c, "not-found", 0)
  <2>1. /\ Records!Open(c) /\ Records!Answer(c, "not-found", 0)
        /\ UNCHANGED Records!records /\ scenario' = scenario /\ made' = made
    BY <1>1, <1>2, ConcludeAnswers
  <2>2. Records!Transition(c, r)
    BY <1>2, <2>1 DEF Records!Transition, Records!records, Records!Of, Of
  <2> QED
    BY <1>1, <2>1, <2>2, ServeStep DEF Serves
<1>3. ASSUME NEW h, ReadLocked(c, h, "select-transition", sessions[c].answer)
      PROVE  UNCHANGED Records!recordVars
  <2>1. PICK k : /\ sessions' = [sessions EXCEPT ![c] = k]
                 /\ k.call = r /\ k.writes = {} /\ k.answer = sessions[c].answer
    BY <1>1, <1>3, ReadLockedIs
  <2>2. tables' = tables /\ Unchanged
    BY <1>1, <1>3, ReadLockedIs
  <2> QED
    BY <1>1, <2>1, <2>2, WriteQuiet
<1> QED
  BY <1>2, <1>3 DEF SelectHead, Serves, Call

LEMMA SelectTransitionServes ==
  ASSUME PostgresInv, NEW c \in Callers, SelectTransition(c)
  PROVE  Serves(c)
<1> DEFINE r == sessions[c].call
           h == sessions[c].seen
           known == {j \in tables["transitions"] :
                       j.operation = r.operation /\ j.transition = r.transition}
<1>1. /\ Shape(sessions[c]) /\ r \in Calls /\ r.kind = "transition" /\ Undecided(sessions[c])
      /\ sessions[c].writes = {} /\ h \in tables["heads"] /\ h.operation = r.operation
  BY SessionIs, TransitionStatements DEF SelectTransition, At, Sees
<1>2. \/ \E j \in known :
           IF j.call = r THEN Conclude(c, "idempotent-replay", j.to)
           ELSE Conclude(c, "conflict", h.revision)
      \/ known = {} /\ h.revision # r.revision /\ Conclude(c, "stale", h.revision)
      \/ known = {} /\ h.revision = r.revision /\ h.stopped /\ Conclude(c, "blocked", h.revision)
      \/ Proceed(c, "update-head")
  BY DEF SelectTransition, Of, Call
<1>3. Records!Replayable(r) = known
  BY DEF Records!Replayable, Records!Of
<1>4. ASSUME NEW status, NEW n, status # "none", Conclude(c, status, n)
      PROVE  /\ Records!Open(c) /\ Records!Answer(c, status, n)
             /\ UNCHANGED Records!records /\ scenario' = scenario /\ made' = made
  BY <1>1, <1>4, ConcludeAnswers
<1>5. ASSUME NEW j \in known, j.call = r, Conclude(c, "idempotent-replay", j.to)
      PROVE  Records!Serve(c)
  <2>1. Records!Transition(c, r)
    BY <1>1, <1>3, <1>4, <1>5 DEF Records!Transition, Records!records, Records!Of
  <2> QED
    BY <1>1, <1>4, <1>5, <2>1, ServeStep
<1>6. ASSUME NEW j \in known, j.call # r, Conclude(c, "conflict", h.revision)
      PROVE  Records!Serve(c)
  <2>1. Records!Transition(c, r)
    BY <1>1, <1>3, <1>4, <1>6 DEF Records!Transition, Records!records, Records!Of
  <2> QED
    BY <1>1, <1>4, <1>6, <2>1, ServeStep
<1>7. CASE known = {} /\ h.revision # r.revision /\ Conclude(c, "stale", h.revision)
  <2>1. Records!Transition(c, r)
    BY <1>1, <1>3, <1>4, <1>7 DEF Records!Transition, Records!records, Records!Of
  <2> QED
    BY <1>1, <1>4, <1>7, <2>1, ServeStep DEF Serves
<1>8. CASE known = {} /\ h.revision = r.revision /\ h.stopped /\ Conclude(c, "blocked", h.revision)
  <2>1. Records!Transition(c, r)
    BY <1>1, <1>3, <1>4, <1>8 DEF Records!Transition, Records!records, Records!Of
  <2> QED
    BY <1>1, <1>4, <1>8, <2>1, ServeStep DEF Serves
<1>9. CASE Proceed(c, "update-head")
  BY <1>1, <1>9, ProceedQuiet DEF Serves
<1> QED
  BY <1>2, <1>5, <1>6, <1>7, <1>8, <1>9 DEF Serves

LEMMA UpdateHeadServes ==
  ASSUME PostgresInv, NEW c \in Callers, UpdateHead(c)
  PROVE  UNCHANGED Records!recordVars
<1> DEFINE moved == MovedRow(sessions[c].seen, sessions[c].call)
           writes == sessions[c].writes \cup {W("heads", moved)}
           k == [sessions[c] EXCEPT !.at = "insert-transition", !.writes = writes]
<1>1. /\ Shape(sessions[c]) /\ Undecided(sessions[c]) /\ sessions[c].seen \in tables["heads"]
  BY SessionIs, TransitionStatements DEF UpdateHead, At, Sees
<1>2. Write(c, "heads", moved, "insert-transition")
  BY <1>1 DEF UpdateHead, MovedRow, Call
<1> HIDE DEF moved
<1>3. sessions' = [sessions EXCEPT ![c] = k] /\ tables' = tables /\ Unchanged
  BY <1>2 DEF Write, W
<1>4. k = [sessions[c] EXCEPT !.at = "insert-transition", !.writes = writes] /\ writes # {}
  OBVIOUS
<1> HIDE DEF k, writes
<1>5. k.call = sessions[c].call /\ k.writes # {}
  BY <1>1, <1>4 DEF Shape
<1> QED
  BY <1>1, <1>3, <1>5, WriteQuiet

LEMMA InsertTransitionServes ==
  ASSUME PostgresInv, NEW c \in Callers, InsertTransition(c)
  PROVE  UNCHANGED Records!recordVars
<1> DEFINE row == TransitionRow(Call(c), sessions[c].seen)
           writes == sessions[c].writes \cup {W("transitions", row)}
           k == [sessions[c] EXCEPT !.at = "commit", !.answer = Says("applied", row.to),
                 !.writes = writes]
<1>1. Shape(sessions[c]) /\ Undecided(sessions[c]) /\ Fresh(sessions[c], tables)
  BY SessionIs, TransitionStatements DEF InsertTransition, At
<1>2. row.operation = sessions[c].call.operation /\ row.transition = sessions[c].call.transition
  BY DEF TransitionRow, Call
<1>3. ~Retained("transitions", row)
  BY <1>1, <1>2 DEF Retained, Fresh, SameKey
<1>4. sessions' = [sessions EXCEPT ![c] = k] /\ tables' = tables /\ Unchanged
  BY <1>3 DEF InsertTransition, W
<1>5. /\ k = [sessions[c] EXCEPT !.at = "commit", !.answer = Says("applied", row.to),
              !.writes = writes]
      /\ writes # {}
  OBVIOUS
<1> HIDE DEF k, writes, row
<1>6. k.call = sessions[c].call /\ k.writes # {}
  BY <1>1, <1>5 DEF Shape
<1> QED
  BY <1>1, <1>4, <1>6, WriteQuiet

LEMMA LockServes ==
  ASSUME PostgresInv, NEW c \in Callers, Lock(c)
  PROVE  UNCHANGED Records!recordVars
<1>1. Shape(sessions[c]) /\ Undecided(sessions[c])
  BY SessionIs, LockStatements DEF Lock, At, Locking, Asks
<1>2. PICK id \in sessions[c].todo :
        /\ tables' = tables /\ Unchanged
        /\ sessions' = [sessions EXCEPT ![c].locks = @ \cup {<<Call(c).kind, HashText(id)>>},
             ![c].todo = sessions[c].todo \ {id},
             ![c].at = IF sessions[c].todo \ {id} # {} THEN "lock"
                       ELSE IF Call(c).kind = "project" THEN "select-persistence"
                       ELSE "select-workflow"]
  BY DEF Lock, Due
<1> DEFINE left == sessions[c].todo \ {id}
           locks == sessions[c].locks \cup {<<Call(c).kind, HashText(id)>>}
           next == IF left # {} THEN "lock"
                   ELSE IF Call(c).kind = "project" THEN "select-persistence"
                   ELSE "select-workflow"
           k == [sessions[c] EXCEPT !.locks = locks, !.todo = left, !.at = next]
<1>3. sessions' = [sessions EXCEPT ![c] = k]
  BY <1>2
<1>4. k = [sessions[c] EXCEPT !.locks = locks, !.todo = left, !.at = next]
  OBVIOUS
<1> HIDE DEF k, next, locks, left
<1>5. k.call = sessions[c].call /\ k.answer = sessions[c].answer
  BY <1>1, <1>4 DEF Shape
<1> QED
  BY <1>1, <1>2, <1>3, <1>5, WriteQuiet

\* An INSERT of a new row.
LEMMA InsertQuiet ==
  ASSUME PostgresInv, NEW c \in Callers, Shape(sessions[c]), Undecided(sessions[c]),
         NEW t, NEW row, NEW next, Insert(c, t, row, next), New(tables, t, row)
  PROVE  UNCHANGED Records!recordVars
<1> DEFINE writes == sessions[c].writes \cup {W(t, row)}
           k == [sessions[c] EXCEPT !.at = next, !.writes = writes]
<1>1. Write(c, t, row, next)
  BY DEF Insert, New, Retained
<1>2. sessions' = [sessions EXCEPT ![c] = k] /\ tables' = tables /\ Unchanged
  BY <1>1 DEF Write, W
<1>3. k = [sessions[c] EXCEPT !.at = next, !.writes = writes] /\ writes # {}
  OBVIOUS
<1> HIDE DEF k, writes
<1>4. k.call = sessions[c].call /\ k.writes # {}
  BY <1>3 DEF Shape
<1> QED
  BY <1>2, <1>4, WriteQuiet

LEMMA ProjectInsertsServe ==
  ASSUME PostgresInv, NEW c \in Callers, InsertManifest(c) \/ InsertJob(c) \/ InsertReceipt(c)
  PROVE  UNCHANGED Records!recordVars
<1> DEFINE r == sessions[c].call
<1>1. Shape(sessions[c]) /\ Undecided(sessions[c]) /\ ProjectionFree(r, tables)
  BY SessionIs, ProjectStatements DEF InsertManifest, InsertJob, InsertReceipt, At
<1>2. /\ New(tables, "manifests", ManifestRow(r)) /\ New(tables, "jobs", JobRow(r))
      /\ New(tables, "receipts", PersistenceRow(r))
  BY <1>1, ProjectionNew DEF PostgresInv
<1>3. \/ Insert(c, "manifests", ManifestRow(r), "insert-job")
      \/ Insert(c, "jobs", JobRow(r), "insert-receipt")
      \/ Insert(c, "receipts", PersistenceRow(r), "commit")
  BY DEF InsertManifest, InsertJob, InsertReceipt, JobRow, PersistenceRow, Call
<1> QED
  BY <1>1, <1>2, <1>3, InsertQuiet

LEMMA InsertCompletionServes ==
  ASSUME PostgresInv, NEW c \in Callers, InsertCompletion(c)
  PROVE  UNCHANGED Records!recordVars
<1> DEFINE r == sessions[c].call
<1>1. Shape(sessions[c]) /\ Undecided(sessions[c]) /\ EndingFree(r, tables)
  BY SessionIs, CompleteStatements DEF InsertCompletion, At
<1>2. New(tables, "completions", CompletionRow(r))
  BY <1>1, EndingNew DEF PostgresInv
<1>3. Insert(c, "completions", CompletionRow(r), "commit")
  BY DEF InsertCompletion, CompletionRow, Call
<1> QED
  BY <1>1, <1>2, <1>3, InsertQuiet

LEMMA InsertEventsServes ==
  ASSUME PostgresInv, NEW c \in Callers, InsertEvents(c)
  PROVE  UNCHANGED Records!recordVars
<1> DEFINE r == sessions[c].call
           writes == EventWrites(r)
           k == [sessions[c] EXCEPT !.at = "insert-completion", !.writes = writes]
<1>1. Shape(sessions[c]) /\ Undecided(sessions[c]) /\ EndingFree(r, tables)
  BY SessionIs, CompleteStatements DEF InsertEvents, At
<1>2. \A row \in EventRows(r) : New(tables, "events", row)
  BY <1>1, EndingNew DEF PostgresInv
<1>3. \A row \in EventRows(r) : ~Retained("events", row)
  BY <1>2 DEF New, Retained
<1>4. sessions' = [sessions EXCEPT ![c] = k] /\ tables' = tables /\ Unchanged
  BY <1>3 DEF InsertEvents, Call, EventWrites, W
<1>5. k = [sessions[c] EXCEPT !.at = "insert-completion", !.writes = writes]
  OBVIOUS
<1> HIDE DEF k, writes
<1>6. k.call = r /\ k.answer = sessions[c].answer
  BY <1>1, <1>5 DEF Shape
<1> QED
  BY <1>1, <1>4, <1>6, WriteQuiet

\* The receipts of PdfExportRecords: a receipt with its manifest and its job.
LEMMA ReceiptsRows ==
  ASSUME NEW T, TablesFit(T)
  PROVE  /\ \A y \in Receipts(T) : \E x \in T["receipts"], m \in T["manifests"], j \in T["jobs"] :
              /\ y = ReceiptRow(x, m, j)
              /\ x.operation = m.operation /\ x.operation = j.operation
         /\ \A x \in T["receipts"], m \in T["manifests"], j \in T["jobs"] :
              x.operation = m.operation /\ x.operation = j.operation =>
                ReceiptRow(x, m, j) \in Receipts(T)
         /\ \A x \in T["receipts"] : \E m \in T["manifests"], j \in T["jobs"] :
              x.operation = m.operation /\ x.operation = j.operation
         /\ \A m \in T["manifests"] : \E x \in T["receipts"], j \in T["jobs"] :
              x.operation = m.operation /\ x.operation = j.operation
         /\ \A j \in T["jobs"] : \E x \in T["receipts"], m \in T["manifests"] :
              x.operation = m.operation /\ x.operation = j.operation
<1> DEFINE P == {q \in T["receipts"] \X T["manifests"] \X T["jobs"] :
                   q[1].operation = q[2].operation /\ q[1].operation = q[3].operation}
<1>1. ASSUME NEW x \in T["receipts"], NEW m \in T["manifests"], NEW j \in T["jobs"],
             x.operation = m.operation, x.operation = j.operation
      PROVE  ReceiptRow(x, m, j) \in Receipts(T)
  <2>1. <<x, m, j>> \in P
    BY <1>1
  <2>2. <<x, m, j>>[1] = x /\ <<x, m, j>>[2] = m /\ <<x, m, j>>[3] = j
    OBVIOUS
  <2> QED
    BY <2>1, <2>2 DEF Receipts
<1>2. ASSUME NEW y \in Receipts(T)
      PROVE  \E x \in T["receipts"], m \in T["manifests"], j \in T["jobs"] :
               y = ReceiptRow(x, m, j) /\ x.operation = m.operation /\ x.operation = j.operation
  <2>1. PICK p \in P : y = ReceiptRow(p[1], p[2], p[3])
    BY <1>2 DEF Receipts
  <2> QED
    BY <2>1
<1>3. /\ Ids(T, "manifests") = Ids(T, "receipts") /\ Ids(T, "jobs") = Ids(T, "receipts")
  BY DEF TablesFit, Together
<1>4. ASSUME NEW id \in Ids(T, "receipts")
      PROVE  \E x \in T["receipts"], m \in T["manifests"], j \in T["jobs"] :
               x.operation = id /\ m.operation = id /\ j.operation = id
  <2>1. id \in Ids(T, "manifests") /\ id \in Ids(T, "jobs")
    BY <1>3
  <2> QED
    BY <2>1 DEF Ids
<1>5. ASSUME NEW x \in T["receipts"]
      PROVE  \E m \in T["manifests"], j \in T["jobs"] :
               x.operation = m.operation /\ x.operation = j.operation
  <2>1. x.operation \in Ids(T, "receipts")
    BY DEF Ids
  <2> QED
    BY <1>4, <2>1
<1>6. ASSUME NEW m \in T["manifests"]
      PROVE  \E x \in T["receipts"], j \in T["jobs"] :
               x.operation = m.operation /\ x.operation = j.operation
  <2>1. m.operation \in Ids(T, "receipts")
    BY <1>3 DEF Ids
  <2> QED
    BY <1>4, <2>1
<1>7. ASSUME NEW j \in T["jobs"]
      PROVE  \E x \in T["receipts"], m \in T["manifests"] :
               x.operation = m.operation /\ x.operation = j.operation
  <2>1. j.operation \in Ids(T, "receipts")
    BY <1>3 DEF Ids
  <2> QED
    BY <1>4, <2>1
<1> QED
  BY <1>1, <1>2, <1>5, <1>6, <1>7

LEMMA ReceiptRowFields ==
  ASSUME NEW x, NEW m, NEW j
  PROVE  /\ ReceiptRow(x, m, j).operation = x.operation
         /\ ReceiptRow(x, m, j).persistence = x.persistence
         /\ ReceiptRow(x, m, j).artifact = m.artifact
         /\ ReceiptRow(x, m, j).job = j.job
         /\ ReceiptRow(x, m, j).facts = x.facts
  BY DEF ReceiptRow

\* What the rows of the three tables tell of them.
LEMMA ReceiptsTell ==
  ASSUME NEW T, TablesFit(T)
  PROVE  /\ \A y \in Receipts(T) : \E x \in T["receipts"] :
              /\ y.operation = x.operation /\ y.persistence = x.persistence /\ y.facts = x.facts
         /\ \A x \in T["receipts"] : \E y \in Receipts(T) :
              /\ y.operation = x.operation /\ y.persistence = x.persistence /\ y.facts = x.facts
         /\ \A y \in Receipts(T) : \E m \in T["manifests"] :
              y.operation = m.operation /\ y.artifact = m.artifact
         /\ \A m \in T["manifests"] : \E y \in Receipts(T) :
              y.operation = m.operation /\ y.artifact = m.artifact
         /\ \A y \in Receipts(T) : \E j \in T["jobs"] : y.operation = j.operation /\ y.job = j.job
         /\ \A j \in T["jobs"] : \E y \in Receipts(T) : y.operation = j.operation /\ y.job = j.job
<1>1. ASSUME NEW y \in Receipts(T)
      PROVE  /\ \E x \in T["receipts"] :
                  /\ y.operation = x.operation /\ y.persistence = x.persistence
                  /\ y.facts = x.facts
             /\ \E m \in T["manifests"] : y.operation = m.operation /\ y.artifact = m.artifact
             /\ \E j \in T["jobs"] : y.operation = j.operation /\ y.job = j.job
  <2>1. PICK x \in T["receipts"], m \in T["manifests"], j \in T["jobs"] :
          /\ y = ReceiptRow(x, m, j)
          /\ x.operation = m.operation /\ x.operation = j.operation
    BY ReceiptsRows
  <2>2. /\ y.operation = x.operation /\ y.persistence = x.persistence /\ y.facts = x.facts
        /\ y.artifact = m.artifact /\ y.job = j.job
    BY <2>1, ReceiptRowFields
  <2>3. y.operation = m.operation /\ y.operation = j.operation
    BY <2>1, <2>2
  <2> QED
    BY <2>2, <2>3
<1>2. ASSUME NEW x \in T["receipts"]
      PROVE  \E y \in Receipts(T) :
               /\ y.operation = x.operation /\ y.persistence = x.persistence /\ y.facts = x.facts
  <2>1. PICK m \in T["manifests"], j \in T["jobs"] :
          x.operation = m.operation /\ x.operation = j.operation
    BY ReceiptsRows
  <2>2. ReceiptRow(x, m, j) \in Receipts(T)
    BY <2>1, ReceiptsRows
  <2> QED
    BY <2>1, <2>2, ReceiptRowFields
<1>3. ASSUME NEW m \in T["manifests"]
      PROVE  \E y \in Receipts(T) : y.operation = m.operation /\ y.artifact = m.artifact
  <2>1. PICK x \in T["receipts"], j \in T["jobs"] :
          x.operation = m.operation /\ x.operation = j.operation
    BY ReceiptsRows
  <2>2. ReceiptRow(x, m, j) \in Receipts(T)
    BY <2>1, ReceiptsRows
  <2> QED
    BY <2>1, <2>2, ReceiptRowFields
<1>4. ASSUME NEW j \in T["jobs"]
      PROVE  \E y \in Receipts(T) : y.operation = j.operation /\ y.job = j.job
  <2>1. PICK x \in T["receipts"], m \in T["manifests"] :
          x.operation = m.operation /\ x.operation = j.operation
    BY ReceiptsRows
  <2>2. ReceiptRow(x, m, j) \in Receipts(T)
    BY <2>1, ReceiptsRows
  <2> QED
    BY <2>1, <2>2, ReceiptRowFields
<1> QED
  BY <1>1, <1>2, <1>3, <1>4

\* commitProjection, answered without a row.
LEMMA ProjectSelectsServe ==
  ASSUME PostgresInv, NEW c \in Callers,
         SelectPersistence(c) \/ SelectReceipt(c) \/ SelectArtifact(c) \/ SelectJob(c)
  PROVE  Serves(c)
<1> DEFINE r == sessions[c].call
           Rows == Receipts(tables)
<1>1. /\ Shape(sessions[c]) /\ r \in Calls /\ r.kind = "project" /\ Undecided(sessions[c])
      /\ sessions[c].writes = {}
  BY SessionIs, ProjectStatements DEF SelectPersistence, SelectReceipt, SelectArtifact, SelectJob, At
<1>2. ASSUME NEW statement, Proceed(c, statement)
      PROVE  Serves(c)
  BY <1>1, <1>2, ProceedQuiet DEF Serves
<1>3. ASSUME NEW status, status # "none", Conclude(c, status, 0)
      PROVE  /\ Records!Open(c) /\ Records!Answer(c, status, 0)
             /\ UNCHANGED Records!records /\ scenario' = scenario /\ made' = made
  BY <1>1, <1>3, ConcludeAnswers
<1>4. /\ TablesFit(tables)
      /\ \A x, y \in tables["receipts"] : x.operation = y.operation => x = y
  BY DEF PostgresInv, TablesFit, KeysUnique, SameKey, TableNames
<1>5. Records!Taken(r) <=>
        \/ \E x \in Rows : x.persistence = r.persistence /\ x.operation # r.operation
        \/ \E x \in Rows : x.operation = r.operation /\ x.facts # r.facts
        \/ /\ \A x \in Rows : x.operation # r.operation
           /\ \E x \in Rows : x.artifact = r.artifact \/ x.job = r.job
  BY MappedRows DEF Records!Taken, Records!Of
<1> HIDE DEF Rows
<1>6. ASSUME Records!Taken(r), Conclude(c, "conflict", 0)
      PROVE  Serves(c)
  <2>1. /\ Records!Open(c) /\ Records!Answer(c, "conflict", 0)
        /\ UNCHANGED Records!records /\ scenario' = scenario /\ made' = made
    BY <1>3, <1>6
  <2>2. Records!Project(c, r)
    BY <1>6, <2>1 DEF Records!Project, Records!records
  <2> QED
    BY <1>1, <2>1, <2>2, ServeStep DEF Serves
<1>7. CASE SelectPersistence(c)
  <2>1. ASSUME NEW x \in tables["receipts"], x.persistence = r.persistence,
               x.operation # r.operation
        PROVE  Records!Taken(r)
    BY <1>4, <1>5, <2>1, ReceiptsTell DEF Rows
  <2> QED
    BY <1>2, <1>6, <1>7, <2>1 DEF SelectPersistence, ConflictIf, Call
<1>8. CASE SelectReceipt(c)
  <2>1. PersistenceFree(r, tables)
    BY <1>8, SessionIs, ProjectStatements DEF SelectReceipt, At
  <2>2. \/ \E x \in tables["receipts"] :
             /\ x.operation = r.operation
             /\ Conclude(c, IF x.facts = r.facts THEN "idempotent-replay" ELSE "conflict", 0)
        \/ Proceed(c, "select-artifact")
    BY <1>8 DEF SelectReceipt, AnswerExisting, Of, Call
  <2>3. ASSUME NEW x \in tables["receipts"], x.operation = r.operation, x.facts # r.facts
        PROVE  Records!Taken(r)
    BY <1>4, <1>5, <2>3, ReceiptsTell DEF Rows
  <2>4. ASSUME NEW x \in tables["receipts"], x.operation = r.operation, x.facts = r.facts,
               Conclude(c, "idempotent-replay", 0)
        PROVE  Serves(c)
    <3>1. /\ Records!Open(c) /\ Records!Answer(c, "idempotent-replay", 0)
          /\ UNCHANGED Records!records /\ scenario' = scenario /\ made' = made
      BY <1>3, <2>4
    <3>2. PICK y \in Rows : y.operation = r.operation
      BY <1>4, <2>4, ReceiptsTell DEF Rows
    <3>3. \A z \in Rows : z.operation = r.operation => z.facts = r.facts
      BY <1>4, <2>4, ReceiptsTell DEF Rows
    <3>4. \A z \in Rows : z.persistence = r.persistence => z.operation = r.operation
      BY <1>4, <2>1, ReceiptsTell DEF Rows, PersistenceFree
    <3>5. ~Records!Taken(r)
      BY <1>5, <3>2, <3>3, <3>4
    <3>6. Records!Of(ReceiptRows, r.operation) # {}
      BY <3>2, MappedRows DEF Records!Of, Rows
    <3>7. Records!Project(c, r)
      BY <3>1, <3>5, <3>6 DEF Records!Project, Records!records
    <3> QED
      BY <1>1, <3>1, <3>7, ServeStep DEF Serves
  <2> QED
    BY <1>2, <1>6, <2>2, <2>3, <2>4
<1>9. CASE SelectArtifact(c)
  <2>1. ReceiptFree(r, tables)
    BY <1>9, SessionIs, ProjectStatements DEF SelectArtifact, At
  <2>2. \A y \in Rows : y.operation # r.operation
    BY <1>4, <2>1, ReceiptsTell DEF Rows, ReceiptFree
  <2>3. ASSUME NEW m \in tables["manifests"], m.artifact = r.artifact
        PROVE  Records!Taken(r)
    BY <1>4, <1>5, <2>2, <2>3, ReceiptsTell DEF Rows
  <2> QED
    BY <1>2, <1>6, <1>9, <2>3 DEF SelectArtifact, ConflictIf, Call
<1>10. CASE SelectJob(c)
  <2>1. ReceiptFree(r, tables)
    BY <1>10, SessionIs, ProjectStatements DEF SelectJob, At
  <2>2. \A y \in Rows : y.operation # r.operation
    BY <1>4, <2>1, ReceiptsTell DEF Rows, ReceiptFree
  <2>3. ASSUME NEW j \in tables["jobs"], j.job = r.job
        PROVE  Records!Taken(r)
    BY <1>4, <1>5, <2>2, <2>3, ReceiptsTell DEF Rows
  <2> QED
    BY <1>2, <1>6, <1>10, <2>3 DEF SelectJob, ConflictIf, Call
<1> QED
  BY <1>7, <1>8, <1>9, <1>10

\* The completions of PdfExportRecords: a completion with its events.
Ending(T, x) ==
  [operation |-> x.operation, workflow |-> x.workflow, facts |-> x.facts,
   events |-> {e.event : e \in {y \in T["events"] : y.operation = x.operation}}]

LEMMA CompletionsAre == ASSUME NEW T PROVE Completions(T) = {Ending(T, x) : x \in T["completions"]}
  BY DEF Completions, Ending

LEMMA EndingFields ==
  ASSUME NEW T, NEW x
  PROVE  /\ Ending(T, x).operation = x.operation /\ Ending(T, x).workflow = x.workflow
         /\ Ending(T, x).facts = x.facts
         /\ Ending(T, x).events = {e.event : e \in {y \in T["events"] : y.operation = x.operation}}
  BY DEF Ending

LEMMA CompletionsTell ==
  ASSUME NEW T, TablesFit(T)
  PROVE  /\ \A y \in Completions(T) : \E x \in T["completions"] :
              /\ y.operation = x.operation /\ y.workflow = x.workflow /\ y.facts = x.facts
         /\ \A x \in T["completions"] : \E y \in Completions(T) :
              /\ y.operation = x.operation /\ y.workflow = x.workflow /\ y.facts = x.facts
         /\ \A e \in T["events"] : \E y \in Completions(T) :
              y.operation = e.operation /\ e.event \in y.events
<1>1. ASSUME NEW y \in Completions(T)
      PROVE  \E x \in T["completions"] :
               /\ y.operation = x.operation /\ y.workflow = x.workflow /\ y.facts = x.facts
  <2>1. PICK x \in T["completions"] : y = Ending(T, x)
    BY CompletionsAre
  <2> QED
    BY <2>1, EndingFields
<1>2. ASSUME NEW x \in T["completions"]
      PROVE  /\ Ending(T, x) \in Completions(T)
             /\ \E y \in Completions(T) :
                  /\ y.operation = x.operation /\ y.workflow = x.workflow /\ y.facts = x.facts
  <2>1. Ending(T, x) \in Completions(T)
    BY CompletionsAre
  <2> QED
    BY <2>1, EndingFields
<1>3. ASSUME NEW e \in T["events"]
      PROVE  \E y \in Completions(T) : y.operation = e.operation /\ e.event \in y.events
  <2>1. e.operation \in Ids(T, "completions")
    BY DEF TablesFit, Together, Ids
  <2>2. PICK x \in T["completions"] : x.operation = e.operation
    BY <2>1 DEF Ids
  <2>3. e.event \in Ending(T, x).events
    BY <2>2, EndingFields
  <2>4. Ending(T, x).operation = e.operation /\ Ending(T, x) \in Completions(T)
    BY <1>2, <2>2, EndingFields
  <2> QED
    BY <2>3, <2>4
<1> QED
  BY <1>1, <1>2, <1>3

\* commitTerminalWorkflow, answered without a row.
LEMMA CompleteSelectsServe ==
  ASSUME PostgresInv, NEW c \in Callers,
         SelectWorkflow(c) \/ SelectCompletion(c) \/ SelectEvents(c)
  PROVE  Serves(c)
<1> DEFINE r == sessions[c].call
           Rows == Completions(tables)
<1>1. /\ Shape(sessions[c]) /\ r \in Calls /\ r.kind = "complete" /\ Undecided(sessions[c])
      /\ sessions[c].writes = {}
  BY SessionIs, CompleteStatements DEF SelectWorkflow, SelectCompletion, SelectEvents, At
<1>2. ASSUME NEW statement, Proceed(c, statement)
      PROVE  Serves(c)
  BY <1>1, <1>2, ProceedQuiet DEF Serves
<1>3. ASSUME NEW status, status # "none", Conclude(c, status, 0)
      PROVE  /\ Records!Open(c) /\ Records!Answer(c, status, 0)
             /\ UNCHANGED Records!records /\ scenario' = scenario /\ made' = made
  BY <1>1, <1>3, ConcludeAnswers
<1>4. /\ TablesFit(tables)
      /\ \A x, y \in tables["completions"] : x.operation = y.operation => x = y
  BY DEF PostgresInv, TablesFit, KeysUnique, SameKey, TableNames
<1>5. Records!Owned(r) <=>
        \/ \E x \in Rows : x.workflow = r.workflow /\ x.operation # r.operation
        \/ \E x \in Rows : x.operation = r.operation /\ x.facts # r.facts
        \/ /\ \A x \in Rows : x.operation # r.operation
           /\ \E x \in Rows : x.events \cap Range(r.events) # {}
  BY MappedRows DEF Records!Owned, Records!Of, Records!Range, Range
<1> HIDE DEF Rows
<1>6. ASSUME Records!Owned(r), Conclude(c, "conflict", 0)
      PROVE  Serves(c)
  <2>1. /\ Records!Open(c) /\ Records!Answer(c, "conflict", 0)
        /\ UNCHANGED Records!records /\ scenario' = scenario /\ made' = made
    BY <1>3, <1>6
  <2>2. Records!Complete(c, r)
    BY <1>6, <2>1 DEF Records!Complete, Records!records
  <2> QED
    BY <1>1, <2>1, <2>2, ServeStep DEF Serves
<1>7. CASE SelectWorkflow(c)
  <2>1. ASSUME NEW x \in tables["completions"], x.workflow = r.workflow,
               x.operation # r.operation
        PROVE  Records!Owned(r)
    BY <1>4, <1>5, <2>1, CompletionsTell DEF Rows
  <2> QED
    BY <1>2, <1>6, <1>7, <2>1 DEF SelectWorkflow, ConflictIf, Call
<1>8. CASE SelectCompletion(c)
  <2>1. WorkflowFree(r, tables)
    BY <1>8, SessionIs, CompleteStatements DEF SelectCompletion, At
  <2>2. \/ \E x \in tables["completions"] :
             /\ x.operation = r.operation
             /\ Conclude(c, IF x.facts = r.facts THEN "idempotent-replay" ELSE "conflict", 0)
        \/ Proceed(c, "select-events")
    BY <1>8 DEF SelectCompletion, AnswerExisting, Of, Call
  <2>3. ASSUME NEW x \in tables["completions"], x.operation = r.operation, x.facts # r.facts
        PROVE  Records!Owned(r)
    BY <1>4, <1>5, <2>3, CompletionsTell DEF Rows
  <2>4. ASSUME NEW x \in tables["completions"], x.operation = r.operation, x.facts = r.facts,
               Conclude(c, "idempotent-replay", 0)
        PROVE  Serves(c)
    <3>1. /\ Records!Open(c) /\ Records!Answer(c, "idempotent-replay", 0)
          /\ UNCHANGED Records!records /\ scenario' = scenario /\ made' = made
      BY <1>3, <2>4
    <3>2. PICK y \in Rows : y.operation = r.operation
      BY <1>4, <2>4, CompletionsTell DEF Rows
    <3>3. \A z \in Rows : z.operation = r.operation => z.facts = r.facts
      BY <1>4, <2>4, CompletionsTell DEF Rows
    <3>4. \A z \in Rows : z.workflow = r.workflow => z.operation = r.operation
      BY <1>4, <2>1, CompletionsTell DEF Rows, WorkflowFree
    <3>5. ~Records!Owned(r)
      BY <1>5, <3>2, <3>3, <3>4
    <3>6. Records!Of(CompletionRows, r.operation) # {}
      BY <3>2, MappedRows DEF Records!Of, Rows
    <3>7. Records!Complete(c, r)
      BY <3>1, <3>5, <3>6 DEF Records!Complete, Records!records
    <3> QED
      BY <1>1, <3>1, <3>7, ServeStep DEF Serves
  <2> QED
    BY <1>2, <1>6, <2>2, <2>3, <2>4
<1>9. CASE SelectEvents(c)
  <2>1. CompletionFree(r, tables)
    BY <1>9, SessionIs, CompleteStatements DEF SelectEvents, At
  <2>2. \A y \in Rows : y.operation # r.operation
    BY <1>4, <2>1, CompletionsTell DEF Rows, CompletionFree
  <2>3. ASSUME NEW e \in tables["events"], e.event \in Range(r.events)
        PROVE  Records!Owned(r)
    <3>1. PICK y \in Rows : e.event \in y.events
      BY <1>4, CompletionsTell DEF Rows
    <3> QED
      BY <1>5, <2>2, <2>3, <3>1
  <2> QED
    BY <1>2, <1>6, <1>9, <2>3 DEF SelectEvents, ConflictIf, Call
<1> QED
  BY <1>7, <1>8, <1>9

-----------------------------------------------------------------------------
(* A commit serves the call that wrote. *)

LEMMA SameReceipts ==
  ASSUME NEW T, NEW U, U["receipts"] = T["receipts"], U["manifests"] = T["manifests"],
         U["jobs"] = T["jobs"]
  PROVE  Receipts(U) = Receipts(T)
  BY DEF Receipts

LEMMA SameCompletions ==
  ASSUME NEW T, NEW U, U["completions"] = T["completions"], U["events"] = T["events"]
  PROVE  Completions(U) = Completions(T)
  BY DEF Completions

LEMMA CommitAnswers ==
  ASSUME PostgresInv, NEW c \in Callers, Commit(c), sessions[c].call \in Calls,
         View(sessions[c]).answer = Says("none", 0), NEW status, NEW n, status # "none",
         \/ sessions[c].answer = Says(status, n)
         \/ sessions[c].answer = Says("none", 0) /\ status = "committed" /\ n = 0
  PROVE  Records!Open(c) /\ Records!Answer(c, status, n) /\ scenario' = scenario /\ made' = made
<1> DEFINE k == [Idle EXCEPT !.call = Call(c), !.at = "return", !.answer = Says(status, n)]
<1>1. sessions' = [sessions EXCEPT ![c] = k] /\ scenario' = scenario /\ made' = made
  <2>1. (IF sessions[c].answer.status = "none" THEN Says("committed", 0) ELSE sessions[c].answer)
          = Says(status, n)
    BY SaysFields
  <2> QED
    BY <2>1 DEF Commit, Unchanged
<1>2. k = [Idle EXCEPT !.call = Call(c), !.at = "return", !.answer = Says(status, n)]
  OBVIOUS
<1> HIDE DEF k
<1>3. k.call = sessions[c].call /\ k.writes = {} /\ k.answer = Says(status, n)
  BY <1>2 DEF Idle, Call
<1>4. Records!Open(c) /\ Records!Answer(c, status, n)
  BY <1>1, <1>3, AnswerStep
<1> QED
  BY <1>1, <1>4

LEMMA CommitAnsweredServes ==
  ASSUME PostgresInv, NEW c \in Callers, Commit(c), Answered(sessions[c])
  PROVE  UNCHANGED Records!recordVars
<1> DEFINE k == [Idle EXCEPT !.call = Call(c), !.at = "return", !.answer = sessions[c].answer]
<1>1. sessions' = [sessions EXCEPT ![c] = k] /\ scenario' = scenario /\ made' = made
  BY DEF Commit, Unchanged, Answered
<1>2. tables' = tables
  BY CommitTables, CommitAnswered DEF Answered
<1>3. k = [Idle EXCEPT !.call = Call(c), !.at = "return", !.answer = sessions[c].answer]
  OBVIOUS
<1> HIDE DEF k
<1>4. k.call = sessions[c].call /\ k.writes = {} /\ k.answer = sessions[c].answer
  BY <1>3 DEF Idle, Call
<1>5. View(k) = View(sessions[c])
  BY <1>4 DEF View, Answered
<1> QED
  BY <1>1, <1>2, <1>5, QuietStep

LEMMA CommitAdmitServes ==
  ASSUME PostgresInv, NEW c \in Callers, Commit(c), sessions[c].call \in Calls,
         Admitted(sessions[c], tables)
  PROVE  Records!Serve(c)
<1> DEFINE r == sessions[c].call
           row == OperationRow(r)
<1>1. /\ sessions[c].answer = Says("created", 0) /\ sessions[c].writes # {} /\ r.kind = "admit"
      /\ New(tables, "operations", row)
  BY DEF Admitted
<1>2. View(sessions[c]).answer = Says("none", 0)
  BY <1>1, ViewFields
<1>3. /\ Records!Open(c) /\ Records!Answer(c, "created", 0)
      /\ scenario' = scenario /\ made' = made
  BY <1>1, <1>2, CommitAnswers
<1>4. /\ tables'["operations"] = tables["operations"] \cup {row}
      /\ \A t \in TableNames \ {"operations"} : tables'[t] = tables[t]
  BY CommitTables, CommitAdmit
<1>5. /\ Receipts(tables') = Receipts(tables) /\ Completions(tables') = Completions(tables)
      /\ tables'["heads"] = tables["heads"] /\ tables'["transitions"] = tables["transitions"]
  BY <1>4, SameReceipts, SameCompletions DEF TableNames
<1>6. \A o \in tables["operations"] : o.key # r.key /\ o.operation # r.operation
  BY <1>1 DEF New, SameKey, OperationRow
<1>7. Records!Admit(c, r)
  BY <1>3, <1>4, <1>5, <1>6, MappedRows, MappedNext DEF Records!Admit, Records!Of, OperationRow
<1> QED
  BY <1>1, <1>3, <1>7, ServeStep

LEMMA CommitInitializeServes ==
  ASSUME PostgresInv, NEW c \in Callers, Commit(c), sessions[c].call \in Calls,
         Initialized(sessions[c], tables)
  PROVE  Records!Serve(c)
<1> DEFINE r == sessions[c].call
           row == HeadRow(r)
<1>1. /\ sessions[c].answer = Says("created", 0) /\ sessions[c].writes # {}
      /\ r.kind = "initialize" /\ New(tables, "heads", row)
  BY DEF Initialized
<1>2. View(sessions[c]).answer = Says("none", 0)
  BY <1>1, ViewFields
<1>3. /\ Records!Open(c) /\ Records!Answer(c, "created", 0)
      /\ scenario' = scenario /\ made' = made
  BY <1>1, <1>2, CommitAnswers
<1>4. /\ tables'["heads"] = tables["heads"] \cup {row}
      /\ \A t \in TableNames \ {"heads"} : tables'[t] = tables[t]
  BY CommitTables, CommitInitialize
<1>5. /\ Receipts(tables') = Receipts(tables) /\ Completions(tables') = Completions(tables)
      /\ tables'["operations"] = tables["operations"]
      /\ tables'["transitions"] = tables["transitions"]
  BY <1>4, SameReceipts, SameCompletions DEF TableNames
<1>6. Records!Of(tables["heads"], r.operation) = {}
  BY <1>1 DEF New, SameKey, HeadRow, Records!Of
<1>7. tables'["heads"] = tables["heads"] \cup {Records!NewHead(r)}
  BY <1>4 DEF Records!NewHead, HeadRow
<1>8. Records!Initialize(c, r)
  BY <1>3, <1>5, <1>6, <1>7, MappedRows, MappedNext DEF Records!Initialize
<1> QED
  BY <1>1, <1>3, <1>8, ServeStep

LEMMA CommitTransitionServes ==
  ASSUME PostgresInv, NEW c \in Callers, Commit(c), Shape(sessions[c]), sessions[c].call \in Calls,
         Transitioned(sessions[c], tables)
  PROVE  Records!Serve(c)
<1> DEFINE r == sessions[c].call
           h == sessions[c].seen
<1>0. PICK n : n = h.revision + 1
  OBVIOUS
<1>1. /\ sessions[c].answer = Says("applied", n) /\ sessions[c].writes # {}
      /\ r.kind = "transition" /\ h \in tables["heads"] /\ h.operation = r.operation
      /\ h.revision = r.revision /\ ~h.stopped
  BY <1>0 DEF Transitioned, TransitionWrites, Sees, Fresh
<1>2. View(sessions[c]).answer = Says("none", 0)
  BY <1>1, ViewFields
<1>3. /\ Records!Open(c) /\ Records!Answer(c, "applied", n)
      /\ scenario' = scenario /\ made' = made
  BY <1>1, <1>2, CommitAnswers
<1>4. /\ tables'["heads"] = (tables["heads"] \ {h}) \cup {MovedRow(h, r)}
      /\ tables'["transitions"] = tables["transitions"] \cup {TransitionRow(r, h)}
      /\ \A t \in TableNames \ {"heads", "transitions"} : tables'[t] = tables[t]
  BY CommitTables, CommitTransition
<1>5. /\ Receipts(tables') = Receipts(tables) /\ Completions(tables') = Completions(tables)
      /\ tables'["operations"] = tables["operations"]
  BY <1>4, SameReceipts, SameCompletions DEF TableNames
<1>6. Records!Replayable(r) = {}
  BY DEF Transitioned, Fresh, Records!Replayable, Records!Of
<1>7. Records!Moved(h, r) = MovedRow(h, r) /\ Records!Entry(h, r) = TransitionRow(r, h)
  BY DEF Records!Moved, MovedRow, Records!Entry, TransitionRow
<1>8. h \in Records!Of(tables["heads"], r.operation)
  BY <1>1 DEF Records!Of
<1>10. Records!Answer(c, "applied", h.revision + 1)
  BY <1>0, <1>3 DEF Records!Answer
<1>9. Records!Transition(c, r)
  <2>1. /\ tables'["operations"] = tables["operations"]
        /\ (ReceiptRows)' = ReceiptRows /\ (CompletionRows)' = CompletionRows
    BY <1>5, MappedRows, MappedNext
  <2>2. /\ tables'["heads"] = (tables["heads"] \ {h}) \cup {Records!Moved(h, r)}
        /\ tables'["transitions"] = tables["transitions"] \cup {Records!Entry(h, r)}
    BY <1>4, <1>7
  <2>3. h.revision = r.revision /\ ~h.stopped
    BY <1>1
  <2> QED
    BY <1>6, <1>8, <1>10, <2>1, <2>2, <2>3 DEF Records!Transition, Records!Answer
<1> QED
  BY <1>1, <1>3, <1>9, ServeStep

\* The three rows of a projection make one receipt.
LEMMA ReceiptAdded ==
  ASSUME NEW T, TablesFit(T), NEW r, ReceiptFree(r, T), NEW U,
         U["manifests"] = T["manifests"] \cup {ManifestRow(r)},
         U["jobs"] = T["jobs"] \cup {JobRow(r)},
         U["receipts"] = T["receipts"] \cup {PersistenceRow(r)}
  PROVE  Receipts(U) = Receipts(T) \cup {ReceiptRow(PersistenceRow(r), ManifestRow(r), JobRow(r))}
<1> DEFINE x0 == PersistenceRow(r)
           m0 == ManifestRow(r)
           j0 == JobRow(r)
           Triples(V) == {q \in V["receipts"] \X V["manifests"] \X V["jobs"] :
                            q[1].operation = q[2].operation /\ q[1].operation = q[3].operation}
<1>1. x0.operation = r.operation /\ m0.operation = r.operation /\ j0.operation = r.operation
  BY DEF PersistenceRow, ManifestRow, JobRow
<1>2. \A x \in T["receipts"] : x.operation # r.operation
  BY DEF ReceiptFree
<1>3. \A m \in T["manifests"] : m.operation # r.operation
  BY <1>2, ReceiptsRows
<1>4. \A j \in T["jobs"] : j.operation # r.operation
  BY <1>2, ReceiptsRows
<1> HIDE DEF x0, m0, j0
<1>5. ASSUME NEW q, q \in Triples(U)
      PROVE  q \in Triples(T) \/ q = <<x0, m0, j0>>
  <2>1. PICK x \in U["receipts"], m \in U["manifests"], j \in U["jobs"] : q = <<x, m, j>>
    BY <1>5
  <2>2. x.operation = m.operation /\ x.operation = j.operation
    BY <1>5, <2>1
  <2>3. CASE x = x0
    <3>1. m = m0 /\ j = j0
      BY <1>1, <1>3, <1>4, <2>2, <2>3 DEF m0, j0
    <3> QED
      BY <2>1, <2>3, <3>1
  <2>4. CASE x \in T["receipts"]
    <3>1. m \in T["manifests"] /\ j \in T["jobs"]
      BY <1>1, <1>2, <2>2, <2>4 DEF m0, j0
    <3> QED
      BY <2>1, <2>2, <2>4, <3>1
  <2> QED
    BY <2>3, <2>4 DEF x0
<1>6. <<x0, m0, j0>> \in Triples(U)
  <2>1. x0 \in U["receipts"] /\ m0 \in U["manifests"] /\ j0 \in U["jobs"]
    BY DEF x0, m0, j0
  <2> QED
    BY <1>1, <2>1
<1>7. ASSUME NEW q \in Triples(T) PROVE q \in Triples(U)
  <2>1. T["receipts"] \subseteq U["receipts"] /\ T["manifests"] \subseteq U["manifests"]
        /\ T["jobs"] \subseteq U["jobs"]
    OBVIOUS
  <2> QED
    BY <1>7, <2>1
<1>8. Triples(U) = Triples(T) \cup {<<x0, m0, j0>>}
  BY <1>5, <1>6, <1>7
<1>9. \A V : \A y : y \in Receipts(V) <=> \E q \in Triples(V) : y = ReceiptRow(q[1], q[2], q[3])
  BY DEF Receipts
<1> DEFINE q0 == <<x0, m0, j0>>
<1>11. q0[1] = x0 /\ q0[2] = m0 /\ q0[3] = j0 /\ Triples(U) = Triples(T) \cup {q0}
  BY <1>8
<1> HIDE DEF Triples, q0
<1>10. Receipts(U) = Receipts(T) \cup {ReceiptRow(x0, m0, j0)}
  <2>1. ASSUME NEW y
        PROVE  y \in Receipts(U) <=> y \in Receipts(T) \/ y = ReceiptRow(x0, m0, j0)
    BY <1>9, <1>11
  <2> QED
    BY <2>1
<1> QED
  BY <1>10 DEF x0, m0, j0

LEMMA CommitProjectServes ==
  ASSUME PostgresInv, NEW c \in Callers, Commit(c), sessions[c].call \in Calls,
         Projected(sessions[c], tables)
  PROVE  Records!Serve(c)
<1> DEFINE r == sessions[c].call
           Rows == Receipts(tables)
<1>1. /\ sessions[c].answer = Says("none", 0) /\ r.kind = "project" /\ ProjectionFree(r, tables)
      /\ TablesFit(tables)
  BY DEF Projected, Undecided, PostgresInv
<1>2. View(sessions[c]).answer = Says("none", 0)
  BY <1>1, ViewFields, SaysFields
<1>3. /\ Records!Open(c) /\ Records!Answer(c, "committed", 0)
      /\ scenario' = scenario /\ made' = made
  BY <1>1, <1>2, CommitAnswers
<1>4. /\ tables'["manifests"] = tables["manifests"] \cup {ManifestRow(r)}
      /\ tables'["jobs"] = tables["jobs"] \cup {JobRow(r)}
      /\ tables'["receipts"] = tables["receipts"] \cup {PersistenceRow(r)}
      /\ \A t \in TableNames \ {"manifests", "jobs", "receipts"} : tables'[t] = tables[t]
  BY CommitTables, CommitProject
<1>5. /\ Completions(tables') = Completions(tables)
      /\ tables'["operations"] = tables["operations"] /\ tables'["heads"] = tables["heads"]
      /\ tables'["transitions"] = tables["transitions"]
  BY <1>4, SameCompletions DEF TableNames
<1>6. Receipts(tables') = Rows \cup {Records!ReceiptOf(r)}
  <2>1. ReceiptRow(PersistenceRow(r), ManifestRow(r), JobRow(r)) = Records!ReceiptOf(r)
    BY DEF ReceiptRow, PersistenceRow, ManifestRow, JobRow, Records!ReceiptOf
  <2> QED
    BY <1>1, <1>4, <2>1, ReceiptAdded DEF ProjectionFree
<1> HIDE DEF Rows
<1>7. \A y \in Rows : y.operation # r.operation
  BY <1>1, ReceiptsTell DEF Rows, ProjectionFree, ReceiptFree
<1>8. \A y \in Rows : y.persistence # r.persistence /\ y.artifact # r.artifact /\ y.job # r.job
  <2>1. \A y \in Rows : y.persistence # r.persistence
    BY <1>1, <1>7, ReceiptsTell DEF Rows, ProjectionFree, PersistenceFree
  <2>2. \A y \in Rows : y.artifact # r.artifact
    BY <1>1, ReceiptsTell DEF Rows, ProjectionFree, ArtifactFree
  <2>3. \A y \in Rows : y.job # r.job
    BY <1>1, ReceiptsTell DEF Rows, ProjectionFree, JobFree
  <2> QED
    BY <2>1, <2>2, <2>3
<1>9. ~Records!Taken(r) /\ Records!Of(ReceiptRows, r.operation) = {}
  BY <1>7, <1>8, MappedRows DEF Records!Taken, Records!Of, Rows
<1>10. Records!Project(c, r)
  <2>1. /\ (ReceiptRows)' = ReceiptRows \cup {Records!ReceiptOf(r)}
        /\ (CompletionRows)' = CompletionRows
    BY <1>5, <1>6, MappedRows, MappedNext DEF Rows
  <2> QED
    BY <1>3, <1>5, <1>9, <2>1 DEF Records!Project, Records!Retain
<1> QED
  BY <1>1, <1>3, <1>10, ServeStep

\* A completion and its events make one completion.
LEMMA CompletionAdded ==
  ASSUME NEW T, TablesFit(T), NEW r, CompletionFree(r, T), NEW U,
         U["events"] = T["events"] \cup EventRows(r),
         U["completions"] = T["completions"] \cup {CompletionRow(r)}
  PROVE  Completions(U) = Completions(T) \cup {Records!CompletionOf(r)}
<1> DEFINE x0 == CompletionRow(r)
<1>1. \A e \in T["events"] : e.operation # r.operation
  <2> TAKE e \in T["events"]
  <2>1. e.operation \in Ids(T, "completions")
    BY DEF TablesFit, Together, Ids
  <2> QED
    BY <2>1 DEF Ids, CompletionFree
<1>2. \A e \in EventRows(r) : e.operation = r.operation
  BY DEF EventRows
<1>3. ASSUME NEW x \in T["completions"]
      PROVE  Ending(U, x) = Ending(T, x)
  <2>1. x.operation # r.operation
    BY DEF CompletionFree
  <2>2. {y \in U["events"] : y.operation = x.operation}
          = {y \in T["events"] : y.operation = x.operation}
    BY <1>2, <2>1
  <2> QED
    BY <2>2 DEF Ending
<1>4. Ending(U, x0) = Records!CompletionOf(r)
  <2>1. x0.operation = r.operation /\ x0.workflow = r.workflow /\ x0.facts = r.facts
    BY DEF CompletionRow
  <2>2. {y \in U["events"] : y.operation = r.operation} = EventRows(r)
    BY <1>1, <1>2
  <2>3. {e.event : e \in EventRows(r)} = Range(r.events)
    <3> DEFINE row(i) == [operation |-> r.operation, event |-> r.events[i], sequence |-> i - 1]
    <3>1. \A i : row(i).event = r.events[i]
      OBVIOUS
    <3>2. EventRows(r) = {row(i) : i \in DOMAIN r.events}
      BY DEF EventRows
    <3> HIDE DEF row
    <3>3. {e.event : e \in EventRows(r)} = {row(i).event : i \in DOMAIN r.events}
      BY <3>2
    <3> QED
      BY <3>1, <3>3 DEF Range
  <2> HIDE DEF x0
  <2>4. Ending(U, x0) = [operation |-> r.operation, workflow |-> r.workflow, facts |-> r.facts,
                         events |-> Range(r.events)]
    BY <2>1, <2>2, <2>3 DEF Ending
  <2> QED
    BY <2>4 DEF Records!CompletionOf, Records!Range, Range
<1> HIDE DEF x0
<1>5. Completions(U) = {Ending(U, x) : x \in T["completions"]} \cup {Ending(U, x0)}
  BY CompletionsAre DEF x0
<1>6. Completions(T) = {Ending(T, x) : x \in T["completions"]}
  BY CompletionsAre
<1>7. {Ending(U, x) : x \in T["completions"]} = {Ending(T, x) : x \in T["completions"]}
  BY <1>3
<1> QED
  BY <1>4, <1>5, <1>6, <1>7

LEMMA CommitCompleteServes ==
  ASSUME PostgresInv, NEW c \in Callers, Commit(c), sessions[c].call \in Calls,
         Completed(sessions[c], tables)
  PROVE  Records!Serve(c)
<1> DEFINE r == sessions[c].call
           Rows == Completions(tables)
<1>1. /\ sessions[c].answer = Says("none", 0) /\ r.kind = "complete" /\ EndingFree(r, tables)
      /\ TablesFit(tables)
  BY DEF Completed, Undecided, PostgresInv
<1>2. View(sessions[c]).answer = Says("none", 0)
  BY <1>1, ViewFields, SaysFields
<1>3. /\ Records!Open(c) /\ Records!Answer(c, "committed", 0)
      /\ scenario' = scenario /\ made' = made
  BY <1>1, <1>2, CommitAnswers
<1>4. /\ tables'["events"] = tables["events"] \cup EventRows(r)
      /\ tables'["completions"] = tables["completions"] \cup {CompletionRow(r)}
      /\ \A t \in TableNames \ {"events", "completions"} : tables'[t] = tables[t]
  BY CommitTables, CommitComplete
<1>5. /\ Receipts(tables') = Receipts(tables)
      /\ tables'["operations"] = tables["operations"] /\ tables'["heads"] = tables["heads"]
      /\ tables'["transitions"] = tables["transitions"]
  BY <1>4, SameReceipts DEF TableNames
<1>6. Completions(tables') = Rows \cup {Records!CompletionOf(r)}
  BY <1>1, <1>4, CompletionAdded DEF EndingFree
<1> HIDE DEF Rows
<1>7. \A y \in Rows : y.operation # r.operation
  BY <1>1, CompletionsTell DEF Rows, EndingFree, CompletionFree
<1>8. \A y \in Rows : y.workflow # r.workflow
  BY <1>1, <1>7, CompletionsTell DEF Rows, EndingFree, WorkflowFree
<1>9. \A y \in Rows : y.events \cap Range(r.events) = {}
  <2> SUFFICES ASSUME NEW y \in Rows, NEW id \in y.events, id \in Range(r.events) PROVE FALSE
    OBVIOUS
  <2>1. PICK x \in tables["completions"] : y = Ending(tables, x)
    BY CompletionsAre DEF Rows
  <2>2. PICK e \in tables["events"] : e.operation = x.operation /\ e.event = id
    BY <2>1, EndingFields
  <2>3. x.operation = r.operation
    BY <1>1, <2>2 DEF EndingFree, EventsFree
  <2> QED
    BY <1>1, <2>3 DEF EndingFree, CompletionFree
<1>10. ~Records!Owned(r) /\ Records!Of(CompletionRows, r.operation) = {}
  BY <1>7, <1>8, <1>9, MappedRows DEF Records!Owned, Records!Of, Records!Range, Range, Rows
<1>11. Records!Complete(c, r)
  <2>1. /\ (CompletionRows)' = CompletionRows \cup {Records!CompletionOf(r)}
        /\ (ReceiptRows)' = ReceiptRows
    BY <1>5, <1>6, MappedRows, MappedNext DEF Rows
  <2> QED
    BY <1>3, <1>5, <1>10, <2>1 DEF Records!Complete
<1> QED
  BY <1>1, <1>3, <1>11, ServeStep

LEMMA CommitServes ==
  ASSUME PostgresInv, NEW c \in Callers, Commit(c)
  PROVE  Serves(c)
<1>1. /\ Shape(sessions[c]) /\ sessions[c].call \in Calls
      /\ \/ Answered(sessions[c]) \/ Admitted(sessions[c], tables)
         \/ Initialized(sessions[c], tables) \/ Transitioned(sessions[c], tables)
         \/ Projected(sessions[c], tables) \/ Completed(sessions[c], tables)
  BY SessionIs, CommitStatements DEF Commit, At
<1> QED
  BY <1>1, CommitAnsweredServes, CommitAdmitServes, CommitInitializeServes,
     CommitTransitionServes, CommitProjectServes, CommitCompleteServes DEF Serves

-----------------------------------------------------------------------------
(* The calls and their answers. *)

\* A step that changes what PdfExportRecords sees of one session.
LEMMA ViewsMove ==
  ASSUME PostgresInv, NEW c \in Callers, NEW k, sessions' = [sessions EXCEPT ![c] = k]
  PROVE  Views[c] = View(sessions[c]) /\ Views' = [Views EXCEPT ![c] = View(k)]
  BY DEF Views, PostgresInv

LEMMA BeginAsks ==
  ASSUME PostgresInv, NEW c \in Callers, NEW r \in scenario, Begin(c, r)
  PROVE  Records!Ask(c, r)
<1> DEFINE k == [sessions[c] EXCEPT !.call = r, !.at = FirstStatement(r.kind), !.todo = Identities(r)]
<1>0. k = [sessions[c] EXCEPT !.call = r, !.at = FirstStatement(r.kind), !.todo = Identities(r)]
  OBVIOUS
<1>1. sessions' = [sessions EXCEPT ![c] = k]
  BY DEF Begin
<1> HIDE DEF k
<1>2. tables' = tables /\ scenario' = scenario /\ made < MaxCalls /\ made' = made + 1
  BY DEF Begin
<1>3. sessions[c] = Idle
  BY SessionIs, CallKinds DEF Begin, At, Fits, Returns, KindFits, AdmitFits, InitializeFits,
     TransitionFits, ProjectFits, CompleteFits, Answered, Asks, Wrote, Locking
<1>4. /\ Shape(sessions[c]) /\ sessions[c].call = NoCall /\ sessions[c].writes = {}
      /\ sessions[c].answer = Says("none", 0)
  BY <1>3, IdleFits
<1>5. k.call = r /\ k.answer = Says("none", 0)
  BY <1>0, <1>4 DEF Shape
<1>6. View(sessions[c]) = [call |-> NoCall, answer |-> Says("none", 0)]
  BY <1>4, SaysFields DEF View
<1>7. View(k) = [call |-> r, answer |-> Says("none", 0)]
  BY <1>5, SaysFields DEF View
<1>8. Views[c].call = NoCall /\ Views' = [Views EXCEPT ![c].call = r]
  <2> DEFINE u == View(sessions[c])
             v == View(k)
  <2>1. v = [u EXCEPT !.call = r] /\ u.call = NoCall
    BY <1>6, <1>7
  <2>2. Views[c] = u /\ Views' = [Views EXCEPT ![c] = v]
    BY <1>1, ViewsMove
  <2> HIDE DEF u, v
  <2> QED
    BY <2>1, <2>2
<1> QED
  BY <1>2, <1>8, MappedCalls, MappedNext, RecordsKept DEF Records!Ask, Records!Asked

LEMMA ReturnReturns ==
  ASSUME PostgresInv, NEW c \in Callers, Return(c)
  PROVE  Records!Return(c)
<1>1. sessions' = [sessions EXCEPT ![c] = Idle] /\ tables' = tables /\ Unchanged
  BY DEF Return
<1>2. /\ sessions[c].call \in Calls /\ sessions[c].writes = {}
      /\ sessions[c].answer.status # "none"
  BY SessionIs, IdleFits DEF Return, At, Fits, Returns, KindFits, AdmitFits, InitializeFits,
     TransitionFits, ProjectFits, CompleteFits, Answered, Asks, Wrote, Locking
<1>3. Views[c].call # NoCall /\ Views[c].answer # Says("none", 0)
  <2>1. Views[c] = View(sessions[c])
    BY DEF Views
  <2>2. View(sessions[c]).call # NoCall
    BY <1>2, ViewFields, CallKinds
  <2>3. View(sessions[c]).answer = sessions[c].answer
    BY <1>2, ViewFields
  <2> QED
    BY <1>2, <2>1, <2>2, <2>3, SaysFields
<1>4. View(Idle) = [call |-> NoCall, answer |-> Says("none", 0)]
  BY IdleFits, SaysFields DEF View
<1>5. Views' = [Views EXCEPT ![c] = [call |-> NoCall, answer |-> Says("none", 0)]]
  BY <1>1, <1>4, ViewsMove
<1> QED
  BY <1>1, <1>3, <1>5, MappedCalls, MappedNext, RecordsKept DEF Unchanged, Records!Return,
     Records!Asked, Records!Open, Records!NoAnswer, Records!Says, Says

LEMMA UnavailableFails ==
  ASSUME PostgresInv, NEW c \in Callers, Unavailable(c)
  PROVE  Records!Fail(c) \/ UNCHANGED Records!recordVars
<1> DEFINE k == [Idle EXCEPT !.call = Call(c), !.at = "return",
                 !.answer = Says("storage-unavailable", 0)]
<1>0. k = [Idle EXCEPT !.call = Call(c), !.at = "return", !.answer = Says("storage-unavailable", 0)]
  OBVIOUS
<1>1. /\ sessions' = [sessions EXCEPT ![c] = k] /\ tables' = tables
      /\ scenario' = scenario /\ made' = made
  BY DEF Unavailable, Abort
<1> HIDE DEF k
<1>2. sessions[c].call \in Calls
  BY SessionIs, CallKnown DEF Unavailable, InTransaction, At
<1>3. /\ k.call = sessions[c].call /\ k.writes = {}
      /\ k.answer = Says("storage-unavailable", 0)
  BY <1>0 DEF Idle, Call
<1>4. View(k) = [View(sessions[c]) EXCEPT !.answer = Says("storage-unavailable", 0)]
  <2>1. /\ View(k).call = View(sessions[c]).call
        /\ View(k).answer = Says("storage-unavailable", 0)
    BY <1>3, ViewFields, SaysFields
  <2> QED
    BY <2>1 DEF View
<1>5. Views' = [Views EXCEPT ![c].answer = Says("storage-unavailable", 0)] /\ Views[c].call # NoCall
  <2> DEFINE u == View(sessions[c])
             v == View(k)
             a == Says("storage-unavailable", 0)
  <2>1. v = [u EXCEPT !.answer = a] /\ u.call # NoCall
    BY <1>2, <1>4, ViewFields, CallKinds
  <2>2. Views[c] = u /\ Views' = [Views EXCEPT ![c] = v]
    BY <1>1, ViewsMove
  <2> HIDE DEF u, v, a
  <2>3. Views' = [Views EXCEPT ![c].answer = a] /\ Views[c].call # NoCall
    BY <2>1, <2>2
  <2> QED
    BY <2>3 DEF a
<1>6. CASE View(sessions[c]).answer = Says("storage-unavailable", 0)
  <2>1. View(k) = View(sessions[c])
    BY <1>4, <1>6 DEF View
  <2> QED
    BY <1>1, <2>1, QuietStep
<1>7. CASE View(sessions[c]).answer # Says("storage-unavailable", 0)
  <2>1. Views[c].answer # Says("storage-unavailable", 0)
    BY <1>1, <1>7, ViewsMove
  <2> QED
    BY <1>1, <1>5, <2>1, MappedCalls, MappedNext, RecordsKept DEF Records!Fail, Records!Asked,
       Records!Unavailable, Records!Says, Says
<1> QED
  BY <1>6, <1>7

LEMMA RecordsInitially == Init => Records!RecordsInit
<1> SUFFICES ASSUME Init PROVE Records!RecordsInit
  OBVIOUS
<1>1. /\ tables["operations"] = {} /\ tables["heads"] = {} /\ tables["transitions"] = {}
      /\ tables["receipts"] = {} /\ tables["completions"] = {}
  BY DEF Init, TableNames
<1>2. Receipts(tables) = {} /\ Completions(tables) = {}
  BY <1>1 DEF Receipts, Completions
<1>3. \A c \in Callers : View(sessions[c]) = [call |-> NoCall, answer |-> Says("none", 0)]
  BY IdleFits, SaysFields DEF Init, View
<1>4. Views = [c \in Callers |-> [call |-> NoCall, answer |-> Says("none", 0)]]
  BY <1>3 DEF Views
<1> QED
  BY <1>1, <1>2, <1>4, MappedCalls, MappedRows DEF Init, Records!RecordsInit, Records!NoAnswer,
     Records!Says, Says

LEMMA RecordsStep ==
  PostgresInv /\ [Next]_vars => [Records!RecordsNext]_(Records!recordVars)
<1> SUFFICES ASSUME PostgresInv, [Next]_vars
             PROVE  Records!RecordsNext \/ UNCHANGED Records!recordVars
  OBVIOUS
<1>1. CASE UNCHANGED vars
  <2>1. Views' = Views
    BY <1>1 DEF vars, Views
  <2>2. (ReceiptRows)' = ReceiptRows /\ (CompletionRows)' = CompletionRows
    BY <1>1, MappedRows, MappedNext DEF vars
  <2> QED
    BY <1>1, <2>1, <2>2, MappedCalls, MappedNext DEF vars, Records!recordVars, Records!records
<1>2. ASSUME NEW c \in Callers, NEW r \in scenario, Begin(c, r)
      PROVE  Records!RecordsNext
  BY <1>2, BeginAsks DEF Records!RecordsNext
<1>3. ASSUME NEW c \in Callers, Serves(c)
      PROVE  Records!RecordsNext \/ UNCHANGED Records!recordVars
  BY <1>3 DEF Serves, Records!RecordsNext
<1>4. ASSUME NEW c \in Callers, Statement(c), ~Return(c)
      PROVE  Serves(c)
  BY <1>4, InsertOperationServes, SelectOwnerServes, InsertHeadServes, SelectOwnHeadServes,
     SelectHeadServes, SelectTransitionServes, UpdateHeadServes, InsertTransitionServes,
     LockServes, ProjectSelectsServe, ProjectInsertsServe, CompleteSelectsServe,
     InsertEventsServes, InsertCompletionServes, CommitServes DEF Statement, Serves
<1>5. ASSUME NEW c \in Callers, Return(c)
      PROVE  Records!RecordsNext
  BY <1>5, ReturnReturns DEF Records!RecordsNext
<1>6. ASSUME NEW c \in Callers, Unavailable(c)
      PROVE  Records!RecordsNext \/ UNCHANGED Records!recordVars
  BY <1>6, UnavailableFails DEF Records!RecordsNext
<1> QED
  BY <1>1, <1>2, <1>3, <1>4, <1>5, <1>6 DEF Next

\* The repositories on PostgreSQL answer as if each call were one step on the
\* records: at its COMMIT if it writes, when its answer is decided if it does
\* not.  No call is answered by a thrown constraint or a lost update.
THEOREM PostgresServesLikeRecords == Spec => ServesLikeRecords
<1>1. Spec => Init /\ [][Next]_vars
  BY PTL DEF Spec
<1> QED
  BY <1>1, PostgresInvariant, RecordsInitially, RecordsStep, PTL DEF ServesLikeRecords,
     Records!RecordsSpec

-----------------------------------------------------------------------------
(* What the records keep, for any calls and in whatever variables they are  *)
(* kept; here, in the rows of the tables.                                   *)

\* The rows of heads, and what makes a transition's target unique: one head for
\* an operation.
HeadRows ==
  /\ \A h \in tables["heads"] :
       h \in [operation : {h.operation}, binding : {h.binding}, revision : Nat,
              stopped : {h.stopped}]
  /\ \A g, h \in tables["heads"] : g.operation = h.operation => g = h

HistoryInv == HeadRows /\ Records!HeadsHaveHistory

LEMMA HistoryInit == Records!RecordsInit => HistoryInv
  BY DEF Records!RecordsInit, HistoryInv, HeadRows, Records!HeadsHaveHistory, Records!Of

LEMMA HistoryKept ==
  ASSUME HistoryInv, UNCHANGED <<tables["heads"], tables["transitions"]>>
  PROVE  HistoryInv'
  BY DEF HistoryInv, HeadRows, Records!HeadsHaveHistory, Records!Of

\* A new head has no journal, because a journal has a head.
LEMMA HistoryInitialize ==
  ASSUME HistoryInv, NEW c \in Callers, NEW r, Records!Initialize(c, r)
  PROVE  HistoryInv'
<1>1. CASE UNCHANGED tables["heads"]
  BY <1>1, HistoryKept DEF Records!Initialize
<1>2. CASE /\ Records!Of(tables["heads"], r.operation) = {}
           /\ tables'["heads"] = tables["heads"] \cup {Records!NewHead(r)}
  <2>. USE <1>2 DEF HistoryInv
  <2>1. tables'["transitions"] = tables["transitions"]
    BY DEF Records!Initialize
  <2>2. HeadRows'
    <3>1. Records!NewHead(r) \in [operation : {r.operation}, binding : {r.binding},
                                   revision : Nat, stopped : {FALSE}]
      BY DEF Records!NewHead
    <3>2. /\ Records!NewHead(r).operation = r.operation /\ Records!NewHead(r).binding = r.binding
          /\ Records!NewHead(r).stopped = FALSE
      BY DEF Records!NewHead
    <3>. QED
      BY <3>1, <3>2 DEF HeadRows, Records!Of
  <2>3. \A j \in tables["transitions"] :
          \E h \in Records!Of(tables'["heads"], j.operation) : j.to \in 1..h.revision
    BY DEF Records!HeadsHaveHistory, Records!Of
  <2>4. \A h \in tables'["heads"] : \A n \in 1..h.revision :
          \E j \in Records!Of(tables["transitions"], h.operation) : j.to = n
    BY DEF Records!HeadsHaveHistory, Records!NewHead
  <2>. QED
    BY <2>1, <2>2, <2>3, <2>4 DEF Records!HeadsHaveHistory, Records!Of
<1>. QED
  BY <1>1, <1>2 DEF Records!Initialize

\* The one head of the operation moves by one, and the journal grows by the
\* entry that says so.
LEMMA HistoryTransition ==
  ASSUME HistoryInv, NEW c \in Callers, NEW r, Records!Transition(c, r)
  PROVE  HistoryInv'
<1>1. CASE UNCHANGED <<tables["heads"], tables["transitions"]>>
  BY <1>1, HistoryKept
<1>2. ASSUME NEW h \in Records!Of(tables["heads"], r.operation),
             Records!Replayable(r) = {},
             tables'["heads"] = (tables["heads"] \ {h}) \cup {Records!Moved(h, r)},
             tables'["transitions"] = tables["transitions"] \cup {Records!Entry(h, r)}
      PROVE  HistoryInv'
  <2>. DEFINE m == Records!Moved(h, r)
              e == Records!Entry(h, r)
  <2>1. /\ h \in tables["heads"] /\ h.operation = r.operation /\ h.revision \in Nat
        /\ m \in [operation : {h.operation}, binding : {h.binding},
                  revision : {h.revision + 1}, stopped : {r.stops}]
        /\ m.operation = h.operation /\ m.revision = h.revision + 1
    <3>1. h \in tables["heads"] /\ h.operation = r.operation
      BY DEF Records!Of
    <3>2. h \in [operation : {h.operation}, binding : {h.binding}, revision : Nat,
                 stopped : {h.stopped}]
      BY <3>1 DEF HistoryInv, HeadRows
    <3>. QED
      BY <3>1, <3>2 DEF Records!Moved
  <2>2. e.operation = h.operation /\ e.to = h.revision + 1 /\ e.transition = r.transition
    BY <2>1 DEF Records!Entry
  <2>3. \A g \in tables["heads"] : g.operation = h.operation => g = h
    BY <2>1 DEF HistoryInv, HeadRows
  <2>4. HeadRows'
    <3>1. m \in [operation : {m.operation}, binding : {m.binding}, revision : Nat,
                 stopped : {m.stopped}]
      BY <2>1
    <3>2. tables'["heads"] = (tables["heads"] \ {h}) \cup {m}
      BY <1>2
    <3>. HIDE DEF m
    <3>. QED
      BY <2>1, <2>3, <3>1, <3>2 DEF HistoryInv, HeadRows
  <2>5. \A j \in tables["transitions"] : j.operation = h.operation => j.to \in 1..h.revision
    BY <2>1, <2>3 DEF HistoryInv, Records!HeadsHaveHistory, Records!Of
  <2>6. \A j, k \in tables'["transitions"] :
          j.operation = k.operation /\ (j.transition = k.transition \/ j.to = k.to) => j = k
    <3>1. \A j \in tables["transitions"] : j.operation = e.operation =>
            j.transition # e.transition /\ j.to # e.to
      BY <1>2, <2>1, <2>2, <2>5 DEF Records!Replayable, Records!Of
    <3>. HIDE DEF e
    <3>. QED
      BY <1>2, <3>1 DEF HistoryInv, Records!HeadsHaveHistory, e
  <2>7. \A j \in tables'["transitions"] :
          \E g \in Records!Of(tables'["heads"], j.operation) : j.to \in 1..g.revision
    <3>. SUFFICES ASSUME NEW j \in tables'["transitions"]
                  PROVE  \E g \in tables'["heads"] :
                           g.operation = j.operation /\ j.to \in 1..g.revision
      BY DEF Records!Of
    <3>1. CASE j.operation = h.operation
      <4>1. j.to \in 1..m.revision
        BY <1>2, <2>1, <2>2, <2>5, <3>1
      <4>. QED
        BY <1>2, <2>1, <3>1, <4>1
    <3>2. CASE j.operation # h.operation
      <4>1. j \in tables["transitions"]
        BY <1>2, <2>2, <3>2
      <4>2. PICK g \in tables["heads"] : g.operation = j.operation /\ j.to \in 1..g.revision
        BY <4>1 DEF HistoryInv, Records!HeadsHaveHistory, Records!Of
      <4>. QED
        BY <1>2, <3>2, <4>2
    <3>. QED
      BY <3>1, <3>2
  <2>8. \A g \in tables'["heads"] : \A n \in 1..g.revision :
          \E j \in Records!Of(tables'["transitions"], g.operation) : j.to = n
    <3>. SUFFICES ASSUME NEW g \in tables'["heads"], NEW n \in 1..g.revision
                  PROVE  \E j \in tables'["transitions"] : j.operation = g.operation /\ j.to = n
      BY DEF Records!Of
    <3>1. CASE g \in tables["heads"]
      BY <1>2, <3>1 DEF HistoryInv, Records!HeadsHaveHistory, Records!Of
    <3>2. CASE g = m /\ n \in 1..h.revision
      BY <1>2, <2>1, <3>2 DEF HistoryInv, Records!HeadsHaveHistory, Records!Of
    <3>3. CASE g = m /\ n = h.revision + 1
      BY <1>2, <2>1, <2>2, <3>3
    <3>. QED
      BY <1>2, <2>1, <3>1, <3>2, <3>3
  <2>. QED
    BY <2>4, <2>6, <2>7, <2>8 DEF HistoryInv, Records!HeadsHaveHistory
<1>. QED
  BY <1>1, <1>2 DEF Records!Transition

LEMMA HistoryNext == HistoryInv /\ [Records!RecordsNext]_(Records!recordVars) => HistoryInv'
<1>. SUFFICES ASSUME HistoryInv, [Records!RecordsNext]_(Records!recordVars)
              PROVE  HistoryInv'
  OBVIOUS
<1>1. CASE UNCHANGED <<tables["heads"], tables["transitions"]>>
  BY <1>1, HistoryKept
<1>2. ASSUME NEW c \in Callers, Records!Serve(c)
      PROVE  HistoryInv'
  <2>. DEFINE r == Call(c)
  <2>1. CASE Records!Initialize(c, r)
    BY <2>1, HistoryInitialize
  <2>2. CASE Records!Transition(c, r)
    BY <2>2, HistoryTransition
  <2>3. CASE Records!Admit(c, r) \/ Records!Project(c, r) \/ Records!Complete(c, r)
    BY <2>3, HistoryKept DEF Records!Admit, Records!Project, Records!Complete
  <2>. QED
    BY <1>2, <2>1, <2>2, <2>3 DEF Records!Serve
<1>3. ASSUME NEW c \in Callers,
             (\E r \in scenario : Records!Ask(c, r)) \/ Records!Fail(c) \/ Records!Return(c)
      PROVE  UNCHANGED <<tables["heads"], tables["transitions"]>>
  BY <1>3 DEF Records!Ask, Records!Fail, Records!Return, Records!records
<1>. QED
  BY <1>1, <1>2, <1>3 DEF Records!RecordsNext, Records!recordVars, Records!records

\* The head of an operation is what its journal tells.
THEOREM HeadsHaveHistoryAlways == Records!RecordsSpec => []Records!HeadsHaveHistory
<1>1. HistoryInv => Records!HeadsHaveHistory
  BY DEF HistoryInv
<1>. QED
  BY <1>1, HistoryInit, HistoryNext, PTL DEF Records!RecordsSpec

---------------------------------------------------------------------------

LEMMA OwnersInit == Records!RecordsInit => Records!OneOwnerEach
  BY DEF Records!RecordsInit, Records!OneOwnerEach

LEMMA OwnersTransition ==
  ASSUME HeadRows, Records!OneOwnerEach, NEW c \in Callers, NEW r, Records!Transition(c, r)
  PROVE  Records!OneOwnerEach'
<1>1. \A g, h \in tables'["heads"] : g.operation = h.operation => g = h
  <2>1. CASE UNCHANGED tables["heads"]
    BY <2>1 DEF Records!OneOwnerEach
  <2>2. ASSUME NEW h \in Records!Of(tables["heads"], r.operation),
               tables'["heads"] = (tables["heads"] \ {h}) \cup {Records!Moved(h, r)}
        PROVE  \A f, g \in tables'["heads"] : f.operation = g.operation => f = g
    <3>1. h \in tables["heads"] /\ Records!Moved(h, r).operation = h.operation
      BY DEF Records!Of, Records!Moved, HeadRows
    <3>. QED
      BY <2>2, <3>1 DEF Records!OneOwnerEach
  <2>. QED
    BY <2>1, <2>2 DEF Records!Transition
<1>. QED
  BY <1>1 DEF Records!Transition, Records!OneOwnerEach

\* Each commit looks for the owner of all identities that it is to take.
LEMMA OwnersNext ==
  HeadRows /\ Records!OneOwnerEach /\ [Records!RecordsNext]_(Records!recordVars)
    => Records!OneOwnerEach'
<1>. SUFFICES ASSUME HeadRows, Records!OneOwnerEach, [Records!RecordsNext]_(Records!recordVars)
              PROVE  Records!OneOwnerEach'
  OBVIOUS
<1>1. CASE UNCHANGED Records!records
  BY <1>1 DEF Records!OneOwnerEach, Records!records
<1>2. ASSUME NEW c \in Callers, NEW r, Records!Admit(c, r)
      PROVE  Records!OneOwnerEach'
  <2>1. \A x, y \in tables'["operations"] : x.operation = y.operation \/ x.key = y.key => x = y
    BY <1>2 DEF Records!Admit, Records!OneOwnerEach, Records!Of
  <2>. QED
    BY <1>2, <2>1 DEF Records!Admit, Records!OneOwnerEach
<1>3. ASSUME NEW c \in Callers, NEW r, Records!Initialize(c, r)
      PROVE  Records!OneOwnerEach'
  <2>1. Records!NewHead(r).operation = r.operation
    BY DEF Records!NewHead
  <2>2. \A g, h \in tables'["heads"] : g.operation = h.operation => g = h
    BY <1>3, <2>1 DEF Records!Initialize, Records!OneOwnerEach, Records!Of
  <2>. QED
    BY <1>3, <2>2 DEF Records!Initialize, Records!OneOwnerEach
<1>4. ASSUME NEW c \in Callers, NEW r, Records!Project(c, r)
      PROVE  Records!OneOwnerEach'
  <2>1. \A x, y \in ReceiptRows' :
          x.operation = y.operation \/ x.persistence = y.persistence \/ x.artifact = y.artifact
            \/ x.job = y.job => x = y
    BY <1>4 DEF Records!Project, Records!Taken, Records!Retain, Records!ReceiptOf,
       Records!OneOwnerEach, Records!Of
  <2>. QED
    BY <1>4, <2>1 DEF Records!Project, Records!OneOwnerEach
<1>5. ASSUME NEW c \in Callers, NEW r, Records!Complete(c, r)
      PROVE  Records!OneOwnerEach'
  <2>1. \A x, y \in CompletionRows' :
          x.operation = y.operation \/ x.workflow = y.workflow \/ x.events \cap y.events # {}
            => x = y
    BY <1>5 DEF Records!Complete, Records!Owned, Records!CompletionOf, Records!OneOwnerEach,
       Records!Of
  <2>. QED
    BY <1>5, <2>1 DEF Records!Complete, Records!OneOwnerEach
<1>6. ASSUME NEW c \in Callers,
             (\E r \in scenario : Records!Ask(c, r)) \/ Records!Fail(c) \/ Records!Return(c)
      PROVE  UNCHANGED Records!records
  BY <1>6 DEF Records!Ask, Records!Fail, Records!Return
<1>. QED
  BY <1>1, <1>2, <1>3, <1>4, <1>5, <1>6, OwnersTransition
     DEF Records!RecordsNext, Records!Serve, Records!recordVars

\* Every identity has one owner.
THEOREM OneOwnerAlways == Records!RecordsSpec => []Records!OneOwnerEach
<1>1. HistoryInv => HeadRows
  BY DEF HistoryInv
<1>. QED
  BY <1>1, HistoryInit, HistoryNext, OwnersInit, OwnersNext, PTL DEF Records!RecordsSpec
-----------------------------------------------------------------------------

\* Whatever happens between the statements of two calls, and whichever of them
\* a lost connection rolls back, the head of an operation is what its journal
\* tells.
THEOREM PostgresHeadsHaveHistory == Spec => []HeadsHaveHistory
  BY HeadsHaveHistoryAlways, PostgresServesLikeRecords, PTL
     DEF ServesLikeRecords, HeadsHaveHistory

\* No operation id, caller key, artifact, job, workflow or event that two
\* transactions try to take ends up with two owners.
THEOREM PostgresOneOwner == Spec => []Records!OneOwnerEach
  BY OneOwnerAlways, PostgresServesLikeRecords, PTL DEF ServesLikeRecords
=============================================================================
