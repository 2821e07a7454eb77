-------------------------- MODULE CompositionWorker --------------------------
(***************************************************************************)
(* Composition workers that settle head writes whose outcome is unknown    *)
(* (compositionSchedulerWorkerRunner.ts, ...WorkerBatchRunner.ts): the     *)
(* journal in which they claim, start, release and complete an attempt     *)
(* (...WorkerJournalContract.ts, the SQLite and in-memory stores), and the *)
(* storage-attempt state that goes back and forth between reconciling the  *)
(* last write and issuing the next (...WorkerAttempt.ts).                  *)
(*                                                                         *)
(* Time is what it decides: whether a claim has lapsed and whether the     *)
(* schedule of a state is reached.  Each attempt writes to a job head of   *)
(* its own, which other actors of the scheduler move at will.  A call that *)
(* takes effect and loses its reply is the call followed by GiveUp.        *)
(***************************************************************************)
EXTENDS Integers, FiniteSets

CONSTANTS
  Attempts,     \* worker attempt ids
  Workers,
  MaxWrites,    \* FLOWDOC_BACKEND_COMPOSITION_MAX_TRANSIENT_STORAGE_ATTEMPTS
  MaxFailures,  \* FLOWDOC_BACKEND_COMPOSITION_MAX_RECONCILIATION_FAILURES
  Lanes,        \* the reconciliation lanes the attempts may have
  MaxMishaps    \* bound: workers that fail, and claims that lapse under one

ASSUME CompositionWorkerAssumption ==
  /\ IsFiniteSet(Attempts) /\ IsFiniteSet(Workers)
  /\ {MaxWrites, MaxFailures} \subseteq Nat \ {0} /\ MaxMishaps \in Nat
  /\ Lanes \subseteq {"create-request", "head-read", "committed-request",
                      "committed-finalization"}

VARIABLES
  lane,     \* reconcileWith of each attempt's mutation
  head,     \* the job head, as the mutation sees it: expected, next or other
  landed,   \* whether the mutation took effect: what the indexes retain
  journal,  \* the journal entry of each attempt
  batch,    \* attempts a worker listed and has not invoked yet
  job,      \* what a worker knows of the attempt it runs
  history,  \* of each attempt: the writes issued, and what is known of them
  mishaps

vars == <<lane, head, landed, journal, batch, job, history, mishaps>>

None == "none"
Indexed(a) == lane[a] \in {"committed-request", "committed-finalization"}
Absent == [status |-> None, lapsed |-> FALSE, ripe |-> FALSE, marker |-> None,
           phase |-> None, writes |-> 0, failures |-> 0, verdict |-> None]
Idle == [pc |-> "idle", a |-> None, exact |-> FALSE, before |-> None, answer |-> None]

Init ==
  /\ lane \in [Attempts -> Lanes]
  /\ head = [a \in Attempts |-> "expected"]
  /\ landed = [a \in Attempts |-> FALSE]
  /\ journal = [a \in Attempts |-> Absent]
  /\ batch = [w \in Workers |-> {}]
  /\ job = [w \in Workers |-> Idle]
  /\ history = [a \in Attempts |-> [issued |-> 0, unproved |-> FALSE, blind |-> FALSE,
                                    lost |-> FALSE, late |-> FALSE]]
  /\ mishaps = 0

-----------------------------------------------------------------------------
(* The composition head and its indexes. *)

Land(a) == /\ head' = [head EXCEPT ![a] = "next"]
           /\ landed' = [landed EXCEPT ![a] = TRUE]

\* Another actor moves the job head on, past the mutation or instead of it.
OthersMove(a) ==
  /\ head[a] # "other" /\ head' = [head EXCEPT ![a] = "other"]
  /\ UNCHANGED <<lane, landed, journal, batch, job, history, mishaps>>

\* The indexes tell what took effect, whatever became of the head since.
IndexEvidence(a) == IF landed[a] THEN "committed" ELSE "not-found"

\* What each lane reads of its evidence.
Evidence(a) ==
  CASE Indexed(a) -> IndexEvidence(a)
    [] lane[a] = "head-read" ->
         (CASE head[a] = "next" -> "committed" [] head[a] = "expected" -> "not-found"
            [] OTHER -> "superseded")
    [] OTHER ->   \* readHeadCreation returns the current head
         (CASE head[a] = "next" -> "committed" [] head[a] = "expected" -> "not-found"
            [] OTHER -> "conflict")

\* What the exact write answers when the head is not the expected one.
WriteAnswer(a) ==
  CASE Indexed(a) /\ landed[a] -> "committed"
    [] lane[a] = "create-request" ->
         (IF ~landed[a] THEN "conflict" ELSE IF head[a] = "next" THEN "committed" ELSE "failed")
    [] OTHER -> "superseded"

-----------------------------------------------------------------------------
(* The journal. *)

\* The state an attempt starts with: one write, whose outcome is to be reconciled.
Unreconciled == [Absent EXCEPT !.status = "pending", !.ripe = TRUE,
                               !.phase = "reconcile", !.writes = 1]

\* A head write came back unavailable and is journalled, whatever became of it.
CreateAttempt(a) ==
  /\ journal[a] = Absent
  /\ journal' = [journal EXCEPT ![a] = Unreconciled]
  /\ history' = [history EXCEPT ![a].issued = 1]
  /\ (head[a] = "expected" /\ Land(a)) \/ UNCHANGED <<head, landed>>
  /\ UNCHANGED <<lane, batch, job, mishaps>>

DuePending(a) == journal[a].status = "pending" /\ journal[a].ripe   \* as a mutant

Due(a) ==
  \/ journal[a].status = "pending" /\ journal[a].ripe
  \/ journal[a].status = "claimed" /\ journal[a].lapsed

\* The schedule of a state is reached.
Ripen(a) ==
  /\ journal[a].status = "pending" /\ ~journal[a].ripe
  /\ journal' = [journal EXCEPT ![a].ripe = TRUE]
  /\ UNCHANGED <<lane, head, landed, batch, job, history, mishaps>>

\* A revision is only ever compared for equality: a worker expects the exact
\* revision of the entry until anyone else writes the entry.
Holds(w, a) == job[w].a = a /\ job[w].exact
InUse(a) == \E w \in Workers : Holds(w, a) /\ job[w].pc # "claim"

\* A claim reaches its expiry, which a worker inside it does not notice.
Lapse(a) ==
  /\ journal[a].status = "claimed" /\ ~journal[a].lapsed
  /\ InUse(a) => mishaps < MaxMishaps
  /\ mishaps' = IF InUse(a) THEN mishaps + 1 ELSE mishaps
  /\ journal' = [journal EXCEPT ![a].lapsed = TRUE]
  /\ UNCHANGED <<lane, head, landed, batch, job, history>>

\* The exact live execution that release and completion require.
Live(w, a) == /\ Holds(w, a) /\ journal[a].status = "claimed" /\ ~journal[a].lapsed
              /\ journal[a].marker = journal[a].phase

Rewritten(a) == [journal[a] EXCEPT !.marker = None, !.lapsed = FALSE]

\* exactStateTransition admits the three ways a state may follow another.
Released(a, phase, writes, failures, ripe) ==
  [Rewritten(a) EXCEPT !.status = "pending", !.phase = phase, !.writes = writes,
                       !.failures = failures, !.ripe = ripe]
Completed(a, verdict) == [Rewritten(a) EXCEPT !.status = "completed", !.verdict = verdict]

-----------------------------------------------------------------------------
(* The runner: one invocation per listed attempt. *)

At(w, pc) == job[w].pc = pc
Done(w) == job' = [job EXCEPT ![w] = Idle]

\* A compare-and-swap of the entry, after which the worker knows what it knows and
\* every other worker on it is stale.
Store(w, a, entry, known) ==
  /\ journal' = [journal EXCEPT ![a] = entry]
  /\ job' = [v \in Workers |-> IF v = w THEN known
              ELSE [job[v] EXCEPT !.exact = @ /\ job[v].a # a]]
Settle(w, a, entry) == Store(w, a, entry, Idle)
OnlyJob == UNCHANGED <<lane, head, landed, journal, history, mishaps>>

ListDue(w) ==
  /\ At(w, "idle") /\ batch[w] = {}
  /\ \E a \in Attempts : Due(a)
  /\ batch' = [batch EXCEPT ![w] = {a \in Attempts : Due(a)}]
  /\ UNCHANGED job /\ OnlyJob

Read(w) == \E a \in batch[w] :
  /\ At(w, "idle")
  /\ batch' = [batch EXCEPT ![w] = @ \ {a}]
  /\ IF journal[a].status = "completed" THEN UNCHANGED job
     ELSE job' = [job EXCEPT ![w] = [Idle EXCEPT !.pc = "claim", !.a = a,
                    !.exact = TRUE, !.before = journal[a].marker]]
  /\ OnlyJob

\* Claim: refused when completed, busy, stale or deferred; a claim that lapsed is
\* taken over, and the execution marker of its owner erased.
Claim(w) ==
  LET a == job[w].a IN
  /\ At(w, "claim")
  /\ IF Holds(w, a) /\ Due(a)
     THEN /\ Store(w, a, [Rewritten(a) EXCEPT !.status = "claimed"],
                   [job[w] EXCEPT !.pc = "start"])
          /\ history' = [history EXCEPT ![a].lost = @ \/ (journal[a].phase = "retry-ready"
               /\ journal[a].marker = None /\ history[a].unproved)]
     ELSE Done(w) /\ UNCHANGED <<journal, history>>
  /\ UNCHANGED <<lane, head, landed, batch, mishaps>>

\* The entry read before the claim decides what the execution does: a retry that
\* was interrupted becomes a reconciliation, anything else is carried out.
Interrupted(w) == job[w].before = "retry-ready"

Start(w) ==
  LET a == job[w].a IN
  /\ At(w, "start")
  /\ IF /\ Holds(w, a) /\ journal[a].status = "claimed"
        /\ journal[a].marker = None /\ ~journal[a].lapsed
     THEN /\ Store(w, a, [journal[a] EXCEPT !.marker = journal[a].phase],
                   [job[w] EXCEPT !.pc = IF Interrupted(w) THEN "recover" ELSE journal[a].phase])
          /\ history' = IF Interrupted(w) \/ journal[a].phase = "reconcile" THEN history
               ELSE [history EXCEPT ![a].unproved = TRUE, ![a].blind = @ \/ history[a].unproved]
     ELSE Done(w) /\ UNCHANGED <<journal, history>>
  /\ UNCHANGED <<lane, head, landed, batch, mishaps>>

RecoverUncounted(w) ==   \* as a mutant
  LET a == job[w].a IN
  /\ At(w, "recover")
  /\ IF Live(w, a) THEN Settle(w, a, Released(a, "reconcile", journal[a].writes, 0, TRUE))
                   ELSE Done(w) /\ UNCHANGED journal
  /\ UNCHANGED <<lane, head, landed, batch, history, mishaps>>

\* The interrupted write counts as one whose outcome is unknown.
Recovered(a) == Released(a, "reconcile", journal[a].writes + 1, 0, TRUE)

Recover(w) ==
  LET a == job[w].a IN
  /\ At(w, "recover")
  /\ IF Live(w, a) THEN Settle(w, a, Recovered(a))
                   ELSE Done(w) /\ UNCHANGED journal
  /\ UNCHANGED <<lane, head, landed, batch, history, mishaps>>

\* One read of the lane's evidence, or one that throws.
Reconcile(w) ==
  /\ At(w, "reconcile")
  /\ \E answer \in {Evidence(job[w].a), "unavailable"} :
       job' = [job EXCEPT ![w].pc = "reconciled", ![w].answer = answer]
  /\ UNCHANGED batch /\ OnlyJob

\* One exact write.  A lease acquisition is not written outside its lease.
Retry(w) ==
  LET a == job[w].a
      Answer(x) == job' = [job EXCEPT ![w].pc = "retried", ![w].answer = x]
  IN /\ At(w, "retry-ready")
     /\ \/ /\ lane[a] = "head-read" /\ Answer("failed")
           /\ UNCHANGED <<head, landed, history>>
        \/ /\ history' = [history EXCEPT ![a].issued = @ + 1, ![a].late = @ \/ ~Holds(w, a)]
           /\ \/ /\ head[a] = "expected" /\ Land(a)
                 /\ \E x \in {"committed", "unavailable"} : Answer(x)
              \/ /\ UNCHANGED <<head, landed>>
                 /\ \/ Answer("unavailable")
                    \/ head[a] # "expected" /\ Answer(WriteAnswer(a))
     /\ UNCHANGED <<lane, journal, batch, mishaps>>

\* The journal decision for a reconciliation.
SettleReconcile(w) ==
  LET a == job[w].a
      e == journal[a]
  IN /\ At(w, "reconciled")
     /\ IF ~Live(w, a) THEN Done(w) /\ UNCHANGED <<journal, history>>
        ELSE CASE job[w].answer = "not-found" /\ e.writes < MaxWrites ->
                    /\ \E ripe \in BOOLEAN :
                         Settle(w, a, Released(a, "retry-ready", e.writes, e.failures, ripe))
                    /\ history' = [history EXCEPT ![a].unproved = FALSE]
               [] job[w].answer = "not-found" /\ e.writes >= MaxWrites ->
                    Settle(w, a, Completed(a, "exhausted")) /\ UNCHANGED history
               [] job[w].answer = "unavailable" /\ e.failures + 1 < MaxFailures ->
                    /\ Settle(w, a, Released(a, "reconcile", e.writes, e.failures + 1, FALSE))
                    /\ UNCHANGED history
               [] job[w].answer = "unavailable" /\ e.failures + 1 >= MaxFailures ->
                    Settle(w, a, Completed(a, "reconciliation-exhausted")) /\ UNCHANGED history
               [] OTHER -> Settle(w, a, Completed(a, job[w].answer)) /\ UNCHANGED history
     /\ UNCHANGED <<lane, head, landed, batch, mishaps>>

SettleRetryUnknownFails(w) ==   \* as a mutant
  LET a == job[w].a IN
  /\ At(w, "retried")
  /\ IF ~Live(w, a) THEN Done(w) /\ UNCHANGED journal
     ELSE Settle(w, a, Completed(a, IF job[w].answer = "unavailable" THEN "failed"
                                                                     ELSE job[w].answer))
  /\ UNCHANGED <<lane, head, landed, batch, history, mishaps>>

SettleRetry(w) ==
  LET a == job[w].a IN
  /\ At(w, "retried")
  /\ IF ~Live(w, a) THEN Done(w) /\ UNCHANGED journal
     ELSE IF job[w].answer = "unavailable"
          THEN Settle(w, a, Released(a, "reconcile", journal[a].writes + 1, 0, TRUE))
          ELSE Settle(w, a, Completed(a, job[w].answer))
  /\ UNCHANGED <<lane, head, landed, batch, history, mishaps>>

\* A crash, a journal call that fails, or one whose reply is lost: what the worker
\* holds is gone, what it wrote stays.
GiveUp(w) ==
  /\ ~At(w, "idle") /\ mishaps < MaxMishaps
  /\ mishaps' = mishaps + 1
  /\ Done(w) /\ \E b \in {batch[w], {}} : batch' = [batch EXCEPT ![w] = b]
  /\ UNCHANGED <<lane, head, landed, journal, history>>

\* One invocation of the runner: claim, start, execute, settle.
Invoke(w) == \/ Read(w) \/ Claim(w) \/ Start(w) \/ Recover(w)
             \/ Reconcile(w) \/ Retry(w) \/ SettleReconcile(w) \/ SettleRetry(w)

\* A batch lists what is due and invokes the runner for one after the other.
Step(w) == ListDue(w) \/ Invoke(w)

Next == \/ \E a \in Attempts : CreateAttempt(a) \/ OthersMove(a) \/ Ripen(a) \/ Lapse(a)
        \/ \E w \in Workers : Step(w) \/ GiveUp(w)

Spec == Init /\ [][Next]_vars

\* Workers keep running batches and time passes; nothing makes a write succeed,
\* another actor move or a worker fail.
FairSpec ==
  /\ Spec
  /\ \A w \in Workers : WF_vars(Step(w))
  /\ \A a \in Attempts : WF_vars(Ripen(a)) /\ WF_vars(Lapse(a) /\ ~InUse(a))

-----------------------------------------------------------------------------
(* Properties. *)

Phases == {"reconcile", "retry-ready"}
Verdicts == {None, "committed", "superseded", "conflict", "exhausted",
             "reconciliation-exhausted", "failed"}
EntryType ==
  [status : {None, "pending", "claimed", "completed"},
   lapsed : BOOLEAN, ripe : BOOLEAN, marker : Phases \cup {None},
   phase : Phases \cup {None}, writes : 0 .. MaxWrites,
   failures : 0 .. MaxFailures - 1, verdict : Verdicts]

\* The journal entries, including the write and failure counts that
\* validateEntryFacts and validBaseState admit, and what the workers hold.
CompositionWorkerTypeOK ==
  /\ lane \in [Attempts -> Lanes]
  /\ head \in [Attempts -> {"expected", "next", "other"}]
  /\ landed \in [Attempts -> BOOLEAN]
  /\ journal \in [Attempts -> EntryType]
  /\ batch \in [Workers -> SUBSET Attempts]
  /\ job \in [Workers -> [pc : {"idle", "claim", "start", "recover", "reconcile",
        "reconciled", "retry-ready", "retried"}, a : Attempts \cup {None},
        exact : BOOLEAN, before : Phases \cup {None},
        answer : Verdicts \cup {"not-found", "unavailable"}]]
  /\ history \in [Attempts -> [issued : Nat, unproved : BOOLEAN, blind : BOOLEAN,
                               lost : BOOLEAN, late : BOOLEAN]]
  /\ mishaps \in 0 .. MaxMishaps

\* A verdict recorded in the journal is true of the head: committed only if the
\* mutation took effect; exhausted or failed only if it did not, unless a worker
\* wrote after it had lost its claim or a retry's marker was erased.
VerdictIsTrue == \A a \in Attempts :
  /\ journal[a].verdict = "committed" => landed[a]
  /\ journal[a].verdict \in {"exhausted", "failed"} =>
       ~landed[a] \/ history[a].late \/ history[a].lost
  /\ journal[a].verdict = "superseded" /\ Indexed(a) =>
       ~landed[a] \/ history[a].late

\* However workers fail and take over from one another, the writes issued stay
\* within the bounded number of attempts, and none follows one whose outcome was
\* not reconciled, except after a retry's marker was erased.
WritesAreCounted == \A a \in Attempts :
  \/ history[a].lost
  \/ history[a].issued <= MaxWrites /\ ~history[a].blind

\* Every journalled attempt gets a verdict in the end.
EveryAttemptSettles == \A a \in Attempts :
  journal[a].status = "pending" ~> journal[a].status = "completed"

\* "A reclaiming runner does not invoke that write again" until the interrupted
\* one was reconciled.
NoWriteBeforeReconciliation == \A a \in Attempts : ~history[a].blind
=============================================================================
