------------------------ MODULE CompositionWorkerProofs ------------------------
(***************************************************************************)
(* Theorems about the composition workers, for any attempts, any number of *)
(* workers and any limits: whatever lapses, fails or takes over, a verdict *)
(* of the journal is true of the head, and the writes stay counted.        *)
(***************************************************************************)
EXTENDS CompositionWorker, FiniteSetTheorems, TLAPS

-----------------------------------------------------------------------------
(* The inductive invariant. *)

\* The head tells of the mutation, as long as nobody else moved it.
HeadTells(a) ==
  /\ head[a] = "next" => landed[a]
  /\ head[a] = "expected" => ~landed[a]

\* Nothing landed, unless a worker wrote outside its claim.
Unlanded(a) == ~landed[a] \/ history[a].late

\* The workers that are about to write, inside their claims or not.
Writers(a) == {w \in Workers : job[w].pc = "retry-ready" /\ job[w].a = a}

\* A retry was begun whose write the journal does not count yet.
Uncounted(a) == journal[a].phase = "retry-ready" /\ history[a].unproved

EntryFits(a) ==
  /\ journal[a].status = None => journal[a] = Absent
  /\ journal[a].status # None => journal[a].phase \in Phases
  /\ journal[a].marker # None =>
       journal[a].marker = journal[a].phase /\ journal[a].status = "claimed"
  /\ journal[a].marker = "retry-ready" => history[a].unproved
  /\ journal[a].verdict # None => journal[a].status = "completed"
  /\ journal[a].phase = "retry-ready" => journal[a].writes < MaxWrites
  /\ journal[a].phase = "retry-ready" /\ ~history[a].unproved => Unlanded(a)

VerdictFits(a) ==
  /\ journal[a].verdict = "committed" => landed[a]
  /\ journal[a].verdict \in {"exhausted", "failed"} => Unlanded(a) \/ history[a].lost
  /\ journal[a].verdict = "superseded" /\ Indexed(a) => Unlanded(a)

\* The writes that were and that may still be issued are those the journal counts.
WritesFit(a) ==
  \/ history[a].lost
  \/ /\ ~history[a].blind
     /\ history[a].issued + Cardinality(Writers(a))
          <= journal[a].writes + (IF Uncounted(a) THEN 1 ELSE 0)

AttemptInv(a) == HeadTells(a) /\ EntryFits(a) /\ VerdictFits(a) /\ WritesFit(a)

\* What a worker trusts as long as nobody else has written the entry.
TrustFits(w, a) ==
  /\ job[w].pc # "claim" => journal[a].status = "claimed"
  /\ job[w].pc = "claim" => job[w].before = journal[a].marker
  /\ job[w].pc = "start" =>
       IF Interrupted(w) THEN Uncounted(a) ELSE Uncounted(a) => history[a].lost
  /\ job[w].pc \in {"recover", "retry-ready", "retried"} => Uncounted(a)
  /\ job[w].pc \in {"reconcile", "reconciled"} => journal[a].phase = "reconcile"
  /\ job[w].pc = "retry-ready" => Unlanded(a) \/ history[a].lost
  /\ job[w].pc = "reconciled" =>
       /\ job[w].answer \in {"committed", "not-found", "superseded", "conflict", "unavailable"}
       /\ job[w].answer = "committed" => landed[a]
       /\ job[w].answer = "not-found" => Unlanded(a)
       /\ job[w].answer = "superseded" => ~Indexed(a)
  /\ job[w].pc = "retried" =>
       /\ job[w].answer \in {"committed", "superseded", "conflict", "failed", "unavailable"}
       /\ job[w].answer = "committed" => landed[a]
       /\ job[w].answer = "failed" => Unlanded(a) \/ history[a].lost
       /\ job[w].answer = "superseded" /\ Indexed(a) => Unlanded(a)

WorkerInv(w) ==
  /\ \A a \in batch[w] : journal[a].status # None
  /\ job[w].pc = "idle" => ~job[w].exact
  /\ job[w].pc # "idle" => job[w].a \in Attempts /\ journal[job[w].a].status # None
  /\ \A a \in Attempts : Holds(w, a) => TrustFits(w, a)

\* Of the workers that trust what they know of an entry, one works on it, and the
\* others are about to ask for it.
OneHolds ==
  \A v, w \in Workers : \A a \in Attempts :
    v # w /\ Holds(v, a) /\ Holds(w, a) => job[v].pc = "claim" \/ job[w].pc = "claim"

CompositionWorkerInv ==
  /\ CompositionWorkerTypeOK
  /\ \A a \in Attempts : AttemptInv(a)
  /\ \A w \in Workers : WorkerInv(w)
  /\ OneHolds

-----------------------------------------------------------------------------
(* What the parts of the state are, one by one. *)

JobType == [pc : {"idle", "claim", "start", "recover", "reconcile",
                  "reconciled", "retry-ready", "retried"},
            a : Attempts \cup {None}, exact : BOOLEAN, before : Phases \cup {None},
            answer : Verdicts \cup {"not-found", "unavailable"}]
HistoryType == [issued : Nat, unproved : BOOLEAN, blind : BOOLEAN, lost : BOOLEAN,
                late : BOOLEAN]

LEMMA Typed ==
  CompositionWorkerTypeOK <=>
    /\ lane \in [Attempts -> Lanes]
    /\ head \in [Attempts -> {"expected", "next", "other"}]
    /\ landed \in [Attempts -> BOOLEAN]
    /\ journal \in [Attempts -> EntryType]
    /\ batch \in [Workers -> SUBSET Attempts]
    /\ job \in [Workers -> JobType]
    /\ history \in [Attempts -> HistoryType]
    /\ mishaps \in 0 .. MaxMishaps
  BY DEF CompositionWorkerTypeOK, JobType, HistoryType

LEMMA Limits == MaxWrites \in Nat \ {0} /\ MaxFailures \in Nat \ {0} /\ MaxMishaps \in Nat
  BY CompositionWorkerAssumption

LEMMA NothingHeld == Idle \in JobType /\ Absent \in EntryType
  BY Limits DEF Idle, JobType, Absent, EntryType, Phases, Verdicts

\* The fields of the entry, the history and the job that the steps compare.
LEMMA Fields ==
  ASSUME CompositionWorkerTypeOK
  PROVE  /\ \A a \in Attempts :
              /\ journal[a] \in EntryType /\ history[a] \in HistoryType
              /\ journal[a].writes \in Nat /\ journal[a].writes <= MaxWrites
              /\ journal[a].failures \in Nat /\ journal[a].failures < MaxFailures
              /\ history[a].issued \in Nat
         /\ \A w \in Workers : job[w] \in JobType
<1>1. \A e \in EntryType : /\ e.writes \in Nat /\ e.writes <= MaxWrites
                           /\ e.failures \in Nat /\ e.failures < MaxFailures
  <2>1. \A e \in EntryType : e.writes \in 0 .. MaxWrites /\ e.failures \in 0 .. MaxFailures - 1
    BY DEF EntryType
  <2>. QED
    BY <2>1, Limits
<1>2. \A h \in HistoryType : h.issued \in Nat
  BY DEF HistoryType
<1>. QED
  BY <1>1, <1>2, Typed

\* There are finitely many writers, and their number follows the set.
LEMMA CountWriters ==
  ASSUME NEW W \in SUBSET Workers
  PROVE  /\ Cardinality(W) \in Nat
         /\ \A V \in SUBSET W : Cardinality(V) <= Cardinality(W)
         /\ \A w \in Workers \ W : Cardinality(W \cup {w}) = Cardinality(W) + 1
         /\ \A w \in W : Cardinality(W \ {w}) = Cardinality(W) - 1
<1>1. IsFiniteSet(W)
  BY CompositionWorkerAssumption, FS_Subset
<1>. QED
  BY <1>1, FS_CardinalityType, FS_Subset, FS_AddElement, FS_RemoveElement

-----------------------------------------------------------------------------
(* How the invariant is put together again after a step. *)

\* The step of one worker on one attempt leaves the other attempts alone, and of
\* the other workers at most their trust.
OnlyAttempt(a) ==
  /\ lane' = lane
  /\ \A b \in Attempts \ {a} :
       /\ journal'[b] = journal[b] /\ history'[b] = history[b]
       /\ landed'[b] = landed[b] /\ head'[b] = head[b]

SameBut(w) ==
  \A v \in Workers \ {w} :
    /\ batch'[v] = batch[v]
    /\ job'[v].pc = job[v].pc /\ job'[v].a = job[v].a
    /\ job'[v].before = job[v].before /\ job'[v].answer = job[v].answer
    /\ job'[v].exact => job[v].exact

\* What the others trust stays true, or they do not trust it any more.
LEMMA OthersKeep ==
  ASSUME CompositionWorkerInv, NEW a \in Attempts, OnlyAttempt(a), NEW v \in Workers,
         batch'[v] = batch[v],
         job'[v].pc = job[v].pc, job'[v].a = job[v].a, job'[v].before = job[v].before,
         job'[v].answer = job[v].answer, job'[v].exact => job[v].exact,
         job'[v].exact \in BOOLEAN, job[v].exact \in BOOLEAN,
         journal[a].status # None => journal'[a].status # None,
         job'[v].exact /\ Holds(v, a) /\ TrustFits(v, a) => TrustFits(v, a)'
  PROVE  WorkerInv(v)'
<1>1. WorkerInv(v) /\ batch[v] \subseteq Attempts
  BY Typed DEF CompositionWorkerInv
<1>2. \A b \in Attempts : journal[b].status # None => journal'[b].status # None
  BY DEF OnlyAttempt
<1>3. ASSUME NEW b \in Attempts \ {a}, Holds(v, b)' PROVE TrustFits(v, b)'
  <2>1. TrustFits(v, b)
    BY <1>1, <1>3 DEF WorkerInv, Holds
  <2>. QED
    BY <2>1 DEF OnlyAttempt, TrustFits, Interrupted, Uncounted, Unlanded, Indexed
<1>4. Holds(v, a)' => TrustFits(v, a)'
  BY <1>1 DEF WorkerInv, Holds
<1>. QED
  BY <1>1, <1>2, <1>3, <1>4 DEF WorkerInv

LEMMA AttemptsKeep ==
  ASSUME CompositionWorkerInv, NEW a \in Attempts, OnlyAttempt(a), NEW b \in Attempts \ {a},
         Writers(b)' = Writers(b)
  PROVE  AttemptInv(b)'
<1>1. AttemptInv(b)
  BY DEF CompositionWorkerInv
<1>. QED
  BY <1>1 DEF OnlyAttempt, AttemptInv, HeadTells, EntryFits, VerdictFits, WritesFit, Uncounted,
              Unlanded, Indexed

\* A compare-and-swap of the entry by a worker that trusted it.
LEMMA StoreFacts ==
  ASSUME CompositionWorkerTypeOK, NEW w \in Workers, NEW a \in Attempts,
         NEW e \in EntryType, NEW k \in JobType, Store(w, a, e, k)
  PROVE  /\ journal'[a] = e /\ \A b \in Attempts \ {a} : journal'[b] = journal[b]
         /\ journal' \in [Attempts -> EntryType]
         /\ job'[w] = k /\ job' \in [Workers -> JobType]
         /\ \A v \in Workers \ {w} :
              /\ job'[v].pc = job[v].pc /\ job'[v].a = job[v].a
              /\ job'[v].before = job[v].before /\ job'[v].answer = job[v].answer
              /\ job'[v].exact <=> job[v].exact /\ job[v].a # a
              /\ job'[v].exact \in BOOLEAN /\ job[v].exact \in BOOLEAN
<1>1. journal \in [Attempts -> EntryType] /\ job \in [Workers -> JobType]
  BY Typed
<1>2. /\ journal'[a] = e /\ \A b \in Attempts \ {a} : journal'[b] = journal[b]
      /\ journal' \in [Attempts -> EntryType]
  BY <1>1 DEF Store
<1>3. ASSUME NEW v \in Workers \ {w}
      PROVE  /\ job'[v] = [job[v] EXCEPT !.exact = job[v].exact /\ job[v].a # a]
             /\ job'[v] \in JobType
             /\ job'[v].pc = job[v].pc /\ job'[v].a = job[v].a
             /\ job'[v].before = job[v].before /\ job'[v].answer = job[v].answer
             /\ job'[v].exact <=> job[v].exact /\ job[v].a # a
             /\ job'[v].exact \in BOOLEAN /\ job[v].exact \in BOOLEAN
  <2>1. job'[v] = [job[v] EXCEPT !.exact = job[v].exact /\ job[v].a # a]
    BY <1>1 DEF Store
  <2>. QED
    BY <1>1, <2>1 DEF JobType
<1>4. job'[w] = k /\ job' \in [Workers -> JobType]
  <2>1. job'[w] = k
    BY DEF Store
  <2>2. \A v \in Workers : job'[v] \in JobType
    BY <1>3, <2>1
  <2>3. job' = [v \in Workers |-> job'[v]]
    BY DEF Store
  <2>. QED
    BY <2>1, <2>2, <2>3
<1>. QED
  BY <1>2, <1>3, <1>4

\* The writers after a step of one worker that ran the attempt a.
LEMMA WritersStep ==
  ASSUME CompositionWorkerTypeOK, NEW w \in Workers, NEW a \in Attempts, SameBut(w),
         job[w].a = a, job'[w].pc # "idle" => job'[w].a = a
  PROVE  /\ \A b \in Attempts \ {a} : Writers(b)' = Writers(b)
         /\ Writers(a)' = IF job'[w].pc = "retry-ready" THEN Writers(a) \cup {w}
                                                       ELSE Writers(a) \ {w}
         /\ w \in Writers(a) <=> job[w].pc = "retry-ready"
  BY DEF SameBut, Writers

LEMMA StoreKeeps ==
  ASSUME CompositionWorkerInv, NEW w \in Workers, NEW a \in Attempts, job[w].a = a,
         NEW e \in EntryType, NEW k \in JobType, Store(w, a, e, k), e.status # None,
         UNCHANGED <<lane, head, landed, batch, mishaps>>,
         history' \in [Attempts -> HistoryType],
         \A b \in Attempts \ {a} : history'[b] = history[b],
         k.pc # "idle" => k.a = a, k.pc = "idle" => ~k.exact,
         k.exact => TrustFits(w, a)',
         AttemptInv(a)'
  PROVE  CompositionWorkerInv'
<1>1. /\ journal'[a] = e /\ \A b \in Attempts \ {a} : journal'[b] = journal[b]
      /\ journal' \in [Attempts -> EntryType]
      /\ job'[w] = k /\ job' \in [Workers -> JobType]
      /\ \A v \in Workers \ {w} :
           /\ job'[v].pc = job[v].pc /\ job'[v].a = job[v].a
           /\ job'[v].before = job[v].before /\ job'[v].answer = job[v].answer
           /\ job'[v].exact <=> job[v].exact /\ job[v].a # a
           /\ job'[v].exact \in BOOLEAN /\ job[v].exact \in BOOLEAN
  BY StoreFacts DEF CompositionWorkerInv
<1>2. CompositionWorkerTypeOK'
  BY <1>1, Typed DEF CompositionWorkerInv, CompositionWorkerTypeOK, JobType, HistoryType
<1>3. OnlyAttempt(a) /\ SameBut(w)
  BY <1>1 DEF OnlyAttempt, SameBut
<1>4. \A b \in Attempts : AttemptInv(b)'
  BY <1>1, <1>3, WritersStep, AttemptsKeep DEF CompositionWorkerInv
<1>5. \A v \in Workers \ {w} : WorkerInv(v)'
  BY <1>1, <1>3, OthersKeep DEF Holds
<1>6. WorkerInv(w)'
  <2>1. \A b \in Attempts : Holds(w, b)' => b = a /\ k.exact
    BY <1>1 DEF Holds
  <2>2. \A b \in batch'[w] : journal'[b].status # None
    BY <1>1, Typed DEF CompositionWorkerInv, WorkerInv
  <2>. QED
    BY <1>1, <2>1, <2>2 DEF WorkerInv
<1>7. OneHolds'
  <2>1. \A v \in Workers \ {w} : ~Holds(v, a)' /\ \A b \in Attempts : Holds(v, b)' => Holds(v, b)
    BY <1>1 DEF Holds
  <2>2. \A b \in Attempts : Holds(w, b)' => b = a
    BY <1>1 DEF Holds
  <2>. QED
    BY <1>1, <2>1, <2>2 DEF CompositionWorkerInv, OneHolds
<1>. QED
  BY <1>2, <1>4, <1>5, <1>6, <1>7 DEF CompositionWorkerInv

\* A step that changes what one worker knows, and no more.
LEMMA JobKeeps ==
  ASSUME CompositionWorkerInv, NEW w \in Workers, NEW k \in JobType,
         job' = [job EXCEPT ![w] = k],
         UNCHANGED <<lane, head, landed, journal, history>>,
         mishaps' \in 0 .. MaxMishaps,
         batch' \in [Workers -> SUBSET Attempts], \A v \in Workers \ {w} : batch'[v] = batch[v],
         k.pc # "retry-ready" \/ k = job[w],
         WorkerInv(w)',
         \A a \in Attempts : Holds(w, a)' =>
           k.pc = "claim" \/ (Holds(w, a) /\ job[w].pc # "claim")
  PROVE  CompositionWorkerInv'
<1>1. /\ job'[w] = k /\ job' \in [Workers -> JobType]
      /\ \A v \in Workers \ {w} : job'[v] = job[v]
  BY Typed DEF CompositionWorkerInv
<1>2. CompositionWorkerTypeOK'
  BY <1>1, Typed DEF CompositionWorkerInv, CompositionWorkerTypeOK, JobType
<1>3. ASSUME NEW a \in Attempts PROVE AttemptInv(a)'
  <2>1. Writers(a)' \subseteq Writers(a) /\ Writers(a) \subseteq Workers
    BY <1>1 DEF Writers
  <2>2. /\ Cardinality(Writers(a)') \in Nat /\ Cardinality(Writers(a)) \in Nat
        /\ Cardinality(Writers(a)') <= Cardinality(Writers(a))
    BY <2>1, CountWriters
  <2>3. AttemptInv(a) /\ history[a].issued \in Nat /\ journal[a].writes \in Nat
    BY Fields DEF CompositionWorkerInv
  <2>4. WritesFit(a)'
    BY <2>2, <2>3 DEF AttemptInv, WritesFit, Uncounted
  <2>. QED
    BY <2>3, <2>4 DEF AttemptInv, HeadTells, EntryFits, VerdictFits, Uncounted, Unlanded, Indexed
<1>4. ASSUME NEW v \in Workers \ {w} PROVE WorkerInv(v)'
  BY <1>1 DEF CompositionWorkerInv, WorkerInv, Holds, TrustFits, Interrupted, Uncounted, Unlanded,
              Indexed
<1>5. OneHolds'
  BY <1>1 DEF CompositionWorkerInv, OneHolds, Holds
<1>. QED
  BY <1>2, <1>3, <1>4, <1>5 DEF CompositionWorkerInv

-----------------------------------------------------------------------------
(* The steps of a worker. *)

LEMMA AttemptTyped ==
  ASSUME CompositionWorkerInv, NEW w \in Workers, job[w].pc # "idle"
  PROVE  /\ job[w].a \in Attempts /\ job[w] \in JobType /\ journal[job[w].a] \in EntryType
         /\ history[job[w].a] \in HistoryType /\ AttemptInv(job[w].a) /\ WorkerInv(w)
         /\ journal[job[w].a].status # None
  BY Fields DEF CompositionWorkerInv, WorkerInv

\* A worker that is refused, or fails, forgets what it held.
LEMMA DoneInv ==
  ASSUME CompositionWorkerInv, NEW w \in Workers, Done(w),
         UNCHANGED <<lane, head, landed, journal, history>>, mishaps' \in 0 .. MaxMishaps,
         batch' \in [Workers -> SUBSET Attempts], \A v \in Workers \ {w} : batch'[v] = batch[v],
         batch'[w] \subseteq batch[w]
  PROVE  CompositionWorkerInv'
<1>1. job'[w] = Idle
  BY Typed DEF CompositionWorkerInv, Done
<1>2. \A a \in Attempts : ~Holds(w, a)'
  BY <1>1 DEF Holds, Idle
<1>3. WorkerInv(w)'
  BY <1>1, <1>2 DEF CompositionWorkerInv, WorkerInv, Idle
<1>4. Idle.pc # "retry-ready"
  BY DEF Idle
<1>. QED
  BY <1>2, <1>3, <1>4, NothingHeld, JobKeeps DEF Done

LEMMA DoneKeeps ==
  ASSUME CompositionWorkerInv, NEW w \in Workers, Done(w),
         UNCHANGED <<lane, head, landed, journal, history, batch, mishaps>>
  PROVE  CompositionWorkerInv'
  BY DoneInv, Typed DEF CompositionWorkerInv

LEMMA ListDueInv == ASSUME CompositionWorkerInv, NEW w \in Workers, ListDue(w) PROVE CompositionWorkerInv'
<1>1. /\ batch' = [batch EXCEPT ![w] = {a \in Attempts : Due(a)}] /\ job' = job
      /\ job[w].pc = "idle" /\ ~job[w].exact /\ job \in [Workers -> JobType]
      /\ batch \in [Workers -> SUBSET Attempts] /\ mishaps \in 0 .. MaxMishaps
      /\ UNCHANGED <<lane, head, landed, journal, history, mishaps>>
  BY Typed DEF ListDue, At, OnlyJob, CompositionWorkerInv, WorkerInv
<1>2. job' = [job EXCEPT ![w] = job[w]] /\ job[w] \in JobType
  BY <1>1
<1>3. /\ batch' \in [Workers -> SUBSET Attempts] /\ \A v \in Workers \ {w} : batch'[v] = batch[v]
      /\ batch'[w] = {a \in Attempts : Due(a)}
  BY <1>1
<1>4. \A a \in Attempts : ~Holds(w, a)'
  BY <1>1 DEF Holds
<1>5. WorkerInv(w)'
  BY <1>1, <1>3, <1>4 DEF WorkerInv, Due, None
<1>. QED
  BY <1>1, <1>2, <1>3, <1>4, <1>5, JobKeeps

LEMMA ReadInv == ASSUME CompositionWorkerInv, NEW w \in Workers, Read(w) PROVE CompositionWorkerInv'
<1>1. PICK a \in batch[w] :
        /\ job[w].pc = "idle" /\ batch' = [batch EXCEPT ![w] = @ \ {a}]
        /\ IF journal[a].status = "completed" THEN UNCHANGED job
           ELSE job' = [job EXCEPT ![w] = [Idle EXCEPT !.pc = "claim", !.a = a,
                          !.exact = TRUE, !.before = journal[a].marker]]
        /\ UNCHANGED <<lane, head, landed, journal, history, mishaps>>
  BY DEF Read, At, OnlyJob
<1>2. /\ job \in [Workers -> JobType] /\ batch \in [Workers -> SUBSET Attempts]
      /\ mishaps \in 0 .. MaxMishaps /\ WorkerInv(w) /\ ~job[w].exact
  BY <1>1, Typed DEF CompositionWorkerInv, WorkerInv
<1>3. /\ batch' \in [Workers -> SUBSET Attempts] /\ \A v \in Workers \ {w} : batch'[v] = batch[v]
      /\ batch'[w] \subseteq batch[w] /\ a \in Attempts
  BY <1>1, <1>2
<1>4. CASE journal[a].status = "completed"
  <2>1. job' = job /\ job' = [job EXCEPT ![w] = job[w]] /\ job[w] \in JobType
    BY <1>1, <1>2, <1>4
  <2>2. \A b \in Attempts : ~Holds(w, b)'
    BY <1>2, <2>1 DEF Holds
  <2>3. WorkerInv(w)'
    BY <1>1, <1>2, <1>3, <2>1, <2>2 DEF WorkerInv
  <2>. QED
    BY <1>1, <1>2, <1>3, <2>1, <2>2, <2>3, JobKeeps
<1>5. CASE journal[a].status # "completed"
  <2>. DEFINE k == [Idle EXCEPT !.pc = "claim", !.a = a, !.exact = TRUE, !.before = journal[a].marker]
  <2>1. journal[a].marker \in Phases \cup {None} /\ journal[a].status # None
    BY <1>1, <1>2, <1>3, Fields DEF EntryType, CompositionWorkerInv, WorkerInv
  <2>2. k \in JobType /\ k.pc = "claim" /\ k.a = a /\ k.exact = TRUE /\ k.before = journal[a].marker
    BY <1>3, <2>1, NothingHeld DEF Idle, JobType
  <2>3. job' = [job EXCEPT ![w] = k]
    BY <1>1, <1>5
  <2>. HIDE DEF k
  <2>4. job'[w] = k
    BY <1>2, <2>3
  <2>5. \A b \in Attempts : Holds(w, b)' => b = a
    BY <2>2, <2>4 DEF Holds
  <2>6. TrustFits(w, a)'
    BY <1>1, <2>2, <2>4 DEF TrustFits
  <2>7. WorkerInv(w)'
    BY <1>1, <1>2, <1>3, <2>1, <2>2, <2>4, <2>5, <2>6 DEF WorkerInv
  <2>. QED
    BY <1>1, <1>2, <1>3, <2>2, <2>3, <2>7, JobKeeps
<1>. QED
  BY <1>4, <1>5

LEMMA ClaimInv == ASSUME CompositionWorkerInv, NEW w \in Workers, Claim(w) PROVE CompositionWorkerInv'
<1>0. PICK a \in Attempts : a = job[w].a
  BY AttemptTyped DEF Claim, At
<1>. DEFINE e == [Rewritten(a) EXCEPT !.status = "claimed"]
            k == [job[w] EXCEPT !.pc = "start"]
            forgotten == journal[a].phase = "retry-ready" /\ journal[a].marker = None
                           /\ history[a].unproved
<1>1. /\ job[w] \in JobType /\ journal[a] \in EntryType
      /\ history[a] \in HistoryType /\ AttemptInv(a) /\ WorkerInv(w)
      /\ job[w].pc = "claim" /\ journal[a].status # None
  BY <1>0, AttemptTyped DEF Claim, At
<1>2. CASE Done(w) /\ UNCHANGED <<journal, history>>
  BY <1>2, DoneKeeps DEF Claim
<1>3. CASE /\ Holds(w, a) /\ Due(a) /\ Store(w, a, e, k)
           /\ history' = [history EXCEPT ![a].lost = @ \/ forgotten]
  <2>1. /\ e \in EntryType /\ e.status = "claimed" /\ e.marker = None
        /\ e.phase = journal[a].phase /\ e.writes = journal[a].writes
        /\ e.verdict = journal[a].verdict
    BY <1>1 DEF Rewritten, EntryType
  <2>2. /\ k \in JobType /\ k.pc = "start" /\ k.a = a /\ k.before = job[w].before
        /\ k.answer = job[w].answer
    BY <1>0, <1>1 DEF JobType
  <2>3. TrustFits(w, a)
    BY <1>1, <1>3 DEF WorkerInv
  <2>4. history \in [Attempts -> HistoryType]
    BY Typed DEF CompositionWorkerInv
  <2>5. history'[a] = [history[a] EXCEPT !.lost = history[a].lost \/ forgotten]
    BY <1>1, <1>3, <2>4
  <2>6. /\ history'[a] \in HistoryType
        /\ history'[a].issued = history[a].issued /\ history'[a].unproved = history[a].unproved
        /\ history'[a].blind = history[a].blind /\ history'[a].late = history[a].late
        /\ history'[a].lost <=> history[a].lost \/ forgotten
    BY <1>1, <2>5 DEF HistoryType
  <2>7. history' \in [Attempts -> HistoryType] /\ \A b \in Attempts \ {a} : history'[b] = history[b]
    BY <1>1, <1>3, <2>4, <2>6
  <2>8. UNCHANGED <<lane, head, landed, batch, mishaps>>
    BY DEF Claim
  <2>9. journal[a].verdict = None
    BY <1>1, <1>3 DEF Due, AttemptInv, EntryFits
  <2>10. forgotten \/ ~forgotten
    OBVIOUS
  <2>. HIDE DEF e, k
  <2>11. journal'[a] = e /\ job'[w] = k
    BY <1>1, <1>3, <2>1, <2>2, StoreFacts DEF CompositionWorkerInv
  <2>12. Writers(a)' = Writers(a)
    <3>1. \A v \in Workers \ {w} : job'[v].pc = job[v].pc /\ job'[v].a = job[v].a
      BY <1>3, <2>1, <2>2, StoreFacts DEF CompositionWorkerInv
    <3>. QED
      BY <1>1, <2>2, <2>11, <3>1 DEF Writers
  <2>13. AttemptInv(a)'
    <3>1. HeadTells(a)' /\ VerdictFits(a)'
      BY <1>1, <2>1, <2>8, <2>9, <2>11 DEF AttemptInv, HeadTells, VerdictFits, None
    <3>2. EntryFits(a)'
      BY <1>1, <2>1, <2>6, <2>8, <2>9, <2>11 DEF AttemptInv, EntryFits, Unlanded, None
    <3>3. WritesFit(a)'
      BY <1>1, <2>1, <2>6, <2>11, <2>12 DEF AttemptInv, WritesFit, Uncounted
    <3>. QED
      BY <3>1, <3>2, <3>3 DEF AttemptInv
  <2>14. TrustFits(w, a)'
    <3>1. job[w].before = journal[a].marker
      BY <1>1, <2>3 DEF TrustFits
    <3>2. Uncounted(a)' <=> Uncounted(a)
      BY <2>1, <2>6, <2>11 DEF Uncounted
    <3>3. journal[a].marker = "retry-ready" => Uncounted(a)
      BY <1>1 DEF AttemptInv, EntryFits, Uncounted, None
    <3>4. Uncounted(a) /\ journal[a].marker # "retry-ready" => forgotten
      BY <1>1 DEF AttemptInv, EntryFits, Uncounted
    <3>. QED
      BY <2>1, <2>2, <2>6, <2>11, <3>1, <3>2, <3>3, <3>4 DEF TrustFits, Interrupted
  <2>. QED
    BY <1>0, <1>1, <1>3, <2>1, <2>2, <2>7, <2>8, <2>13, <2>14, StoreKeeps DEF None
<1>. QED
  BY <1>0, <1>2, <1>3 DEF Claim

\* The writers of an attempt whose worker stores a new entry.
LEMMA StoredWriters ==
  ASSUME CompositionWorkerInv, NEW w \in Workers, NEW a \in Attempts, job[w].a = a,
         NEW e \in EntryType, NEW k \in JobType, Store(w, a, e, k), k.pc # "idle" => k.a = a
  PROVE  Writers(a)' = IF k.pc = "retry-ready" THEN Writers(a) \cup {w} ELSE Writers(a) \ {w}
<1>1. job'[w] = k /\ \A v \in Workers \ {w} : job'[v].pc = job[v].pc /\ job'[v].a = job[v].a
  BY StoreFacts DEF CompositionWorkerInv
<1>. QED
  BY <1>1 DEF Writers

LEMMA StartInv == ASSUME CompositionWorkerInv, NEW w \in Workers, Start(w) PROVE CompositionWorkerInv'
<1>0. PICK a \in Attempts : a = job[w].a
  BY AttemptTyped DEF Start, At
<1>. DEFINE e == [journal[a] EXCEPT !.marker = journal[a].phase]
            k == [job[w] EXCEPT !.pc = IF Interrupted(w) THEN "recover" ELSE journal[a].phase]
<1>1. /\ job[w] \in JobType /\ journal[a] \in EntryType
      /\ history[a] \in HistoryType /\ AttemptInv(a) /\ WorkerInv(w)
      /\ job[w].pc = "start" /\ journal[a].phase \in Phases
      /\ history \in [Attempts -> HistoryType]
      /\ UNCHANGED <<lane, head, landed, batch, mishaps>>
  BY <1>0, AttemptTyped, Typed DEF Start, At, AttemptInv, EntryFits, CompositionWorkerInv
<1>2. CASE Done(w) /\ UNCHANGED <<journal, history>>
  BY <1>1, <1>2, DoneKeeps
<1>3. CASE /\ Holds(w, a) /\ journal[a].status = "claimed"
           /\ Store(w, a, e, k)
           /\ history' = IF Interrupted(w) \/ journal[a].phase = "reconcile" THEN history
               ELSE [history EXCEPT ![a].unproved = TRUE, ![a].blind = @ \/ history[a].unproved]
  <2>1. /\ e \in EntryType /\ e.status = "claimed" /\ e.marker = journal[a].phase
        /\ e.phase = journal[a].phase /\ e.writes = journal[a].writes
        /\ e.verdict = journal[a].verdict
    BY <1>1, <1>3 DEF EntryType
  <2>2. /\ k \in JobType /\ k.a = a /\ k.before = job[w].before /\ k.answer = job[w].answer
        /\ k.pc = IF Interrupted(w) THEN "recover" ELSE journal[a].phase
    BY <1>0, <1>1 DEF JobType, Phases
  <2>. HIDE DEF e, k
  <2>3. journal'[a] = e /\ job'[w] = k
    BY <1>3, <2>1, <2>2, StoreFacts DEF CompositionWorkerInv
  <2>4. /\ Interrupted(w) => Uncounted(a)
        /\ ~Interrupted(w) /\ Uncounted(a) => history[a].lost
        /\ journal[a].verdict = None
    BY <1>1, <1>3 DEF WorkerInv, TrustFits, AttemptInv, EntryFits
  <2>5. HeadTells(a)' /\ VerdictFits(a)'
    BY <1>1, <2>1, <2>3, <2>4 DEF AttemptInv, HeadTells, VerdictFits, None
  <2>6. /\ Writers(a)' = IF k.pc = "retry-ready" THEN Writers(a) \cup {w} ELSE Writers(a) \ {w}
        /\ w \in Workers \ Writers(a) /\ Writers(a) \in SUBSET Workers
    BY <1>0, <1>1, <1>3, <2>1, <2>2, StoredWriters DEF Writers
  <2>7. CASE Interrupted(w) \/ journal[a].phase = "reconcile"
    <3>1. history' = history
      BY <1>3, <2>7
    <3>2. Writers(a)' = Writers(a)
      BY <2>2, <2>6, <2>7
    <3>3. WritesFit(a)'
      BY <1>1, <2>1, <2>3, <3>1, <3>2 DEF AttemptInv, WritesFit, Uncounted
    <3>4. EntryFits(a)'
      BY <1>1, <2>1, <2>3, <2>4, <2>7, <3>1 DEF AttemptInv, EntryFits, Unlanded, Uncounted, None
    <3>5. TrustFits(w, a)'
      BY <2>1, <2>2, <2>3, <2>4, <2>7, <3>1 DEF TrustFits, Uncounted, Interrupted
    <3>6. AttemptInv(a)'
      BY <2>5, <3>3, <3>4 DEF AttemptInv
    <3>. QED
      BY <1>0, <1>1, <1>3, <2>1, <2>2, <3>1, <3>5, <3>6, StoreKeeps DEF None, Phases
  <2>8. CASE ~Interrupted(w) /\ journal[a].phase = "retry-ready"
    <3>1. history' = [history EXCEPT ![a].unproved = TRUE, ![a].blind = @ \/ history[a].unproved]
      BY <1>3, <2>8
    <3>2. /\ history'[a] \in HistoryType
          /\ history'[a].issued = history[a].issued /\ history'[a].unproved = TRUE
          /\ history'[a].blind <=> history[a].blind \/ history[a].unproved
          /\ history'[a].late = history[a].late /\ history'[a].lost = history[a].lost
      BY <1>1, <3>1 DEF HistoryType
    <3>3. history' \in [Attempts -> HistoryType] /\ \A b \in Attempts \ {a} : history'[b] = history[b]
      BY <1>1, <3>1, <3>2
    <3>4. Cardinality(Writers(a)') = Cardinality(Writers(a)) + 1 /\ Cardinality(Writers(a)) \in Nat
      BY <2>2, <2>6, <2>8, CountWriters
    <3>5. journal[a].writes \in Nat /\ history[a].issued \in Nat
      BY Fields DEF CompositionWorkerInv
    <3>6. ~history[a].lost => ~history[a].unproved
      BY <2>4, <2>8 DEF Uncounted
    <3>7. ~Uncounted(a) => Unlanded(a)
      BY <1>1, <2>8 DEF Uncounted, AttemptInv, EntryFits
    <3>8. WritesFit(a)'
      <4>1. ~history[a].lost =>
              ~history[a].blind /\ history[a].issued + Cardinality(Writers(a)) <= journal[a].writes
        <5>1. ~history[a].lost => ~Uncounted(a)
          BY <3>6 DEF Uncounted
        <5>. QED
          BY <1>1, <3>4, <3>5, <5>1 DEF AttemptInv, WritesFit
      <4>2. Uncounted(a)'
        BY <2>1, <2>3, <2>8, <3>2 DEF Uncounted
      <4>3. ~history[a].lost =>
              history[a].issued + (Cardinality(Writers(a)) + 1) <= journal[a].writes + 1
        BY <3>4, <3>5, <4>1
      <4>. QED
        BY <2>1, <2>3, <3>2, <3>4, <3>6, <4>1, <4>2, <4>3 DEF WritesFit
    <3>9. EntryFits(a)'
      BY <1>1, <2>1, <2>3, <2>4, <2>8, <3>2 DEF AttemptInv, EntryFits, None
    <3>10. TrustFits(w, a)'
      BY <1>1, <2>1, <2>2, <2>3, <2>4, <2>8, <3>2, <3>7 DEF TrustFits, Uncounted, Unlanded
    <3>11. AttemptInv(a)'
      BY <2>5, <3>8, <3>9 DEF AttemptInv
    <3>. QED
      BY <1>0, <1>1, <1>3, <2>1, <2>2, <2>8, <3>3, <3>10, <3>11, StoreKeeps DEF None
  <2>. QED
    BY <1>1, <2>7, <2>8 DEF Phases
<1>. QED
  BY <1>0, <1>2, <1>3 DEF Start

\* A worker writes down what it found, and is done: the entry counts as much as
\* before, and its verdict is true.
LEMMA SettleKeeps ==
  ASSUME CompositionWorkerInv, NEW w \in Workers, NEW a \in Attempts, job[w].a = a,
         job[w].pc # "retry-ready",
         NEW e \in EntryType, Settle(w, a, e),
         e.status \in {"pending", "completed"}, e.phase \in Phases, e.marker = None,
         UNCHANGED <<lane, head, landed, batch, mishaps>>,
         history' \in [Attempts -> HistoryType],
         \A b \in Attempts \ {a} : history'[b] = history[b],
         history'[a].issued = history[a].issued, history'[a].blind = history[a].blind,
         history'[a].lost = history[a].lost, history'[a].late = history[a].late,
         e.verdict # None => e.status = "completed",
         e.phase = "retry-ready" => e.writes < MaxWrites /\ (history'[a].unproved \/ Unlanded(a)),
         e.verdict = "committed" => landed[a],
         e.verdict \in {"exhausted", "failed"} => Unlanded(a) \/ history[a].lost,
         e.verdict = "superseded" /\ Indexed(a) => Unlanded(a),
         journal[a].writes + (IF Uncounted(a) THEN 1 ELSE 0)
           <= e.writes + (IF e.phase = "retry-ready" /\ history'[a].unproved THEN 1 ELSE 0)
  PROVE  CompositionWorkerInv'
<1>1. Store(w, a, e, Idle) /\ Idle.pc = "idle" /\ ~Idle.exact /\ AttemptInv(a)
  BY DEF Settle, Idle, CompositionWorkerInv
<1>2. journal'[a] = e /\ Writers(a)' = Writers(a) \ {w}
  <2>1. journal'[a] = e
    BY <1>1, NothingHeld, StoreFacts DEF CompositionWorkerInv
  <2>2. Idle.pc # "retry-ready"
    BY <1>1
  <2>3. Writers(a)' = IF Idle.pc = "retry-ready" THEN Writers(a) \cup {w} ELSE Writers(a) \ {w}
    BY <1>1, NothingHeld, StoredWriters
  <2>. QED
    BY <2>1, <2>2, <2>3
<1>3. Writers(a)' = Writers(a) /\ Writers(a) \in SUBSET Workers
  BY <1>2 DEF Writers
<1>4. HeadTells(a)' /\ EntryFits(a)' /\ VerdictFits(a)'
  BY <1>1, <1>2 DEF AttemptInv, HeadTells, EntryFits, VerdictFits, Unlanded, Indexed, None
<1>5. WritesFit(a)'
  <2>. DEFINE n == Cardinality(Writers(a))
              i == history[a].issued
  <2>1. /\ n \in Nat /\ i \in Nat /\ journal[a].writes \in Nat /\ e.writes \in Nat
    <3>1. e.writes \in 0 .. MaxWrites
      BY DEF EntryType
    <3>. QED
      BY <1>3, <3>1, Limits, CountWriters, Fields DEF CompositionWorkerInv
  <2>2. Uncounted(a)' <=> e.phase = "retry-ready" /\ history'[a].unproved
    BY <1>2 DEF Uncounted
  <2>3. history[a].lost \/ (~history[a].blind /\ i + n <= journal[a].writes + (IF Uncounted(a) THEN 1 ELSE 0))
    BY <1>1 DEF AttemptInv, WritesFit
  <2>. HIDE DEF n, i
  <2>4. history[a].lost
          \/ (~history[a].blind /\ i + n <= e.writes + (IF e.phase = "retry-ready" /\ history'[a].unproved THEN 1 ELSE 0))
    BY <2>1, <2>3
  <2>. QED
    BY <1>2, <1>3, <2>2, <2>4 DEF WritesFit, n, i
<1>6. AttemptInv(a)'
  BY <1>4, <1>5 DEF AttemptInv
<1>. QED
  BY <1>1, <1>6, NothingHeld, StoreKeeps DEF None

\* What a worker that settles starts from.
LEMMA SettlesFrom ==
  ASSUME CompositionWorkerInv, NEW w \in Workers, NEW a \in Attempts, a = job[w].a, Live(w, a),
         job[w].pc # "claim"
  PROVE  /\ TrustFits(w, a) /\ AttemptInv(a) /\ journal[a] \in EntryType
         /\ journal[a].writes \in Nat /\ journal[a].writes <= MaxWrites
         /\ journal[a].failures \in Nat /\ journal[a].failures < MaxFailures
         /\ journal[a].phase \in Phases /\ journal[a].verdict = None
         /\ history \in [Attempts -> HistoryType]
  BY Fields, Typed DEF Live, CompositionWorkerInv, WorkerInv, AttemptInv, EntryFits, None

\* What the entry says after a release, and after a completion.
LEMMA ReleasedFields ==
  ASSUME NEW a \in Attempts, journal[a] \in EntryType, NEW p \in Phases,
         NEW n \in 0 .. MaxWrites, NEW f \in 0 .. MaxFailures - 1, NEW ripe \in BOOLEAN
  PROVE  /\ Released(a, p, n, f, ripe) \in EntryType
         /\ Released(a, p, n, f, ripe).status = "pending"
         /\ Released(a, p, n, f, ripe).marker = None
         /\ Released(a, p, n, f, ripe).phase = p
         /\ Released(a, p, n, f, ripe).writes = n
         /\ Released(a, p, n, f, ripe).verdict = journal[a].verdict
<1>1. Rewritten(a) \in EntryType /\ Rewritten(a).marker = None
      /\ Rewritten(a).verdict = journal[a].verdict
  BY DEF Rewritten, EntryType
<1>. QED
  BY <1>1 DEF Released, EntryType

LEMMA CompletedFields ==
  ASSUME NEW a \in Attempts, journal[a] \in EntryType, NEW v \in Verdicts
  PROVE  /\ Completed(a, v) \in EntryType
         /\ Completed(a, v).status = "completed" /\ Completed(a, v).marker = None
         /\ Completed(a, v).phase = journal[a].phase
         /\ Completed(a, v).writes = journal[a].writes /\ Completed(a, v).verdict = v
<1>1. Rewritten(a) \in EntryType /\ Rewritten(a).marker = None
      /\ Rewritten(a).phase = journal[a].phase /\ Rewritten(a).writes = journal[a].writes
  BY DEF Rewritten, EntryType
<1>. QED
  BY <1>1 DEF Completed, EntryType

LEMMA RecoverInv == ASSUME CompositionWorkerInv, NEW w \in Workers, Recover(w) PROVE CompositionWorkerInv'
<1>1. PICK a \in Attempts : a = job[w].a
  BY AttemptTyped DEF Recover, At
<1>2. CASE ~Live(w, a)
  BY <1>1, <1>2, DoneKeeps DEF Recover
<1>3. CASE Live(w, a)
  <2>0. PICK ripe \in BOOLEAN : ripe = TRUE
    OBVIOUS
  <2>. DEFINE e == Released(a, "reconcile", journal[a].writes + 1, 0, ripe)
  <2>1. /\ TrustFits(w, a) /\ AttemptInv(a) /\ journal[a] \in EntryType
        /\ journal[a].writes \in Nat /\ journal[a].verdict = None
        /\ job[w].pc = "recover"
        /\ UNCHANGED <<lane, head, landed, batch, history, mishaps>>
        /\ history \in [Attempts -> HistoryType]
    BY <1>1, <1>3, SettlesFrom DEF Recover, At
  <2>2. Uncounted(a) /\ journal[a].writes + 1 \in 0 .. MaxWrites /\ 0 \in 0 .. MaxFailures - 1
    BY <2>1, Limits DEF TrustFits, AttemptInv, EntryFits, Uncounted
  <2>3. /\ e \in EntryType /\ e.status = "pending" /\ e.marker = None /\ e.phase = "reconcile"
        /\ e.writes = journal[a].writes + 1 /\ e.verdict = None
    BY <2>1, <2>2, ReleasedFields DEF Phases
  <2>5. Settle(w, a, e)
    BY <1>1, <1>3, <2>0 DEF Recover, Recovered
  <2>. HIDE DEF e
  <2>4. journal[a].writes + (IF Uncounted(a) THEN 1 ELSE 0)
          <= e.writes + (IF e.phase = "retry-ready" /\ history'[a].unproved THEN 1 ELSE 0)
    BY <2>1, <2>2, <2>3
  <2>. QED
    BY <1>1, <2>1, <2>3, <2>4, <2>5, SettleKeeps DEF None, Phases
<1>. QED
  BY <1>2, <1>3

LEMMA SettleRetryInv ==
  ASSUME CompositionWorkerInv, NEW w \in Workers, SettleRetry(w) PROVE CompositionWorkerInv'
<1>1. PICK a \in Attempts : a = job[w].a
  BY AttemptTyped DEF SettleRetry, At
<1>2. CASE ~Live(w, a)
  BY <1>1, <1>2, DoneKeeps DEF SettleRetry
<1>3. CASE Live(w, a)
  <2>1. /\ TrustFits(w, a) /\ AttemptInv(a) /\ journal[a] \in EntryType
        /\ journal[a].writes \in Nat /\ journal[a].verdict = None
        /\ job[w].pc = "retried"
        /\ UNCHANGED <<lane, head, landed, batch, history, mishaps>>
        /\ history \in [Attempts -> HistoryType]
    BY <1>1, <1>3, SettlesFrom DEF SettleRetry, At
  <2>2. /\ Uncounted(a) /\ history[a].unproved /\ journal[a].phase = "retry-ready"
        /\ journal[a].writes < MaxWrites
    BY <2>1 DEF TrustFits, AttemptInv, EntryFits, Uncounted
  <2>3. CASE job[w].answer = "unavailable"
    <3>0. PICK ripe \in BOOLEAN : ripe = TRUE
      OBVIOUS
    <3>. DEFINE e == Released(a, "reconcile", journal[a].writes + 1, 0, ripe)
    <3>1. journal[a].writes + 1 \in 0 .. MaxWrites /\ 0 \in 0 .. MaxFailures - 1
      BY <2>1, <2>2, Limits
    <3>2. /\ e \in EntryType /\ e.status = "pending" /\ e.marker = None /\ e.phase = "reconcile"
          /\ e.writes = journal[a].writes + 1 /\ e.verdict = None
      BY <2>1, <3>1, ReleasedFields DEF Phases
    <3>3. Settle(w, a, e)
      BY <1>1, <1>3, <2>3, <3>0 DEF SettleRetry
    <3>. HIDE DEF e
    <3>4. journal[a].writes + (IF Uncounted(a) THEN 1 ELSE 0)
            <= e.writes + (IF e.phase = "retry-ready" /\ history'[a].unproved THEN 1 ELSE 0)
      BY <2>1, <2>2, <3>2
    <3>. QED
      BY <1>1, <2>1, <3>2, <3>3, <3>4, SettleKeeps DEF None, Phases
  <2>4. CASE job[w].answer # "unavailable"
    <3>. DEFINE e == Completed(a, job[w].answer)
    <3>1. job[w].answer \in Verdicts \ {None}
      BY <2>1, <2>4 DEF TrustFits, Verdicts, None
    <3>2. /\ e \in EntryType /\ e.status = "completed" /\ e.marker = None
          /\ e.phase = "retry-ready"
          /\ e.writes = journal[a].writes /\ e.verdict = job[w].answer
      BY <2>1, <2>2, <3>1, CompletedFields
    <3>3. Settle(w, a, e)
      BY <1>1, <1>3, <2>4 DEF SettleRetry
    <3>. HIDE DEF e
    <3>4. /\ e.verdict = "committed" => landed[a]
          /\ e.verdict \in {"exhausted", "failed"} => Unlanded(a) \/ history[a].lost
          /\ e.verdict = "superseded" /\ Indexed(a) => Unlanded(a)
      BY <2>1, <3>2 DEF TrustFits
    <3>5. journal[a].writes + (IF Uncounted(a) THEN 1 ELSE 0)
            <= e.writes + (IF e.phase = "retry-ready" /\ history'[a].unproved THEN 1 ELSE 0)
      BY <2>1, <2>2, <3>2
    <3>. QED
      BY <1>1, <2>1, <2>2, <3>2, <3>3, <3>4, <3>5, SettleKeeps DEF Phases
  <2>. QED
    BY <2>3, <2>4
<1>. QED
  BY <1>2, <1>3

\* The decision for an attempt that was not found, and for evidence not available.
LEMMA ReconcileDecision ==
  ASSUME NEW w \in Workers, SettleReconcile(w), Live(w, job[w].a),
         journal[job[w].a].writes \in Nat, journal[job[w].a].failures \in Nat
  PROVE  LET a == job[w].a
             e == journal[a]
         IN /\ job[w].answer = "not-found" /\ e.writes < MaxWrites =>
                 /\ \E ripe \in BOOLEAN :
                      Settle(w, a, Released(a, "retry-ready", e.writes, e.failures, ripe))
                 /\ history' = [history EXCEPT ![a].unproved = FALSE]
            /\ job[w].answer = "unavailable" /\ e.failures + 1 < MaxFailures =>
                 /\ Settle(w, a, Released(a, "reconcile", e.writes, e.failures + 1, FALSE))
                 /\ UNCHANGED history
<1>. DEFINE a == job[w].a
            e == journal[a]
            Retried == /\ \E ripe \in BOOLEAN :
                            Settle(w, a, Released(a, "retry-ready", e.writes, e.failures, ripe))
                       /\ history' = [history EXCEPT ![a].unproved = FALSE]
            Exhausted == Settle(w, a, Completed(a, "exhausted")) /\ UNCHANGED history
            Later == /\ Settle(w, a, Released(a, "reconcile", e.writes, e.failures + 1, FALSE))
                     /\ UNCHANGED history
            GivenUp == Settle(w, a, Completed(a, "reconciliation-exhausted")) /\ UNCHANGED history
            Told == Settle(w, a, Completed(a, job[w].answer)) /\ UNCHANGED history
<1>1. IF ~Live(w, a) THEN Done(w) /\ UNCHANGED <<journal, history>>
      ELSE CASE job[w].answer = "not-found" /\ e.writes < MaxWrites -> Retried
             [] job[w].answer = "not-found" /\ e.writes >= MaxWrites -> Exhausted
             [] job[w].answer = "unavailable" /\ e.failures + 1 < MaxFailures -> Later
             [] job[w].answer = "unavailable" /\ e.failures + 1 >= MaxFailures -> GivenUp
             [] OTHER -> Told
  BY DEF SettleReconcile
<1>2. /\ e.writes < MaxWrites => ~(e.writes >= MaxWrites)
      /\ e.failures + 1 < MaxFailures => ~(e.failures + 1 >= MaxFailures)
  BY Limits
<1>. HIDE DEF Retried, Exhausted, Later, GivenUp, Told
<1>3. job[w].answer = "not-found" /\ e.writes < MaxWrites => Retried
  BY <1>1, <1>2
<1>4. job[w].answer = "unavailable" /\ e.failures + 1 < MaxFailures => Later
  BY <1>1, <1>2
<1>. QED
  BY <1>3, <1>4 DEF Retried, Later

LEMMA SettleReconcileInv ==
  ASSUME CompositionWorkerInv, NEW w \in Workers, SettleReconcile(w) PROVE CompositionWorkerInv'
<1>1. PICK a \in Attempts : a = job[w].a
  BY AttemptTyped DEF SettleReconcile, At
<1>2. CASE ~Live(w, a)
  BY <1>1, <1>2, DoneKeeps DEF SettleReconcile
<1>3. CASE Live(w, a)
  <2>1. /\ TrustFits(w, a) /\ AttemptInv(a) /\ journal[a] \in EntryType
        /\ journal[a].writes \in Nat /\ journal[a].writes <= MaxWrites
        /\ journal[a].failures \in Nat /\ journal[a].failures < MaxFailures
        /\ journal[a].verdict = None
        /\ job[w].pc = "reconciled"
        /\ UNCHANGED <<lane, head, landed, batch, mishaps>>
        /\ history \in [Attempts -> HistoryType]
    BY <1>1, <1>3, SettlesFrom DEF SettleReconcile, At
  <2>2. ~Uncounted(a) /\ journal[a].phase = "reconcile"
    BY <2>1 DEF TrustFits, Uncounted
  <2>3. CASE job[w].answer = "not-found" /\ journal[a].writes < MaxWrites
    <3>1. PICK ripe \in BOOLEAN :
            /\ Settle(w, a, Released(a, "retry-ready", journal[a].writes, journal[a].failures, ripe))
            /\ history' = [history EXCEPT ![a].unproved = FALSE]
      BY <1>1, <1>3, <2>1, <2>3, ReconcileDecision
    <3>. DEFINE e == Released(a, "retry-ready", journal[a].writes, journal[a].failures, ripe)
    <3>2. journal[a].writes \in 0 .. MaxWrites /\ journal[a].failures \in 0 .. MaxFailures - 1
      BY <2>1, Limits
    <3>3. /\ e \in EntryType /\ e.status = "pending" /\ e.marker = None /\ e.phase = "retry-ready"
          /\ e.writes = journal[a].writes /\ e.verdict = None
      BY <2>1, <3>2, ReleasedFields DEF Phases
    <3>4. Settle(w, a, e)
      BY <3>1
    <3>. HIDE DEF e
    <3>5. /\ history'[a] \in HistoryType /\ history'[a].unproved = FALSE
          /\ history'[a].issued = history[a].issued /\ history'[a].blind = history[a].blind
          /\ history'[a].lost = history[a].lost /\ history'[a].late = history[a].late
      BY <2>1, <3>1 DEF HistoryType
    <3>6. /\ history' \in [Attempts -> HistoryType]
          /\ \A b \in Attempts \ {a} : history'[b] = history[b]
      BY <2>1, <3>1, <3>5
    <3>7. Unlanded(a)
      BY <2>1, <2>3 DEF TrustFits
    <3>8. journal[a].writes + (IF Uncounted(a) THEN 1 ELSE 0)
            <= e.writes + (IF e.phase = "retry-ready" /\ history'[a].unproved THEN 1 ELSE 0)
      BY <2>1, <2>2, <3>3, <3>5
    <3>. QED
      BY <1>1, <2>1, <2>3, <3>3, <3>4, <3>5, <3>6, <3>7, <3>8, SettleKeeps DEF None, Phases
  <2>4. CASE job[w].answer = "unavailable" /\ journal[a].failures + 1 < MaxFailures
    <3>0. PICK ripe \in BOOLEAN : ripe = FALSE
      OBVIOUS
    <3>. DEFINE e == Released(a, "reconcile", journal[a].writes, journal[a].failures + 1, ripe)
    <3>1. Settle(w, a, e) /\ history' = history
      BY <1>1, <1>3, <2>1, <2>4, <3>0, ReconcileDecision
    <3>2. journal[a].writes \in 0 .. MaxWrites /\ journal[a].failures + 1 \in 0 .. MaxFailures - 1
      BY <2>1, <2>4, Limits
    <3>3. /\ e \in EntryType /\ e.status = "pending" /\ e.marker = None /\ e.phase = "reconcile"
          /\ e.writes = journal[a].writes /\ e.verdict = None
      BY <2>1, <3>2, ReleasedFields DEF Phases
    <3>. HIDE DEF e
    <3>4. journal[a].writes + (IF Uncounted(a) THEN 1 ELSE 0)
            <= e.writes + (IF e.phase = "retry-ready" /\ history'[a].unproved THEN 1 ELSE 0)
      BY <2>1, <2>2, <3>3
    <3>. QED
      BY <1>1, <2>1, <3>1, <3>3, <3>4, SettleKeeps DEF None, Phases
  <2>5. ASSUME NEW v \in Verdicts \ {None, "failed"}, Settle(w, a, Completed(a, v)), history' = history,
               v = "committed" => landed[a], v = "exhausted" => Unlanded(a),
               v = "superseded" => ~Indexed(a)
        PROVE  CompositionWorkerInv'
    <3>. DEFINE e == Completed(a, v)
    <3>1. /\ e \in EntryType /\ e.status = "completed" /\ e.marker = None
          /\ e.phase = "reconcile"
          /\ e.writes = journal[a].writes /\ e.verdict = v
      BY <2>1, <2>2, CompletedFields
    <3>2. Settle(w, a, e)
      BY <2>5
    <3>. HIDE DEF e
    <3>3. journal[a].writes + (IF Uncounted(a) THEN 1 ELSE 0)
            <= e.writes + (IF e.phase = "retry-ready" /\ history'[a].unproved THEN 1 ELSE 0)
      BY <2>1, <2>2, <3>1
    <3>. QED
      BY <1>1, <2>1, <2>5, <3>1, <3>2, <3>3, SettleKeeps DEF None, Phases
  <2>6. CASE job[w].answer = "not-found" /\ journal[a].writes >= MaxWrites
    <3>1. Settle(w, a, Completed(a, "exhausted")) /\ history' = history
      <4>1. ~(journal[a].writes < MaxWrites)
        BY <2>1, <2>6, Limits
      <4>. QED
        BY <1>1, <1>3, <2>1, <2>6, <4>1 DEF SettleReconcile
    <3>2. Unlanded(a)
      BY <2>1, <2>6 DEF TrustFits
    <3>. QED
      BY <2>5, <3>1, <3>2 DEF Verdicts, None
  <2>7. CASE job[w].answer = "unavailable" /\ journal[a].failures + 1 >= MaxFailures
    <3>1. Settle(w, a, Completed(a, "reconciliation-exhausted")) /\ history' = history
      <4>1. ~(journal[a].failures + 1 < MaxFailures)
        BY <2>1, <2>7, Limits
      <4>. QED
        BY <1>1, <1>3, <2>1, <2>7, <4>1 DEF SettleReconcile
    <3>. QED
      BY <2>5, <3>1 DEF Verdicts, None
  <2>8. CASE job[w].answer \notin {"not-found", "unavailable"}
    <3>1. Settle(w, a, Completed(a, job[w].answer)) /\ history' = history
      BY <1>1, <1>3, <2>1, <2>8 DEF SettleReconcile
    <3>2. /\ job[w].answer \in Verdicts \ {None, "failed", "exhausted"}
          /\ job[w].answer = "committed" => landed[a]
          /\ job[w].answer = "superseded" => ~Indexed(a)
      BY <2>1, <2>8 DEF TrustFits, Verdicts, None
    <3>. QED
      BY <2>5, <3>1, <3>2
  <2>. QED
    <3>1. journal[a].writes < MaxWrites \/ journal[a].writes >= MaxWrites
      BY <2>1, Limits
    <3>2. journal[a].failures + 1 < MaxFailures \/ journal[a].failures + 1 >= MaxFailures
      BY <2>1, Limits
    <3>. QED
      BY <2>3, <2>4, <2>6, <2>7, <2>8, <3>1, <3>2
<1>. QED
  BY <1>2, <1>3

LEMMA ReconcileInv == ASSUME CompositionWorkerInv, NEW w \in Workers, Reconcile(w) PROVE CompositionWorkerInv'
<1>1. PICK a \in Attempts : a = job[w].a
  BY AttemptTyped DEF Reconcile, At
<1>2. PICK answer \in {Evidence(a), "unavailable"} :
        job' = [job EXCEPT ![w].pc = "reconciled", ![w].answer = answer]
  BY <1>1 DEF Reconcile
<1>3. /\ job[w] \in JobType /\ AttemptInv(a) /\ WorkerInv(w)
      /\ job[w].pc = "reconcile" /\ journal[a].status # None
      /\ UNCHANGED <<lane, head, landed, journal, history, batch, mishaps>>
      /\ batch \in [Workers -> SUBSET Attempts] /\ mishaps \in 0 .. MaxMishaps
      /\ head[a] \in {"expected", "next", "other"} /\ landed[a] \in BOOLEAN
      /\ job \in [Workers -> JobType]
  BY <1>1, AttemptTyped, Typed DEF Reconcile, At, OnlyJob, CompositionWorkerInv
<1>4. /\ answer \in {"committed", "not-found", "superseded", "conflict", "unavailable"}
      /\ answer = "committed" => landed[a]
      /\ answer = "not-found" => Unlanded(a)
      /\ answer = "superseded" => ~Indexed(a)
  BY <1>2, <1>3 DEF Evidence, IndexEvidence, AttemptInv, HeadTells, Unlanded, Indexed
<1>. DEFINE k == [job[w] EXCEPT !.pc = "reconciled", !.answer = answer]
<1>5. /\ k \in JobType /\ k.pc = "reconciled" /\ k.a = a /\ k.exact = job[w].exact
      /\ k.answer = answer
  BY <1>1, <1>3, <1>4 DEF JobType, Verdicts
<1>6. job' = [job EXCEPT ![w] = k]
  BY <1>2, <1>3
<1>. HIDE DEF k
<1>7. job'[w] = k
  BY <1>3, <1>6
<1>8. \A b \in Attempts : Holds(w, b)' => b = a /\ Holds(w, b)
  BY <1>1, <1>5, <1>7 DEF Holds
<1>9. Holds(w, a) => TrustFits(w, a)'
  <2>. SUFFICES ASSUME Holds(w, a) PROVE TrustFits(w, a)'
    OBVIOUS
  <2>1. TrustFits(w, a)
    BY <1>3 DEF WorkerInv
  <2>. QED
    BY <1>3, <1>4, <1>5, <1>7, <2>1 DEF TrustFits, Unlanded, Indexed
<1>10. WorkerInv(w)'
  BY <1>3, <1>5, <1>7, <1>8, <1>9 DEF WorkerInv
<1>. QED
  BY <1>3, <1>5, <1>6, <1>8, <1>10, JobKeeps

\* What the exact write answers is true of the head.
LEMMA WriteAnswerTells ==
  ASSUME NEW a \in Attempts, HeadTells(a), landed[a] \in BOOLEAN
  PROVE  /\ WriteAnswer(a) \in {"committed", "superseded", "conflict", "failed"}
         /\ WriteAnswer(a) = "committed" => landed[a]
         /\ WriteAnswer(a) = "superseded" /\ Indexed(a) => ~landed[a]
  BY DEF WriteAnswer, HeadTells, Indexed

\* An exact write is issued: the workers on the attempt that are not about to ask
\* for it do not hold it, or the write counts as late.
LEMMA WriteKeeps ==
  ASSUME CompositionWorkerInv, NEW w \in Workers, NEW a \in Attempts, a = job[w].a,
         job[w].pc = "retry-ready",
         NEW x \in {"committed", "superseded", "conflict", "failed", "unavailable"},
         job' = [job EXCEPT ![w].pc = "retried", ![w].answer = x],
         history' = [history EXCEPT ![a].issued = @ + 1, ![a].late = @ \/ ~Holds(w, a)],
         UNCHANGED <<lane, journal, batch, mishaps>>,
         \/ head[a] = "expected" /\ Land(a) /\ x \in {"committed", "unavailable"}
         \/ UNCHANGED <<head, landed>> /\ (x = "unavailable" \/ x = WriteAnswer(a))
  PROVE  CompositionWorkerInv'
<1>1. /\ job[w] \in JobType /\ journal[a] \in EntryType /\ history[a] \in HistoryType
      /\ AttemptInv(a) /\ WorkerInv(w) /\ journal[a].status # None
      /\ history[a].issued \in Nat /\ journal[a].writes \in Nat
  BY AttemptTyped, Fields DEF CompositionWorkerInv
<1>2. /\ lane \in [Attempts -> Lanes] /\ head \in [Attempts -> {"expected", "next", "other"}]
      /\ landed \in [Attempts -> BOOLEAN] /\ journal \in [Attempts -> EntryType]
      /\ batch \in [Workers -> SUBSET Attempts] /\ job \in [Workers -> JobType]
      /\ history \in [Attempts -> HistoryType] /\ mishaps \in 0 .. MaxMishaps
  BY Typed DEF CompositionWorkerInv
<1>3. history'[a] = [history[a] EXCEPT !.issued = history[a].issued + 1,
                                       !.late = history[a].late \/ ~Holds(w, a)]
  BY <1>2
<1>4. /\ history'[a] \in HistoryType
      /\ history'[a].issued = history[a].issued + 1
      /\ history'[a].unproved = history[a].unproved /\ history'[a].blind = history[a].blind
      /\ history'[a].lost = history[a].lost
      /\ history'[a].late <=> history[a].late \/ ~Holds(w, a)
  <2>1. PICK issued \in Nat : issued = history[a].issued + 1
    BY <1>1
  <2>2. PICK late \in BOOLEAN : late <=> history[a].late \/ ~Holds(w, a)
    OBVIOUS
  <2>3. history'[a] = [history[a] EXCEPT !.issued = issued, !.late = late]
    BY <1>1, <1>3, <2>1, <2>2
  <2>. DEFINE h == history[a]
              g == [h EXCEPT !.issued = issued, !.late = late]
  <2>4. h \in HistoryType
    BY <1>1
  <2>. HIDE DEF h
  <2>5. /\ g \in HistoryType /\ g.issued = issued /\ g.late = late
        /\ g.unproved = h.unproved /\ g.blind = h.blind /\ g.lost = h.lost
    BY <2>4 DEF HistoryType
  <2>6. history'[a] = g
    BY <2>3 DEF h
  <2>. HIDE DEF g
  <2>7. h = history[a]
    BY DEF h
  <2>. QED
    BY <2>1, <2>2, <2>5, <2>6, <2>7
<1>5. history' \in [Attempts -> HistoryType] /\ \A b \in Attempts \ {a} : history'[b] = history[b]
  BY <1>2, <1>4
<1>. DEFINE k == [job[w] EXCEPT !.pc = "retried", !.answer = x]
<1>6. k \in JobType /\ k.pc = "retried" /\ k.a = a /\ k.exact = job[w].exact /\ k.answer = x
  BY <1>1 DEF JobType, Verdicts
<1>7. job' = [job EXCEPT ![w] = k]
  BY <1>2
<1>. HIDE DEF k
<1>8. job'[w] = k /\ job' \in [Workers -> JobType] /\ \A v \in Workers \ {w} : job'[v] = job[v]
  BY <1>2, <1>6, <1>7
<1>9. /\ head' \in [Attempts -> {"expected", "next", "other"}] /\ landed' \in [Attempts -> BOOLEAN]
      /\ \A b \in Attempts \ {a} : head'[b] = head[b] /\ landed'[b] = landed[b]
      /\ landed[a] => landed'[a]
      /\ HeadTells(a)'
      /\ x = "committed" => landed'[a]
      /\ x = "superseded" /\ Indexed(a) => ~landed'[a]
      /\ x \in {"failed", "superseded", "conflict"} => landed'[a] = landed[a]
  <2>1. CASE head[a] = "expected" /\ Land(a) /\ x \in {"committed", "unavailable"}
    <3>1. /\ head' = [head EXCEPT ![a] = "next"]
          /\ \A b \in Attempts : landed'[b] = (b = a \/ landed[b])
          /\ landed' \in [Attempts -> BOOLEAN]
      BY <1>2, <2>1 DEF Land
    <3>. QED
      BY <1>2, <2>1, <3>1 DEF HeadTells
  <2>2. CASE UNCHANGED <<head, landed>> /\ (x = "unavailable" \/ x = WriteAnswer(a))
    <3>1. HeadTells(a) /\ landed[a] \in BOOLEAN
      BY <1>1, <1>2 DEF AttemptInv
    <3>2. HeadTells(a)'
      BY <2>2, <3>1 DEF HeadTells
    <3>. QED
      BY <1>2, <2>2, <3>1, <3>2, WriteAnswerTells
  <2>. QED
    BY <2>1, <2>2
<1>10. CompositionWorkerTypeOK'
  BY <1>2, <1>5, <1>8, <1>9 DEF CompositionWorkerTypeOK, JobType, HistoryType
<1>11. OnlyAttempt(a) /\ SameBut(w)
  BY <1>5, <1>8, <1>9 DEF OnlyAttempt, SameBut
<1>12. /\ \A b \in Attempts \ {a} : Writers(b)' = Writers(b)
       /\ Writers(a)' = Writers(a) \ {w} /\ w \in Writers(a) /\ Writers(a) \in SUBSET Workers
  BY <1>6, <1>8, <1>11, WritersStep DEF CompositionWorkerInv, Writers
<1>13. Holds(w, a) => TrustFits(w, a)
  BY <1>1 DEF WorkerInv
<1>14. Uncounted(a)' <=> Uncounted(a)
  BY <1>4 DEF Uncounted
<1>15. WritesFit(a)'
  <2>1. /\ Cardinality(Writers(a)') = Cardinality(Writers(a)) - 1
        /\ Cardinality(Writers(a)) \in Nat
    BY <1>12, CountWriters
  <2>2. history'[a].issued + Cardinality(Writers(a)') = history[a].issued + Cardinality(Writers(a))
    BY <1>1, <1>4, <2>1
  <2>. QED
    BY <1>1, <1>4, <1>14, <2>2 DEF AttemptInv, WritesFit
<1>16. EntryFits(a)' /\ VerdictFits(a)'
  <2>1. Holds(w, a) => journal[a].verdict = None /\ history[a].unproved
    BY <1>1, <1>13 DEF TrustFits, Uncounted, AttemptInv, EntryFits
  <2>2. ~Holds(w, a) => Unlanded(a)'
    BY <1>4 DEF Unlanded
  <2>3. EntryFits(a)'
    BY <1>1, <1>4, <2>1, <2>2 DEF AttemptInv, EntryFits
  <2>4. VerdictFits(a)'
    BY <1>1, <1>4, <1>9, <2>1, <2>2 DEF AttemptInv, VerdictFits, None
  <2>. QED
    BY <2>3, <2>4
<1>17. \A b \in Attempts : AttemptInv(b)'
  BY <1>9, <1>11, <1>12, <1>15, <1>16, AttemptsKeep DEF AttemptInv
<1>18. Holds(w, a) => TrustFits(w, a)'
  <2>. SUFFICES ASSUME Holds(w, a) PROVE TrustFits(w, a)'
    OBVIOUS
  <2>1. x = "failed" => Unlanded(a)' \/ history'[a].lost
    BY <1>4, <1>9, <1>13 DEF TrustFits, Unlanded
  <2>2. x = "superseded" /\ Indexed(a)' => Unlanded(a)'
    BY <1>9 DEF Unlanded, Indexed
  <2>. QED
    BY <1>6, <1>8, <1>9, <1>13, <1>14, <2>1, <2>2 DEF TrustFits
<1>19. WorkerInv(w)'
  BY <1>1, <1>6, <1>8, <1>18 DEF WorkerInv, Holds
<1>20. ASSUME NEW v \in Workers \ {w}, Holds(v, a), TrustFits(v, a) PROVE TrustFits(v, a)'
  <2>1. CASE Holds(w, a)
    <3>1. job[v].pc = "claim"
      BY <1>20, <2>1 DEF CompositionWorkerInv, OneHolds
    <3>. QED
      BY <1>8, <1>20, <3>1 DEF TrustFits
  <2>2. CASE ~Holds(w, a)
    <3>1. Unlanded(a)'
      BY <1>4, <2>2 DEF Unlanded
    <3>. QED
      BY <1>4, <1>8, <1>9, <1>14, <1>20, <3>1 DEF TrustFits, Interrupted, Indexed
  <2>. QED
    BY <2>1, <2>2
<1>21. \A v \in Workers \ {w} : WorkerInv(v)'
  <2>. SUFFICES ASSUME NEW v \in Workers \ {w} PROVE WorkerInv(v)'
    OBVIOUS
  <2>1. job[v].exact \in BOOLEAN
    BY <1>2 DEF JobType
  <2>. QED
    BY <1>8, <1>11, <1>20, <2>1, OthersKeep
<1>22. OneHolds'
  <2>1. \A v \in Workers, b \in Attempts : Holds(v, b)' <=> Holds(v, b)
    BY <1>6, <1>8 DEF Holds
  <2>2. \A v \in Workers : job'[v].pc = "claim" <=> job[v].pc = "claim"
    BY <1>6, <1>8
  <2>. QED
    BY <2>1, <2>2 DEF CompositionWorkerInv, OneHolds
<1>. QED
  BY <1>10, <1>17, <1>19, <1>21, <1>22 DEF CompositionWorkerInv

LEMMA RetryInv == ASSUME CompositionWorkerInv, NEW w \in Workers, Retry(w) PROVE CompositionWorkerInv'
<1>1. PICK a \in Attempts : a = job[w].a
  BY AttemptTyped DEF Retry, At
<1>2. /\ job[w].pc = "retry-ready" /\ UNCHANGED <<lane, journal, batch, mishaps>>
      /\ job[w] \in JobType /\ WorkerInv(w) /\ journal[a].status # None
      /\ batch \in [Workers -> SUBSET Attempts] /\ mishaps \in 0 .. MaxMishaps
      /\ job \in [Workers -> JobType] /\ landed[a] \in BOOLEAN /\ HeadTells(a)
  BY <1>1, AttemptTyped, Typed DEF Retry, At, CompositionWorkerInv, AttemptInv
<1>3. CASE /\ job' = [job EXCEPT ![w].pc = "retried", ![w].answer = "failed"]
           /\ UNCHANGED <<head, landed, history>>
  <2>. DEFINE k == [job[w] EXCEPT !.pc = "retried", !.answer = "failed"]
  <2>1. /\ k \in JobType /\ k.pc = "retried" /\ k.a = a /\ k.exact = job[w].exact
        /\ k.answer = "failed"
    BY <1>1, <1>2 DEF JobType, Verdicts
  <2>2. job' = [job EXCEPT ![w] = k]
    BY <1>2, <1>3
  <2>. HIDE DEF k
  <2>3. job'[w] = k
    BY <1>2, <2>2
  <2>4. \A b \in Attempts : Holds(w, b)' => b = a /\ Holds(w, b)
    BY <1>1, <2>1, <2>3 DEF Holds
  <2>5. Holds(w, a) => TrustFits(w, a)'
    <3>1. Holds(w, a) => TrustFits(w, a)
      BY <1>2 DEF WorkerInv
    <3>. QED
      BY <1>2, <1>3, <2>1, <2>3, <3>1 DEF TrustFits, Uncounted, Unlanded
  <2>6. WorkerInv(w)'
    BY <1>2, <2>1, <2>3, <2>4, <2>5 DEF WorkerInv
  <2>. QED
    BY <1>2, <1>3, <2>1, <2>2, <2>4, <2>6, JobKeeps
<1>4. ASSUME history' = [history EXCEPT ![a].issued = @ + 1, ![a].late = @ \/ ~Holds(w, a)],
             NEW x \in {"committed", "superseded", "conflict", "failed", "unavailable"},
             job' = [job EXCEPT ![w].pc = "retried", ![w].answer = x],
             \/ head[a] = "expected" /\ Land(a) /\ x \in {"committed", "unavailable"}
             \/ UNCHANGED <<head, landed>> /\ (x = "unavailable" \/ x = WriteAnswer(a))
      PROVE  CompositionWorkerInv'
  BY <1>1, <1>2, <1>4, WriteKeeps
<1>5. WriteAnswer(a) \in {"committed", "superseded", "conflict", "failed"}
  BY <1>2, WriteAnswerTells
<1>. QED
  BY <1>1, <1>3, <1>4, <1>5 DEF Retry

LEMMA GiveUpInv == ASSUME CompositionWorkerInv, NEW w \in Workers, GiveUp(w) PROVE CompositionWorkerInv'
<1>1. PICK b \in {batch[w], {}} : batch' = [batch EXCEPT ![w] = b]
  BY DEF GiveUp
<1>2. /\ batch \in [Workers -> SUBSET Attempts] /\ mishaps \in 0 .. MaxMishaps
      /\ mishaps' = mishaps + 1 /\ mishaps < MaxMishaps /\ Done(w)
      /\ UNCHANGED <<lane, head, landed, journal, history>>
  BY Typed DEF GiveUp, CompositionWorkerInv
<1>3. mishaps' \in 0 .. MaxMishaps
  BY <1>2, Limits
<1>4. /\ batch' \in [Workers -> SUBSET Attempts] /\ \A v \in Workers \ {w} : batch'[v] = batch[v]
      /\ batch'[w] \subseteq batch[w]
  BY <1>1, <1>2
<1>. QED
  BY <1>2, <1>3, <1>4, DoneInv

-----------------------------------------------------------------------------
(* The steps of the world around the workers. *)

\* A step that touches an attempt and no worker.
LEMMA WorldKeeps ==
  ASSUME CompositionWorkerInv, NEW a \in Attempts, OnlyAttempt(a), UNCHANGED <<batch, job>>,
         head' \in [Attempts -> {"expected", "next", "other"}],
         landed' \in [Attempts -> BOOLEAN],
         journal' \in [Attempts -> EntryType], history' \in [Attempts -> HistoryType],
         mishaps' \in 0 .. MaxMishaps,
         journal[a].status # None => journal'[a].status # None,
         AttemptInv(a)',
         \A w \in Workers : Holds(w, a) /\ TrustFits(w, a) => TrustFits(w, a)'
  PROVE  CompositionWorkerInv'
<1>1. CompositionWorkerTypeOK'
  BY Typed DEF CompositionWorkerInv, OnlyAttempt, CompositionWorkerTypeOK, HistoryType
<1>2. \A b \in Attempts : AttemptInv(b)'
  <2>1. \A b \in Attempts : Writers(b)' = Writers(b)
    BY DEF Writers
  <2>. QED
    BY <2>1, AttemptsKeep
<1>3. \A w \in Workers : WorkerInv(w)'
  <2>. SUFFICES ASSUME NEW w \in Workers PROVE WorkerInv(w)'
    OBVIOUS
  <2>1. job[w].exact \in BOOLEAN
    BY Typed DEF CompositionWorkerInv, JobType
  <2>. QED
    BY <2>1, OthersKeep
<1>4. OneHolds'
  BY DEF CompositionWorkerInv, OneHolds, Holds
<1>. QED
  BY <1>1, <1>2, <1>3, <1>4 DEF CompositionWorkerInv

LEMMA CreateAttemptInv ==
  ASSUME CompositionWorkerInv, NEW a \in Attempts, CreateAttempt(a) PROVE CompositionWorkerInv'
<1>1. /\ head \in [Attempts -> {"expected", "next", "other"}]
      /\ landed \in [Attempts -> BOOLEAN] /\ journal \in [Attempts -> EntryType]
      /\ history \in [Attempts -> HistoryType] /\ mishaps \in 0 .. MaxMishaps
      /\ AttemptInv(a) /\ journal[a] = Absent /\ history[a].issued \in Nat
  BY Typed, Fields DEF CompositionWorkerInv, CreateAttempt
<1>2. /\ Unreconciled \in EntryType /\ Unreconciled.status = "pending"
      /\ Unreconciled.marker = None /\ Unreconciled.phase = "reconcile"
      /\ Unreconciled.writes = 1 /\ Unreconciled.verdict = None
  <2>1. 1 \in 0 .. MaxWrites
    BY Limits
  <2>. QED
    BY <2>1, NothingHeld DEF Unreconciled, Absent, EntryType, Phases, Verdicts
<1>3. journal' = [journal EXCEPT ![a] = Unreconciled] /\ journal'[a] = Unreconciled
      /\ journal' \in [Attempts -> EntryType]
  BY <1>1, <1>2 DEF CreateAttempt
<1>4. /\ history'[a] \in HistoryType /\ history'[a].issued = 1
      /\ history'[a].unproved = history[a].unproved /\ history'[a].blind = history[a].blind
      /\ history'[a].late = history[a].late /\ history'[a].lost = history[a].lost
  BY <1>1 DEF CreateAttempt, HistoryType
<1>5. history' \in [Attempts -> HistoryType] /\ \A b \in Attempts \ {a} : history'[b] = history[b]
  BY <1>1, <1>4 DEF CreateAttempt
<1>6. /\ head' \in [Attempts -> {"expected", "next", "other"}] /\ landed' \in [Attempts -> BOOLEAN]
      /\ \A b \in Attempts \ {a} : head'[b] = head[b] /\ landed'[b] = landed[b]
      /\ HeadTells(a)'
  <2>1. CASE UNCHANGED <<head, landed>>
    BY <1>1, <2>1 DEF AttemptInv, HeadTells
  <2>2. CASE Land(a)
    BY <1>1, <2>2 DEF Land, HeadTells
  <2>. QED
    BY <2>1, <2>2 DEF CreateAttempt
<1>7. UNCHANGED <<lane, batch, job, mishaps>>
  BY DEF CreateAttempt
<1>8. OnlyAttempt(a)
  BY <1>1, <1>3, <1>5, <1>6, <1>7 DEF OnlyAttempt
<1>9. \A w \in Workers : job[w].pc # "idle" => job[w].a # a
  BY <1>1 DEF CompositionWorkerInv, WorkerInv, Absent
<1>10. \A w \in Workers : ~Holds(w, a)
  BY <1>9 DEF CompositionWorkerInv, WorkerInv, Holds
<1>11. Writers(a) = {} /\ Writers(a)' = {}
  BY <1>7, <1>9 DEF Writers
<1>12. WritesFit(a)'
  <2>1. Cardinality({}) = 0
    BY FS_EmptySet
  <2>2. ~Uncounted(a) /\ ~Uncounted(a)' /\ journal[a].writes = 0
    BY <1>1, <1>2, <1>3 DEF Uncounted, Absent, None
  <2>3. history[a].lost \/ ~history[a].blind
    BY <1>1 DEF AttemptInv, WritesFit
  <2>. QED
    BY <1>2, <1>3, <1>4, <1>11, <2>1, <2>2, <2>3 DEF WritesFit
<1>13. EntryFits(a)' /\ VerdictFits(a)'
  BY <1>2, <1>3 DEF EntryFits, VerdictFits, Phases, None
<1>14. AttemptInv(a)'
  BY <1>6, <1>12, <1>13 DEF AttemptInv
<1>. QED
  BY <1>1, <1>2, <1>3, <1>5, <1>6, <1>7, <1>8, <1>10, <1>14, WorldKeeps DEF None

LEMMA OthersMoveInv ==
  ASSUME CompositionWorkerInv, NEW a \in Attempts, OthersMove(a) PROVE CompositionWorkerInv'
<1>1. /\ head \in [Attempts -> {"expected", "next", "other"}]
      /\ landed \in [Attempts -> BOOLEAN] /\ journal \in [Attempts -> EntryType]
      /\ history \in [Attempts -> HistoryType] /\ mishaps \in 0 .. MaxMishaps /\ AttemptInv(a)
  BY Typed DEF CompositionWorkerInv
<1>2. /\ head' = [head EXCEPT ![a] = "other"]
      /\ UNCHANGED <<lane, landed, journal, batch, job, history, mishaps>>
  BY DEF OthersMove
<1>3. OnlyAttempt(a) /\ head' \in [Attempts -> {"expected", "next", "other"}]
  BY <1>1, <1>2 DEF OnlyAttempt
<1>4. Writers(a)' = Writers(a)
  BY <1>2 DEF Writers
<1>5. AttemptInv(a)'
  BY <1>1, <1>2, <1>4 DEF AttemptInv, HeadTells, EntryFits, VerdictFits, WritesFit, Uncounted,
                          Unlanded, Indexed
<1>6. \A w \in Workers : TrustFits(w, a) => TrustFits(w, a)'
  BY <1>2 DEF TrustFits, Interrupted, Uncounted, Unlanded, Indexed
<1>. QED
  BY <1>1, <1>2, <1>3, <1>5, <1>6, WorldKeeps

\* Time passes: of the entry, only whether it has lapsed or is ripe changes.
LEMMA TimeKeeps ==
  ASSUME CompositionWorkerInv, NEW a \in Attempts, journal[a].status # None,
         NEW e \in EntryType, journal' = [journal EXCEPT ![a] = e],
         e.status = journal[a].status, e.marker = journal[a].marker,
         e.phase = journal[a].phase, e.writes = journal[a].writes,
         e.verdict = journal[a].verdict, mishaps' \in 0 .. MaxMishaps,
         UNCHANGED <<lane, head, landed, batch, job, history>>
  PROVE  CompositionWorkerInv'
<1>1. /\ head \in [Attempts -> {"expected", "next", "other"}]
      /\ landed \in [Attempts -> BOOLEAN] /\ journal \in [Attempts -> EntryType]
      /\ history \in [Attempts -> HistoryType] /\ AttemptInv(a)
  BY Typed DEF CompositionWorkerInv
<1>2. journal'[a] = e /\ journal' \in [Attempts -> EntryType] /\ OnlyAttempt(a)
  BY <1>1 DEF OnlyAttempt
<1>3. Writers(a)' = Writers(a)
  BY DEF Writers
<1>4. AttemptInv(a)'
  BY <1>1, <1>2, <1>3 DEF AttemptInv, HeadTells, EntryFits, VerdictFits, WritesFit, Uncounted,
                          Unlanded, Indexed
<1>5. \A w \in Workers : TrustFits(w, a) => TrustFits(w, a)'
  BY <1>2 DEF TrustFits, Interrupted, Uncounted, Unlanded, Indexed
<1>. QED
  BY <1>1, <1>2, <1>4, <1>5, WorldKeeps

LEMMA RipenInv ==
  ASSUME CompositionWorkerInv, NEW a \in Attempts, Ripen(a) PROVE CompositionWorkerInv'
<1>. DEFINE e == [journal[a] EXCEPT !.ripe = TRUE]
<1>1. /\ journal[a] \in EntryType /\ journal[a].status = "pending"
      /\ mishaps \in 0 .. MaxMishaps /\ journal' = [journal EXCEPT ![a] = e]
      /\ UNCHANGED <<lane, head, landed, batch, job, history, mishaps>>
  BY Typed DEF CompositionWorkerInv, Ripen
<1>2. /\ e \in EntryType
      /\ e.status = journal[a].status /\ e.marker = journal[a].marker
      /\ e.phase = journal[a].phase /\ e.writes = journal[a].writes
      /\ e.verdict = journal[a].verdict
  BY <1>1 DEF EntryType
<1>. HIDE DEF e
<1>. QED
  BY <1>1, <1>2, TimeKeeps DEF None

LEMMA LapseInv ==
  ASSUME CompositionWorkerInv, NEW a \in Attempts, Lapse(a) PROVE CompositionWorkerInv'
<1>. DEFINE e == [journal[a] EXCEPT !.lapsed = TRUE]
<1>1. /\ journal[a] \in EntryType /\ journal[a].status = "claimed"
      /\ mishaps \in 0 .. MaxMishaps /\ journal' = [journal EXCEPT ![a] = e]
      /\ UNCHANGED <<lane, head, landed, batch, job, history>>
      /\ InUse(a) => mishaps < MaxMishaps
      /\ mishaps' = IF InUse(a) THEN mishaps + 1 ELSE mishaps
  BY Typed DEF CompositionWorkerInv, Lapse
<1>2. /\ e \in EntryType
      /\ e.status = journal[a].status /\ e.marker = journal[a].marker
      /\ e.phase = journal[a].phase /\ e.writes = journal[a].writes
      /\ e.verdict = journal[a].verdict
  BY <1>1 DEF EntryType
<1>3. mishaps' \in 0 .. MaxMishaps
  BY <1>1, Limits
<1>. HIDE DEF e
<1>. QED
  BY <1>1, <1>2, <1>3, TimeKeeps DEF None

-----------------------------------------------------------------------------
(* The theorems. *)

LEMMA InitInv == Init => CompositionWorkerInv
<1>. SUFFICES ASSUME Init PROVE CompositionWorkerInv
  OBVIOUS
<1>1. CompositionWorkerTypeOK
  <2>1. [issued |-> 0, unproved |-> FALSE, blind |-> FALSE, lost |-> FALSE, late |-> FALSE]
          \in HistoryType
    BY DEF HistoryType
  <2>2. 0 \in 0 .. MaxMishaps
    BY Limits
  <2>. QED
    BY <2>1, <2>2, NothingHeld, Typed DEF Init
<1>2. \A a \in Attempts : Writers(a) = {} /\ Cardinality({}) = 0
  BY FS_EmptySet DEF Init, Idle, Writers
<1>3. \A a \in Attempts : AttemptInv(a)
  <2>. SUFFICES ASSUME NEW a \in Attempts PROVE AttemptInv(a)
    OBVIOUS
  <2>1. /\ journal[a] = Absent /\ head[a] = "expected" /\ landed[a] = FALSE
        /\ history[a] = [issued |-> 0, unproved |-> FALSE, blind |-> FALSE, lost |-> FALSE,
                         late |-> FALSE]
    BY DEF Init
  <2>2. HeadTells(a) /\ EntryFits(a) /\ VerdictFits(a)
    BY <2>1 DEF Absent, None, HeadTells, EntryFits, VerdictFits
  <2>3. WritesFit(a)
    BY <1>2, <2>1 DEF Absent, None, WritesFit, Uncounted
  <2>. QED
    BY <2>2, <2>3 DEF AttemptInv
<1>4. \A w \in Workers : WorkerInv(w)
  BY DEF Init, Idle, WorkerInv, Holds
<1>5. OneHolds
  BY DEF Init, Idle, OneHolds, Holds
<1>. QED
  BY <1>1, <1>3, <1>4, <1>5 DEF CompositionWorkerInv

LEMMA StepInv == CompositionWorkerInv /\ [Next]_vars => CompositionWorkerInv'
<1>. SUFFICES ASSUME CompositionWorkerInv, [Next]_vars PROVE CompositionWorkerInv'
  OBVIOUS
<1>1. CASE UNCHANGED vars
  BY <1>1 DEF vars, CompositionWorkerInv, CompositionWorkerTypeOK, AttemptInv, HeadTells,
     EntryFits, VerdictFits, WritesFit, Uncounted, Unlanded, Writers, Indexed, WorkerInv, Holds,
     TrustFits, Interrupted, OneHolds
<1>2. CASE \E a \in Attempts : CreateAttempt(a) \/ OthersMove(a) \/ Ripen(a) \/ Lapse(a)
  BY <1>2, CreateAttemptInv, OthersMoveInv, RipenInv, LapseInv
<1>3. CASE \E w \in Workers : Step(w) \/ GiveUp(w)
  <2>1. PICK w \in Workers : Step(w) \/ GiveUp(w)
    BY <1>3
  <2>2. CASE ListDue(w)
    BY <2>2, ListDueInv
  <2>3. CASE Read(w)
    BY <2>3, ReadInv
  <2>4. CASE Claim(w)
    BY <2>4, ClaimInv
  <2>5. CASE Start(w)
    BY <2>5, StartInv
  <2>6. CASE Recover(w)
    BY <2>6, RecoverInv
  <2>7. CASE Reconcile(w)
    BY <2>7, ReconcileInv
  <2>8. CASE Retry(w)
    BY <2>8, RetryInv
  <2>9. CASE SettleReconcile(w)
    BY <2>9, SettleReconcileInv
  <2>10. CASE SettleRetry(w)
    BY <2>10, SettleRetryInv
  <2>11. CASE GiveUp(w)
    BY <2>11, GiveUpInv
  <2>. QED
    BY <2>1, <2>2, <2>3, <2>4, <2>5, <2>6, <2>7, <2>8, <2>9, <2>10, <2>11 DEF Step, Invoke
<1>. QED
  BY <1>1, <1>2, <1>3 DEF Next

\* Whatever workers and claims do, the journal, what the workers know of it and the
\* head fit together (compositionSchedulerWorkerJournalContract.ts, its stores and
\* the runner).
THEOREM CompositionWorkerInvariant == Spec => []CompositionWorkerInv
<1>1. Init => CompositionWorkerInv
  BY InitInv
<1>2. CompositionWorkerInv /\ [Next]_vars => CompositionWorkerInv'
  BY StepInv
<1>. QED
  BY <1>1, <1>2, PTL DEF Spec

\* The journal entries stay within the counts that validateEntryFacts and
\* validBaseState admit.
THEOREM CompositionWorkerTypeCorrect == Spec => []CompositionWorkerTypeOK
<1>1. CompositionWorkerInv => CompositionWorkerTypeOK
  BY DEF CompositionWorkerInv
<1>. QED
  BY <1>1, CompositionWorkerInvariant, PTL

\* Every verdict that a worker of the composition scheduler journals is true of the
\* head, for any number of workers and however often claims lapse under them.
THEOREM WorkerVerdictIsTrue == Spec => []VerdictIsTrue
<1>1. CompositionWorkerInv => VerdictIsTrue
  BY DEF CompositionWorkerInv, AttemptInv, VerdictFits, VerdictIsTrue, Unlanded
<1>. QED
  BY <1>1, CompositionWorkerInvariant, PTL

\* The writes a worker issues stay within the transient storage attempts allowed,
\* and none follows one whose outcome was not reconciled, unless a retry's marker
\* was erased by a claim.
THEOREM WorkerWritesAreCounted == Spec => []WritesAreCounted
<1>1. CompositionWorkerInv => WritesAreCounted
  <2>. SUFFICES ASSUME CompositionWorkerInv, NEW a \in Attempts, ~history[a].lost
                PROVE  history[a].issued <= MaxWrites /\ ~history[a].blind
    BY DEF WritesAreCounted
  <2>1. /\ journal[a].writes \in Nat /\ journal[a].writes <= MaxWrites
        /\ history[a].issued \in Nat /\ AttemptInv(a)
    BY Fields DEF CompositionWorkerInv
  <2>2. Cardinality(Writers(a)) \in Nat
    BY CountWriters DEF Writers
  <2>3. Uncounted(a) => journal[a].writes < MaxWrites
    BY <2>1 DEF AttemptInv, EntryFits, Uncounted
  <2>4. ~history[a].blind /\ history[a].issued + Cardinality(Writers(a))
          <= journal[a].writes + (IF Uncounted(a) THEN 1 ELSE 0)
    BY <2>1 DEF AttemptInv, WritesFit
  <2>. QED
    BY <2>1, <2>2, <2>3, <2>4, Limits
<1>. QED
  BY <1>1, CompositionWorkerInvariant, PTL

=============================================================================
