------------------------- MODULE CompositionScheduler -------------------------
(***************************************************************************)
(* One composition job: initialization, advancement, finalization and the  *)
(* lifecycle operations on its head (compositionScheduler*.ts), each of    *)
(* which reads the head and moves it by compare-and-swap; the immutable    *)
(* records they stage before the head refers to them, under a physical     *)
(* quota; the indexes of committed requests; and the clean-up of records   *)
(* a finished job does not reach.                                          *)
(*                                                                         *)
(* What the core library makes of the document is a constant.  A lifecycle *)
(* operation, or the acquisition of a lease, reads the head and swaps it   *)
(* against what it read: one action, since the swap succeeds only on the   *)
(* head that was read.  Between the lease and the commit a caller holds    *)
(* its own copy of the head.  Every record is one unit long.  A call that  *)
(* takes effect and loses its reply is the call followed by GiveUp.        *)
(***************************************************************************)
EXTENDS Integers, FiniteSets, Sequences

CONSTANTS
  Callers,         \* hosts that run jobs
  Requests,        \* request ids
  Document,        \* per transition: does it consume a window, does it close pages
  InitialPages,    \* whether initialization closes pages
  MaxTransitions, MaxAttempts, MaxBytes,  \* executionLimits of the source pin
  MaxRevision,     \* bound: revisions of the head
  MaxMishaps       \* bound: failures of core, storage and callers, leases that lapse under
                   \* their holder, retries scheduled anew

ASSUME CompositionSchedulerAssumption ==
  /\ IsFiniteSet(Callers) /\ IsFiniteSet(Requests)
  /\ Document \in Seq([window : BOOLEAN, pages : BOOLEAN]) /\ InitialPages \in BOOLEAN
  /\ MaxTransitions \in Nat \ {0} /\ MaxAttempts \in Nat /\ MaxAttempts >= MaxTransitions
  /\ MaxBytes \in Nat /\ MaxBytes >= 3
  /\ MaxRevision \in Nat /\ MaxMishaps \in Nat

VARIABLES
  head,      \* the row of composition_job_heads
  store,     \* composition_immutable_records
  usage,     \* composition_physical_usage
  requests,  \* composition_committed_requests: the transition of each id, or None
  finals,    \* composition_committed_finalizations: the ids in it
  job,       \* what each caller holds
  cleaner,   \* the head a clean-up was prepared for, and what it protects
  late,      \* whether the lifetime of the job is over
  refused,   \* whether a caller was told that the limits are exhausted
  mishaps

vars == <<head, store, usage, requests, finals, job, cleaner, late, refused, mishaps>>

None == -1
Length == Len(Document)
Active == {"waiting-window", "ready-to-advance", "ready-to-finalize"}
Terminal == {"completed", "blocked", "cancelled", "expired"}

\* The status the core's outcome gives a head after n transitions.
StatusAfter(n) ==
  IF n = Length THEN "ready-to-finalize"
  ELSE IF Document[n + 1].window THEN "waiting-window" ELSE "ready-to-advance"

Record(kind, n, by, prev) == [kind |-> kind, n |-> n, by |-> by, prev |-> prev]
Sources == {Record("source-snapshot", 0, 0, None), Record("composition-manifest", 0, 0, None)}
InitialRecords ==
  Sources \cup (IF InitialPages THEN {Record("closed-page-chunk", 0, 0, None)} ELSE {})
Outputs == {Record("page-plan", 0, 0, None), Record("heading-page-map", 0, 0, None)}

NoHead == [status |-> "absent", rev |-> None, n |-> 0, receiptTip |-> None,
           chunkTip |-> None, retained |-> 0, leased |-> FALSE, lapsed |-> FALSE,
           attempts |-> 0, deferred |-> FALSE, retryable |-> FALSE]
NewHead == [NoHead EXCEPT !.status = StatusAfter(0), !.rev = 0,
             !.chunkTip = IF InitialPages THEN 0 ELSE None,
             !.retained = Cardinality(InitialRecords)]
Idle == [pc |-> "idle", r |-> None, head |-> NoHead, terminal |-> FALSE]

Init ==
  /\ head = NoHead /\ store = {} /\ usage = 0
  /\ requests = [r \in Requests |-> None] /\ finals = {}
  /\ job = [c \in Callers |-> Idle]
  /\ cleaner = [head |-> NoHead, protect |-> {}]
  /\ late = FALSE /\ refused = FALSE /\ mishaps = 0

-----------------------------------------------------------------------------
(* The repository. *)

\* A head compared by revision and fingerprint; that its lease has lapsed is a
\* matter of time and not of the head.
Exact(h) == [head EXCEPT !.lapsed = FALSE] = [h EXCEPT !.lapsed = FALSE]

\* The next revision of a head.  MaxRevision bounds the model only.
Revised(h) == [h EXCEPT !.rev = @ + 1, !.lapsed = FALSE]
Move(next) == next.rev <= MaxRevision /\ head' = next

Fits(batch) == usage + Cardinality(batch \ store) <= MaxBytes

PutCountingReplays(batch) ==   \* as a mutant
  /\ store' = store \cup batch
  /\ usage' = usage + Cardinality(batch)

\* A batch is admitted as a whole; records that are retained already count once.
Put(batch) ==
  /\ store' = store \cup batch
  /\ usage' = usage + Cardinality(batch \ store)

\* The records of a kind that a fingerprint finds.
ByFingerprint(kind, by) == {x \in store : x.kind = kind /\ x.by = by}

\* The attempts along a chain of records, from its tip back to None.
Walk(kind, tip, depth) ==
  LET by[k \in 0 .. depth] ==
        IF k = 0 THEN tip
        ELSE LET found == ByFingerprint(kind, by[k - 1])
             IN IF found = {} THEN None ELSE (CHOOSE x \in found : TRUE).prev
  IN {by[k] : k \in 0 .. depth} \ {None}

ChainOf(kind, h, tip) ==
  LET chain == Walk(kind, tip, h.n + 1) IN {x \in store : x.kind = kind /\ x.by \in chain}
Receipts(h) == ChainOf("transition-receipt", h, h.receiptTip)
Chunks(h) == ChainOf("closed-page-chunk", h, h.chunkTip)
Windows(h) == {x \in store : x.kind = "family-window" /\ x.n <= h.n}
ChainRecords(h) == (store \cap Sources) \cup Receipts(h) \cup Chunks(h) \cup Windows(h)

\* The chain of the head h is complete, contiguous and exactly what it retains.
ChainLoads(h) ==
  /\ {x.n : x \in Receipts(h)} = 1 .. h.n
  /\ Cardinality(Receipts(h)) = h.n
  /\ {x.n : x \in Chunks(h)} = {n \in 1 .. h.n : Document[n].pages}
                                 \cup (IF InitialPages THEN {0} ELSE {})
  /\ \A x \in Chunks(h) : x.n > 0 => \E y \in Receipts(h) : y.n = x.n /\ y.by = x.by
  /\ {x.n : x \in Windows(h)} = {n \in 1 .. h.n : Document[n].window}
  /\ Cardinality(ChainRecords(h)) = h.retained

-----------------------------------------------------------------------------
(* Initialization. *)

At(c, pc) == job[c].pc = pc
Go(c, pc) == job' = [job EXCEPT ![c].pc = pc]
Done(c) == job' = [job EXCEPT ![c] = Idle]
Index == <<requests, finals>>
Others == <<cleaner, late, refused, mishaps>>

StageInitial(c) ==
  /\ At(c, "idle") /\ head = NoHead
  /\ Fits(InitialRecords) /\ Put(InitialRecords)
  /\ Go(c, "create")
  /\ UNCHANGED <<head, Index, Others>>

CreateHead(c) ==
  /\ At(c, "create") /\ Done(c)
  /\ IF head = NoHead THEN head' = NewHead ELSE UNCHANGED head
  /\ UNCHANGED <<store, usage, Index, Others>>

-----------------------------------------------------------------------------
(* Advancement and finalization. *)

\* A request id that is committed is answered from the index, or is a conflict:
\* advancement and finalization have an index each.
Committed(r) == requests[r] # None
Finalized(r) == r \in finals
Answered(r, h) == IF h.status = "ready-to-finalize" THEN Finalized(r) ELSE Committed(r)

OverLimit == \/ head.attempts >= MaxAttempts
             \/ head.status # "ready-to-finalize" /\ head.n >= MaxTransitions

\* The gate that advancement and finalization share: a head that is not leased, not
\* deferred and has lifetime left for a lease.
Unclaimed == ~head.leased /\ ~head.deferred /\ ~late
Open == head.status \in Active /\ Unclaimed

\* The head under the lease of a caller, which finalization takes like advancement.
Leased(h) == [Revised(h) EXCEPT !.leased = TRUE, !.attempts = @ + 1, !.retryable = FALSE]

RefuseOverLimit(r) ==
  /\ Open /\ ~Answered(r, head) /\ OverLimit
  /\ refused' = TRUE
  /\ UNCHANGED <<head, store, usage, Index, job, cleaner, late, mishaps>>

AcquireTwice(c, r) ==   \* as a mutant
  /\ At(c, "idle") /\ Open /\ ~Answered(r, head) /\ ~OverLimit
  /\ LET leased == [Revised(head) EXCEPT !.leased = TRUE, !.attempts = @ + 2,
                                         !.retryable = FALSE]
     IN Move(leased) /\ job' = [job EXCEPT ![c] = [Idle EXCEPT !.pc = "leased",
                                                    !.r = r, !.head = leased]]
  /\ UNCHANGED <<store, usage, Index, Others>>

Acquire(c, r) ==
  /\ At(c, "idle") /\ Open /\ ~Answered(r, head) /\ ~OverLimit
  /\ Move(Leased(head))
  /\ job' = [job EXCEPT ![c] = [Idle EXCEPT !.pc = "leased", !.r = r, !.head = Leased(head)]]
  /\ UNCHANGED <<store, usage, Index, Others>>

\* The lease is to be cleared, for good or for another attempt.
Abandon(c, terminal) ==
  /\ job' = [job EXCEPT ![c].pc = "clear", ![c].terminal = terminal]
  /\ UNCHANGED <<store, usage>>
Mishap == mishaps < MaxMishaps /\ mishaps' = mishaps + 1

\* What the head would retain, besides the physical quota.
Retainable(h, batch) == h.retained + Cardinality(batch) <= MaxBytes

Stage(c, batch) == Put(batch) /\ Go(c, "commit")

StageOrAbandon(c, batch) ==
  IF Retainable(job[c].head, batch) /\ Fits(batch)
  THEN Stage(c, batch)
  ELSE Abandon(c, TRUE)

\* What a transition of the head h leaves: each of the two chains names its
\* predecessor by the attempt that made it.
ReceiptOf(h) == Record("transition-receipt", h.n + 1, h.rev, h.receiptTip)
ChunkOf(h) == Record("closed-page-chunk", h.n + 1, h.rev, h.chunkTip)
TransitionRecords(h) ==
  LET n == h.n + 1 IN
  {ReceiptOf(h)}
  \cup (IF Document[n].window THEN {Record("family-window", n, 0, None)} ELSE {})
  \cup (IF Document[n].pages THEN {ChunkOf(h)} ELSE {})

\* The core transition and the staging of its records.  A rejected window and
\* records that are refused allow another attempt, anything else blocks the job.
AdvanceCore(c) ==
  /\ At(c, "leased") /\ job[c].head.status # "ready-to-finalize"
  /\ \/ StageOrAbandon(c, TransitionRecords(job[c].head)) /\ UNCHANGED mishaps
     \/ Mishap /\ \E terminal \in BOOLEAN : Abandon(c, terminal)
  /\ UNCHANGED <<head, Index, cleaner, late, refused>>

\* The chain is loaded, the final output made from it and staged.
FinalizeCore(c) ==
  /\ At(c, "leased") /\ job[c].head.status = "ready-to-finalize"
  /\ \/ /\ IF ChainLoads(job[c].head) THEN StageOrAbandon(c, Outputs) ELSE Abandon(c, TRUE)
        /\ UNCHANGED mishaps
     \/ Mishap /\ \E terminal \in BOOLEAN : Abandon(c, terminal)
  /\ UNCHANGED <<head, Index, cleaner, late, refused>>

Released(h) == [Revised(h) EXCEPT !.leased = FALSE, !.retryable = FALSE]

Advanced(h) ==
  LET n == h.n + 1 IN
  [Released(h) EXCEPT !.status = StatusAfter(n), !.n = n, !.receiptTip = h.rev,
     !.chunkTip = IF Document[n].pages THEN h.rev ELSE @,
     !.retained = @ + Cardinality(TransitionRecords(h))]

Completed(h) ==
  [Released(h) EXCEPT !.status = "completed", !.retained = @ + Cardinality(Outputs)]

\* What a commit must find stored: the receipt, or both outputs.
CommitRetained(h) ==
  IF h.status = "ready-to-finalize" THEN Outputs \subseteq store
  ELSE ReceiptOf(h) \in store

\* The head moves and the request is indexed with it, in one step.
CommitTransition(r, h) ==
  /\ Move(Advanced(h))
  /\ requests' = [requests EXCEPT ![r] = h.n + 1] /\ UNCHANGED finals
CommitFinalization(r, h) ==
  /\ Move(Completed(h))
  /\ finals' = finals \cup {r} /\ UNCHANGED requests

CommitBlindly(c) ==   \* as a mutant
  LET h == job[c].head IN
  /\ At(c, "commit") /\ Done(c)
  /\ IF h.status = "ready-to-finalize"
     THEN /\ Move([Completed(h) EXCEPT !.rev = head.rev + 1])
          /\ finals' = finals \cup {job[c].r} /\ UNCHANGED requests
     ELSE /\ Move([Advanced(h) EXCEPT !.rev = head.rev + 1])
          /\ requests' = [requests EXCEPT ![job[c].r] = h.n + 1] /\ UNCHANGED finals
  /\ UNCHANGED <<store, usage, Others>>

\* The commit swaps the head the caller leased and indexes its request with it.
\* Anything but a stale head makes a caller that fails clear its lease.
Commit(c) ==
  LET h == job[c].head IN
  /\ At(c, "commit")
  /\ IF Answered(job[c].r, h)
     THEN Go(c, "clear") /\ UNCHANGED <<head, Index>>
     ELSE IF ~Exact(h) THEN Done(c) /\ UNCHANGED <<head, Index>>
     ELSE IF ~CommitRetained(h) THEN Go(c, "clear") /\ UNCHANGED <<head, Index>>
     ELSE /\ Done(c)
          /\ IF h.status = "ready-to-finalize"
             THEN CommitFinalization(job[c].r, h) ELSE CommitTransition(job[c].r, h)
  /\ UNCHANGED <<store, usage, Others>>

ClearLease(c) ==
  LET h == job[c].head
      terminal == job[c].terminal
  IN /\ At(c, "clear") /\ Done(c)
     /\ IF ~Exact(h) THEN UNCHANGED head
        ELSE Move([Released(h) EXCEPT !.retryable = ~terminal,
                                      !.status = IF terminal THEN "blocked" ELSE @])
     /\ UNCHANGED <<store, usage, Index, Others>>

\* A crash, a call that throws, or a compare-and-swap whose reply is lost.
GiveUp(c) ==
  /\ ~At(c, "idle") /\ Done(c) /\ Mishap
  /\ UNCHANGED <<head, store, usage, Index, cleaner, late, refused>>

-----------------------------------------------------------------------------
(* The lifecycle operations. *)

OnlyHead == UNCHANGED <<store, usage, Index, job, Others>>
Ended(status) == [Released(head) EXCEPT !.status = status, !.deferred = FALSE]

RecoverKeepingLease ==   \* as a mutant
  /\ head.leased /\ head.lapsed
  /\ IF late THEN Move(Ended("expired"))
     ELSE \E deferred \in BOOLEAN :
            Move([head EXCEPT !.rev = @ + 1, !.deferred = deferred, !.retryable = TRUE])
  /\ OnlyHead

RecoverExpiredLease ==
  /\ head.leased /\ head.lapsed
  /\ IF late THEN Move(Ended("expired"))
     ELSE \E deferred \in BOOLEAN :
            Move([Released(head) EXCEPT !.deferred = deferred, !.retryable = TRUE])
  /\ OnlyHead

ScheduleRetry ==
  /\ head.status \in Active /\ ~head.leased /\ head.retryable /\ ~late
  /\ Move([Revised(head) EXCEPT !.deferred = TRUE]) /\ Mishap
  /\ UNCHANGED <<store, usage, Index, job, cleaner, late, refused>>

Cancel ==
  /\ head.status \in Active /\ ~late
  /\ Move(Ended("cancelled"))
  /\ OnlyHead

Expire ==
  /\ head.status \in Active /\ late
  /\ Move(Ended("expired"))
  /\ OnlyHead

-----------------------------------------------------------------------------
(* Time.  A lease ends within the lifetime of the job. *)

Held == \E c \in Callers : ~At(c, "idle") /\ Exact(job[c].head)

\* A lease reaches its expiry, which a caller inside it does not notice.
Lapse ==
  /\ head.leased /\ ~head.lapsed
  /\ IF Held THEN Mishap ELSE UNCHANGED mishaps
  /\ head' = [head EXCEPT !.lapsed = TRUE]
  /\ UNCHANGED <<store, usage, Index, job, cleaner, late, refused>>

RetryDue ==
  /\ head.deferred /\ head' = [head EXCEPT !.deferred = FALSE]
  /\ OnlyHead

LifetimeEnds ==
  /\ ~late /\ (head.leased => head.lapsed)
  /\ late' = TRUE
  /\ UNCHANGED <<head, store, usage, Index, job, cleaner, refused, mishaps>>

-----------------------------------------------------------------------------
(* Clean-up: its caller reads the chain of a head, then asks for what the chain *)
(* does not reach to be deleted, in as many calls as it takes.                  *)

\* Bound: one preparation, at a leased or at a terminal head.
PrepareCleanup ==
  /\ head.leased \/ head.status \in Terminal
  /\ cleaner.head = NoHead
  /\ cleaner' = [head |-> head, protect |-> ChainRecords(head) \cup (store \cap InitialRecords)
                   \cup (IF head.status = "completed" THEN Outputs ELSE {})]
  /\ UNCHANGED <<head, store, usage, Index, job, late, refused, mishaps>>

CleanupActive ==   \* as a mutant
  /\ head # NoHead /\ Exact(cleaner.head)
  /\ \E garbage \in SUBSET (store \ cleaner.protect) :
       /\ store' = store \ garbage
       /\ usage' = usage - Cardinality(garbage)
  /\ UNCHANGED <<head, Index, job, Others>>

CleanupUnreachable ==
  /\ head.status \in Terminal /\ Exact(cleaner.head)
  /\ \E garbage \in SUBSET (store \ cleaner.protect) :
       /\ store' = store \ garbage
       /\ usage' = usage - Cardinality(garbage)
  /\ UNCHANGED <<head, Index, job, Others>>

-----------------------------------------------------------------------------
Progress(c) == AdvanceCore(c) \/ FinalizeCore(c) \/ Commit(c) \/ ClearLease(c) \/ CreateHead(c)
Lifecycle == RecoverExpiredLease \/ ScheduleRetry \/ Cancel \/ Expire

Next ==
  \/ \E c \in Callers : \/ StageInitial(c) \/ Progress(c) \/ GiveUp(c)
                        \/ \E r \in Requests : Acquire(c, r)
  \/ \E r \in Requests : RefuseOverLimit(r)
  \/ Lifecycle \/ Lapse \/ RetryDue \/ LifetimeEnds
  \/ PrepareCleanup \/ CleanupUnreachable

Spec == Init /\ [][Next]_vars

Work == \E c \in Callers : StageInitial(c) \/ Progress(c) \/ \E r \in Requests : Acquire(c, r)
Upkeep == RecoverExpiredLease \/ Expire
Time == (Lapse /\ ~Held) \/ RetryDue

\* Some host keeps running the job, some host recovers its leases and expires it,
\* and time passes; nothing has to fail, and nobody has to cancel, to reschedule or
\* to clean up.
FairSpec == Spec /\ WF_vars(Work) /\ WF_vars(Upkeep) /\ WF_vars(Time)

-----------------------------------------------------------------------------
(* Properties. *)

HeadType ==
  [status : {"absent"} \cup Active \cup Terminal, rev : None .. MaxRevision,
   n : 0 .. Length, receiptTip : None .. MaxRevision, chunkTip : None .. MaxRevision,
   retained : 0 .. MaxBytes, leased : BOOLEAN, lapsed : BOOLEAN, attempts : 0 .. MaxAttempts,
   deferred : BOOLEAN, retryable : BOOLEAN]

\* The tip of the closed pages is missing only as long as no page is closed.
ChainParses(h) ==
  (h.chunkTip = None) = ~(InitialPages \/ \E n \in 1 .. h.n : Document[n].pages)
RetentionParses(h) == h.retained >= Cardinality(Sources)

\* What the parser of a stored head demands of its parts together.
HeadParses(h) ==
  h.status # "absent" =>
    /\ (h.n = 0) = (h.receiptTip = None)
    /\ ChainParses(h)
    /\ h.status \in Active => h.status = StatusAfter(h.n)
    /\ h.status = "completed" => h.n = Length
    /\ h.status \in Terminal => ~h.leased
    /\ RetentionParses(h)

RecordType ==
  [kind : {"source-snapshot", "composition-manifest", "family-window", "closed-page-chunk",
           "transition-receipt", "page-plan", "heading-page-map"},
   n : 0 .. Length, by : 0 .. MaxRevision, prev : None .. MaxRevision]

\* The usage the quota is checked against is what is stored, orphans included.
UsageIsExact == usage = Cardinality(store)

\* The head, within the limits its parser accepts, the records, the exact usage and
\* what the callers hold.
CompositionSchedulerTypeOK ==
  /\ head \in HeadType /\ HeadParses(head)
  /\ store \subseteq RecordType
  /\ usage \in 0 .. MaxBytes /\ UsageIsExact
  /\ requests \in [Requests -> {None} \cup 1 .. Length] /\ finals \subseteq Requests
  /\ job \in [Callers -> [pc : {"idle", "create", "leased", "commit", "clear"},
                          r : Requests \cup {None}, head : HeadType, terminal : BOOLEAN]]
  /\ cleaner \in [head : HeadType, protect : SUBSET RecordType]
  /\ late \in BOOLEAN /\ refused \in BOOLEAN /\ mishaps \in 0 .. MaxMishaps

\* Whatever is staged, abandoned, committed by a caller whose lease was recovered or
\* cleaned up, the chain of the head loads, and a completed head has its outputs.
HeadChainLoads ==
  head # NoHead =>
    LET h == IF head.status = "completed"
             THEN [head EXCEPT !.retained = @ - Cardinality(Outputs)] ELSE head
    IN ChainLoads(h) /\ (head.status = "completed" => Outputs \subseteq store)

\* Each transition of the head was committed under one request id, and each id
\* committed one transition; an id that finalized the job completed it.
OneRequestPerTransition ==
  /\ {requests[r] : r \in Requests} \ {None} = 1 .. head.n
  /\ Cardinality({r \in Requests : requests[r] # None}) = head.n
  /\ Cardinality(finals) = IF head.status = "completed" THEN 1 ELSE 0

\* A job none of whose attempts failed is not refused for its limits, provided the
\* attempts allowed exceed the transitions.
NoFailureNoRefusal == refused => mishaps > 0

\* Whoever fails, a job that hosts go on running ends, or has used up its attempts.
Spent == ~head.leased /\ OverLimit
JobEnds == <>(head.status \in Terminal \/ Spent)

Promise == INSTANCE CompositionPromise WITH
  stage <- IF head.status \in Active THEN "active" ELSE head.status,
  done <- head.n

\* The job implements CompositionPromise.
KeepsPromise == Promise!PromiseSpec

\* "hard limit exhaustion moves the job to terminal blocked".
ExhaustionBlocks == refused => head.status \in Terminal
=============================================================================
