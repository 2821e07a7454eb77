------------------------- MODULE PdfExportExecution -------------------------
(***************************************************************************)
(* The execution of one PDF export operation by several worker hosts:      *)
(* discovery and claim (pdfExportLocalWorker.ts), the end-to-end workflow  *)
(* (pdfExportWorkflow.ts), the renderer attempt                            *)
(* (pdfExportRendererAttempt.ts), the artifact projection                  *)
(* (pdfExportArtifactPersistence.ts), the cancel route (pdfExportRoute.ts) *)
(* and a host's force stop (pdfExportLocalWorkerHost.ts).                  *)
(*                                                                         *)
(* The head is that of PdfExportLifecycle; every step of a worker is one   *)
(* repository call it awaits, with the local work up to the next one, so   *)
(* that the steps of workers, route and host interleave as their awaits    *)
(* do.  A transition is applied only at the revision its caller expects    *)
(* (compare-and-swap).  A call may go unanswered, before or after its      *)
(* effect; a host may crash between two calls and poll again.              *)
(*                                                                         *)
(* The hosts read one clock, in ticks: the offsets of 1 to 5 milliseconds  *)
(* the workflow adds to its frozen execution time are less than a tick,    *)
(* the seconds it adds for persistence are PersistLag.                     *)
(***************************************************************************)
EXTENDS PdfExportLifecycle

CONSTANTS
  Workers,        \* worker hosts
  ClaimDuration,  \* claimDurationMs
  RetryDelay,     \* retryDelayMs
  PersistLag,     \* persistedAt - executionAt
  MaxCancels,     \* bound: 1 if the export may be cancelled, else 0
  MaxMishaps      \* bound: unanswered calls, renderer failures, thrown errors,
                  \* crashes and force stops of hosts, all together

\* A claim token is made from the worker and the head it read: within one
\* operation it stands for the worker and the attempt it would start.
ASSUME ExecutionAssumption ==
  /\ Tokens = Workers \X (1 .. MaxAttempts)
  /\ ClaimDuration \in 1 .. MaxClaim
  /\ RetryDelay \in Nat \ {0}
  /\ PersistLag \in Nat
  /\ {MaxCancels, MaxMishaps} \subseteq Nat

VARIABLES
  now,       \* the clock
  terminal,  \* the terminal workflow completion, "none" until committed
  receipt,   \* the token of the attempt whose artifact projection is retained
  job,       \* what each worker is doing
  route,     \* the cancel route
  mishaps    \* how many happened

storeVars == <<terminal, receipt>>
vars == <<headVars, storeVars, mishaps, now, job, route>>

Outcomes == {"completed", "failed", "cancelled", "deadline-exceeded"}

\* The steps of a worker, each named for the call it makes next.
Claiming == {"read-head", "claim", "reconcile"}
Executing == {"execute", "workflow", "handoff", "receipt", "before-render", "preflight",
              "rendering", "check", "cancel", "persist", "commit", "finish",
              "finalize", "conclude", "terminate"}
Recovering == {"blocked", "recheck", "release"}

\* attempt: of its claim token; at: the time it works with; rev: the revision
\* it expects; outcome: the terminal status it is about to commit.
IdleJob == [pc |-> "idle", attempt |-> 0, at |-> 0, rev |-> 0, outcome |-> "none"]

ExecutionInit ==
  /\ LifecycleInit
  /\ now = 0
  /\ terminal = "none"
  /\ receipt = NoToken
  /\ job = [w \in Workers |-> IdleJob]
  /\ route = [pc |-> "idle", at |-> 0]
  /\ mishaps = 0

-----------------------------------------------------------------------------
(* Helpers. *)

Token(w) == <<w, job[w].attempt>>
At(w) == job[w].at

\* Compare-and-swap: the head is still at the revision the worker expects.
Current(w) == headRevision = job[w].rev

\* Mutation: whoever claimed the attempt that the worker asked for.
OwnsHeadByAttempt(w) == status = "claimed" /\ claim.attempt = job[w].attempt

OwnsHead(w) == status = "claimed" /\ claim.token = Token(w)

Become(w, j) == job' = [job EXCEPT ![w] = j]
Goto(w, where) == Become(w, [job[w] EXCEPT !.pc = where])
GoIdle(w) == Become(w, IdleJob)
Terminate(w, o) == Become(w, [job[w] EXCEPT !.pc = "terminate", !.outcome = o])

Answered == UNCHANGED mishaps
Fault == mishaps < MaxMishaps /\ mishaps' = mishaps + 1

KeepHead == UNCHANGED headVars
OnlyHead == UNCHANGED <<storeVars, now, route>>
OnlyJob == KeepHead /\ OnlyHead

\* Mutation: a stopped export is not listed any more.
DueAtOpen ==
  CASE status = "pending" -> IF retryAfter = NoTime THEN updatedAt ELSE retryAfter
    [] status = "claimed" -> claim.expiresAt
    [] status = "stopped" -> MaxTime + 1

\* nextActionAt
DueAt ==
  CASE status = "pending" -> IF retryAfter = NoTime THEN updatedAt ELSE retryAfter
    [] status = "claimed" -> claim.expiresAt
    [] status = "stopped" -> updatedAt

\* Mutation: a cancellation is reported before the head was stopped for it.
LifecycleFailureEager ==
  IF stop.reason = "deadline-exceeded" THEN "deadline-exceeded"
  ELSE IF Cancelled THEN "cancelled"
  ELSE "failed"

\* Mutation: every other stop is reported as a cancellation.
LifecycleFailureCancels ==
  IF stop.reason = "deadline-exceeded" THEN "deadline-exceeded"
  ELSE IF status = "stopped" THEN "cancelled"
  ELSE "failed"

\* lifecycleFailure
LifecycleFailure ==
  IF stop.reason = "deadline-exceeded" THEN "deadline-exceeded"
  ELSE IF stop.reason \in CancelReasons THEN "cancelled"
  ELSE "failed"

\* lifecycleStopDecision: whatever makes a renderer checkpoint cancel.
MustStop(w) ==
  \/ ~OwnsHead(w)
  \/ Late(At(w))
  \/ At(w) >= claim.expiresAt
  \/ Cancelled

-----------------------------------------------------------------------------
(* Discovery and claim: runFlowDocBackendPdfExportLocalDueWorkEntryV1. *)

\* listDueWork, the worker's clock and its read of the terminal workflow.
Discover(w) ==
  /\ job[w].pc = "idle"
  /\ terminal = "none"
  /\ DueAt <= now
  /\ Become(w, [IdleJob EXCEPT !.pc = "read-head", !.at = now])
  /\ Answered
  /\ OnlyJob

ReadHead(w) ==
  /\ job[w].pc = "read-head"
  /\ \/ status = "stopped" /\ Goto(w, "execute")
     \/ status # "stopped" /\ DueAt > At(w) /\ GoIdle(w)
     \/ /\ status # "stopped"
        /\ DueAt <= At(w)
        /\ Become(w, [job[w] EXCEPT !.pc = "claim", !.rev = headRevision,
                                    !.attempt = attemptCount + 1])
  /\ Answered
  /\ OnlyJob

MinTime(a, b) == IF a < b THEN a ELSE b

ClaimTransition(w) ==
  IF Late(At(w)) THEN EnforceDeadline(At(w))
  ELSE Claim(Token(w), MinTime(At(w) + ClaimDuration, Deadline), At(w))

ClaimRefused(w) ==
  \/ ~Current(w)
  \/ ~Open(At(w))
  \/ MayContinue(At(w)) /\ (LiveClaim(At(w)) \/ Deferred(At(w)))

\* Applied, refused, or unanswered with or without effect.  A claim may also
\* find the export cancelled, late or exhausted and stop it.
ClaimWork(w) ==
  /\ job[w].pc = "claim"
  /\ \/ Current(w) /\ ClaimTransition(w) /\ Goto(w, "execute") /\ Answered
     \/ Current(w) /\ ClaimTransition(w) /\ Goto(w, "reconcile") /\ Fault
     \/ KeepHead /\ Goto(w, "reconcile") /\ Fault
     \/ ClaimRefused(w) /\ KeepHead /\ GoIdle(w) /\ Answered
  /\ OnlyHead

\* After an unanswered claim only the exact token on the head, or the deadline
\* stop the worker asked for (unless the call threw), lets it go on.
ClaimProved(w) ==
  \/ OwnsHead(w)
  \/ Late(At(w)) /\ status = "stopped" /\ stop.reason = "deadline-exceeded"

ReconcileClaim(w) ==
  /\ job[w].pc = "reconcile"
  /\ \/ ClaimProved(w) /\ Goto(w, "execute") /\ Answered
     \/ ~OwnsHead(w) /\ GoIdle(w) /\ Answered
     \/ GoIdle(w) /\ Fault
  /\ OnlyJob

-----------------------------------------------------------------------------
(* The workflow up to rendering: runFlowDocBackendPdfExportEndToEndCandidateV1. *)

\* createWorkflowInput reads the clock once for the whole execution; then the
\* workflow reads the terminal completion.
Execute(w) ==
  /\ job[w].pc = "execute"
  /\ \/ terminal # "none" /\ GoIdle(w) /\ Answered
     \/ /\ terminal = "none"
        /\ Become(w, [job[w] EXCEPT !.pc = "workflow", !.at = now])
        /\ Answered
     \/ Goto(w, "blocked") /\ Fault
  /\ OnlyJob

\* A pending head is claimed again with the claim time of the lost claim, which
\* the head refuses as stale: like another worker's claim it blocks.
WorkflowHead(w) ==
  /\ job[w].pc = "workflow"
  /\ \/ status = "stopped" /\ Goto(w, "finalize")
     \/ /\ OwnsHead(w)
        /\ Become(w, [job[w] EXCEPT
             !.pc = IF checkpoint = "before-handoff" THEN "handoff" ELSE "receipt",
             !.rev = headRevision])
     \/ status # "stopped" /\ ~OwnsHead(w) /\ Goto(w, "blocked")
  /\ Answered
  /\ OnlyJob

OwnerRefused(w) == ~Current(w) \/ ~Open(At(w)) \/ ~Owns(Token(w), At(w))

PassHandoff(w) ==
  /\ job[w].pc = "handoff"
  /\ \/ /\ Current(w)
        /\ PassCheckpoint(Token(w), "before-render", At(w))
        /\ \/ /\ Answered
              /\ Become(w, [job[w] EXCEPT
                   !.pc = IF status' = "stopped" THEN "finalize" ELSE "receipt",
                   !.rev = headRevision'])
           \/ Fault /\ Goto(w, "blocked")
     \/ OwnerRefused(w) /\ KeepHead /\ Goto(w, "blocked") /\ Answered
     \/ KeepHead /\ Goto(w, "blocked") /\ Fault
  /\ OnlyHead

\* verifiedPersistence of an execution that goes on.
ReadReceipt(w) ==
  /\ job[w].pc = "receipt"
  /\ \/ receipt # NoToken /\ Goto(w, "finish") /\ Answered
     \/ receipt = NoToken /\ Goto(w, "before-render") /\ Answered
     \/ Goto(w, "blocked") /\ Fault
  /\ OnlyJob

\* verifiedPersistence of an execution whose head was stopped: a retained
\* artifact still completes the export.
FinalizeStopped(w) ==
  /\ job[w].pc = "finalize"
  /\ \/ receipt # NoToken /\ Goto(w, "finish") /\ Answered
     \/ receipt = NoToken /\ Terminate(w, LifecycleFailure) /\ Answered
     \/ Goto(w, "blocked") /\ Fault
  /\ OnlyJob

-----------------------------------------------------------------------------
(* The renderer attempt: runFlowDocBackendPdfExportRendererAttemptV1.  An      *)
(* attempt that is not ready for persistence is concluded, whatever the cause. *)

PassBeforeRender(w) ==
  /\ job[w].pc = "before-render"
  /\ \/ /\ Current(w)
        /\ PassCheckpoint(Token(w), "before-persist", At(w))
        /\ \/ Answered /\ Become(w, [job[w] EXCEPT !.pc = "preflight", !.rev = headRevision'])
           \/ Fault /\ Goto(w, "conclude")
     \/ OwnerRefused(w) /\ KeepHead /\ Goto(w, "conclude") /\ Answered
     \/ KeepHead /\ Goto(w, "conclude") /\ Fault
  /\ OnlyHead

Preflight(w) ==
  /\ job[w].pc = "preflight"
  /\ \/ Goto(w, IF MustStop(w) THEN "cancel" ELSE "rendering") /\ Answered
     \/ Goto(w, "conclude") /\ Fault
  /\ OnlyJob

\* A checkpoint of the renderer's control that finds a reason to stop.
StopRendering(w) ==
  /\ job[w].pc = "rendering"
  /\ \/ MustStop(w) /\ Goto(w, "cancel") /\ Answered
     \/ Goto(w, "cancel") /\ Fault
  /\ OnlyJob

\* The last checkpoint finds none and the renderer returns, or it fails.
EndRendering(w) ==
  /\ job[w].pc = "rendering"
  /\ \/ ~MustStop(w) /\ Goto(w, "check") /\ Answered
     \/ Goto(w, "conclude") /\ Fault
  /\ OnlyJob

\* applyBeforePersistCheck.  Its read and its second try after a stale answer
\* make it apply at the current revision; losing both tries counts as a fault.
CheckTransition(w) ==
  IF Late(At(w)) THEN EnforceDeadline(At(w)) ELSE CheckCheckpoint(Token(w), At(w))

CheckRefused(w) ==
  \/ ~Open(At(w))
  \/ ~Late(At(w)) /\ ~Owns(Token(w), At(w))

\* Whatever the check answers, the attempt ends as cancelled.
CancelRendering(w) ==
  /\ job[w].pc = "cancel"
  /\ Goto(w, "conclude")
  /\ \/ CheckTransition(w) /\ Answered
     \/ CheckRefused(w) /\ KeepHead /\ Answered
     \/ KeepHead /\ Fault
  /\ OnlyHead

CheckBeforePersist(w) ==
  /\ job[w].pc = "check"
  /\ \/ /\ CheckTransition(w)
        /\ \/ /\ Answered
              /\ IF status' = "claimed" /\ checkpoint' = "before-persist"
                 THEN Become(w, [job[w] EXCEPT !.pc = "persist", !.rev = headRevision'])
                 ELSE Goto(w, "conclude")
           \/ Fault /\ Goto(w, "conclude")
     \/ CheckRefused(w) /\ KeepHead /\ Goto(w, "conclude") /\ Answered
     \/ KeepHead /\ Goto(w, "conclude") /\ Fault
  /\ OnlyHead

-----------------------------------------------------------------------------
(* Persistence: persistFlowDocBackendPdfExportArtifactV1. *)

\* The live head must still be the one that was checked.
CheckedHead(w) ==
  /\ Current(w)
  /\ OwnsHead(w)
  /\ checkpoint = "before-persist"
  /\ checkpointCheck # NoCheck
  /\ ~Cancelled
  /\ At(w) + PersistLag < Deadline
  /\ At(w) + PersistLag < claim.expiresAt

InspectHead(w) ==
  /\ job[w].pc = "persist"
  /\ \/ receipt = NoToken /\ CheckedHead(w) /\ Goto(w, "commit") /\ Answered
     \/ (receipt # NoToken \/ ~CheckedHead(w)) /\ Goto(w, "blocked") /\ Answered
     \/ Goto(w, "blocked") /\ Fault
  /\ OnlyJob

\* The bytes are written and read back, then commitProjection retains one
\* receipt per operation.  It does not look at the lifecycle again.
CommitProjection(w) ==
  /\ job[w].pc = "commit"
  /\ \/ /\ receipt = NoToken
        /\ receipt' = Token(w)
        /\ \/ Answered /\ Goto(w, "finish")
           \/ Fault /\ Goto(w, "blocked")
     \/ receipt # NoToken /\ UNCHANGED receipt /\ Goto(w, "blocked") /\ Answered
     \/ UNCHANGED receipt /\ Goto(w, "blocked") /\ Fault
  /\ KeepHead
  /\ UNCHANGED <<terminal, now, route>>

-----------------------------------------------------------------------------
(* The terminal completion: commitTerminal, at most one per operation. *)

CommitTerminal(w, o) ==
  /\ \/ /\ terminal = "none"
        /\ terminal' = o
        /\ \/ Answered /\ GoIdle(w)
           \/ Fault /\ Goto(w, "blocked")
     \/ terminal # "none" /\ UNCHANGED terminal /\ Goto(w, "blocked") /\ Answered
     \/ UNCHANGED terminal /\ Goto(w, "blocked") /\ Fault
  /\ KeepHead
  /\ UNCHANGED <<receipt, now, route>>

CommitCompleted(w) == job[w].pc = "finish" /\ CommitTerminal(w, "completed")

\* An attempt that is not ready rereads the head; when the read fails, the head
\* it remembers may be one that was not stopped yet.
Conclude(w) ==
  /\ job[w].pc = "conclude"
  /\ \/ Terminate(w, LifecycleFailure) /\ Answered
     \/ Terminate(w, "failed") /\ Fault
     \/ Goto(w, "blocked") /\ Fault
  /\ OnlyJob

CommitStopped(w) == job[w].pc = "terminate" /\ CommitTerminal(w, job[w].outcome)

-----------------------------------------------------------------------------
(* After a blocked or thrown execution: execute in pdfExportLocalWorker.ts. *)

AfterBlocked(w) ==
  /\ job[w].pc = "blocked"
  /\ \/ terminal # "none" /\ GoIdle(w) /\ Answered
     \/ terminal = "none" /\ Goto(w, "recheck") /\ Answered
     \/ GoIdle(w) /\ Fault
  /\ OnlyJob

\* Unless the retry stays before expiry and deadline, the claim is left to expire.
Releasable(w) ==
  /\ OwnsHead(w)
  /\ now < claim.expiresAt
  /\ now + RetryDelay < Deadline

Recheck(w) ==
  /\ job[w].pc = "recheck"
  /\ \/ /\ Releasable(w)
        /\ Become(w, [job[w] EXCEPT !.pc = "release", !.rev = headRevision, !.at = now])
        /\ Answered
     \/ ~Releasable(w) /\ GoIdle(w) /\ Answered
     \/ GoIdle(w) /\ Fault
  /\ OnlyJob

Release(w) ==
  /\ job[w].pc = "release"
  /\ GoIdle(w)
  /\ \/ /\ Current(w)
        /\ ReleaseClaim(Token(w), At(w) + RetryDelay, At(w))
        /\ Answered
     \/ OwnerRefused(w) /\ KeepHead /\ Answered
     \/ KeepHead /\ Fault
  /\ OnlyHead

-----------------------------------------------------------------------------
(* The environment. *)

\* A host dies between two calls; its next run polls again.
Crash(w) ==
  /\ job[w].pc # "idle"
  /\ Fault
  /\ GoIdle(w)
  /\ KeepHead
  /\ UNCHANGED <<storeVars, now, route>>

\* cancelExport: a cancellation is taken only while neither terminal completion
\* nor receipt is found; its time is kept over the tries of the transition.  To
\* lose both tries counts as a fault.
AskCancellation ==
  /\ route.pc = "idle"
  /\ MaxCancels > 0
  /\ terminal = "none"
  /\ receipt = NoToken
  /\ status # "stopped"
  /\ route' = [pc |-> "apply", at |-> now]
  /\ KeepHead
  /\ UNCHANGED <<storeVars, now, job, mishaps>>

ApplyCancellation ==
  /\ route.pc = "apply"
  /\ route' = [route EXCEPT !.pc = "done"]
  /\ \/ RequestCancellation(route.at) /\ Answered
     \/ (~Open(route.at) \/ Cancelled) /\ KeepHead /\ Answered
     \/ KeepHead /\ Fault
  /\ UNCHANGED <<storeVars, now, job>>

\* forceLifecycleStop: a host that is stopped by force stops the operation of
\* its reservation, whoever owns the claim.  A completion may be committed after
\* the read that looks for it, so that it is no condition of the transition.
ForceStop(w) ==
  /\ job[w].pc # "idle"
  /\ ForceShutdown(now)
  /\ Fault
  /\ UNCHANGED <<storeVars, now, job, route>>

Tick ==
  /\ now < MaxTime
  /\ now' = now + 1
  /\ KeepHead
  /\ UNCHANGED <<storeVars, job, route, mishaps>>

WorkerStep(w) ==
  \/ Discover(w) \/ ReadHead(w) \/ ClaimWork(w) \/ ReconcileClaim(w)
  \/ Execute(w) \/ WorkflowHead(w) \/ PassHandoff(w) \/ ReadReceipt(w) \/ FinalizeStopped(w)
  \/ PassBeforeRender(w) \/ Preflight(w) \/ StopRendering(w) \/ EndRendering(w)
  \/ CancelRendering(w) \/ CheckBeforePersist(w)
  \/ InspectHead(w) \/ CommitProjection(w) \/ CommitCompleted(w)
  \/ Conclude(w) \/ CommitStopped(w)
  \/ AfterBlocked(w) \/ Recheck(w) \/ Release(w)

ExecutionNext ==
  \/ \E w \in Workers : WorkerStep(w) \/ Crash(w) \/ ForceStop(w)
  \/ AskCancellation
  \/ ApplyCancellation
  \/ Tick

ExecutionSpec == ExecutionInit /\ [][ExecutionNext]_vars

\* Hosts poll for ever and every call returns; nobody has to cancel, crash or stop.
ExecutionFairness == WF_vars(Tick) /\ \A w \in Workers : WF_vars(WorkerStep(w))

FairExecutionSpec == ExecutionSpec /\ ExecutionFairness

-----------------------------------------------------------------------------
(* Properties. *)

ExecutionTypeOK ==
  /\ LifecycleTypeOK
  /\ now \in Times
  /\ terminal \in Outcomes \cup {"none"}
  /\ receipt \in Tokens \cup {NoToken}
  /\ job \in [Workers -> [pc : {"idle"} \cup Claiming \cup Executing \cup Recovering,
                          attempt : 0 .. MaxAttempts + 1, at : Times, rev : Nat,
                          outcome : Outcomes \cup {"none"}]]
  /\ route \in [pc : {"idle", "apply", "done"}, at : Times]

\* The steps in which a worker trusts that the claimed attempt is its own.
Owning == {"handoff", "receipt", "before-render", "preflight", "rendering", "check",
           "cancel", "persist", "commit"}

\* No attempt is executed twice: of workers that raced for a claim, or that
\* found an attempt after an unanswered call, at most one works in it.
AttemptsDisjoint ==
  \A v, w \in Workers :
    v # w /\ job[v].pc \in Owning /\ job[w].pc \in Owning
      => job[v].attempt # job[w].attempt

\* Between two calls of the workflow the head may be taken from the worker, but
\* while the claim is its own, the head is where the worker believes it to be.
OwnerKnowsCheckpoint ==
  \A w \in Workers :
    OwnsHead(w) =>
      /\ job[w].pc \in {"receipt", "before-render"} => checkpoint = "before-render"
      /\ job[w].pc \in {"preflight", "rendering", "check", "persist", "commit"}
           => checkpoint = "before-persist"

\* An artifact is committed on a checkpoint check of its own attempt that no
\* cancellation preceded: whatever invalidates the check comes after it.
CommitStandsOnCheck ==
  \A w \in Workers :
    job[w].pc \in {"persist", "commit"} =>
      \/ job[w].rev < headRevision
      \/ checkpointCheck.token = Token(w) /\ ~Cancelled

\* The terminal completion says of the lifecycle what the head says: cancelled
\* and deadline-exceeded are reported only of an export that was stopped so.
TerminalMatchesStop ==
  /\ terminal = "cancelled" => stop.reason \in CancelReasons
  /\ terminal = "deadline-exceeded" => stop.reason = "deadline-exceeded"

\* What the client is promised, whatever hosts, routes and failures do.
Promise == INSTANCE PdfExportPromise WITH
  outcome <- terminal, artifact <- receipt # NoToken, asked <- Cancelled, clock <- now
KeepsPromise == Promise!PromiseSpec

\* Every export is terminated in the end: by its owner, by a takeover, or by a
\* host that finds the deadline passed.
EventuallyTerminal == <>(terminal # "none")

-----------------------------------------------------------------------------
(* What the documentation says, and the program does not do. *)

\* docs/PDF_EXPORT_LOCAL_DURABLE_WORKER.md:43-45: workers may observe the same
\* due page, the lifecycle CAS remains the execution ownership boundary.  So
\* nobody ends an export as failed while the owner of a live claim works on it.
OnlyOwnerFails ==
  [][terminal' # terminal /\ terminal' = "failed"
       => ~ \E w \in Workers : LiveClaim(now) /\ OwnsHead(w) /\ job[w].pc \in Owning]_vars

\* docs/PDF_EXPORT_LIFECYCLE_WORKER_CONTROL.md:55-56: a cancellation of claimed
\* work becomes terminal when its owner reaches the next checkpoint.  So a
\* cancelled export does not end as failed.
CancellationNotFailed == terminal = "failed" => ~Cancelled

\* docs/PDF_EXPORT_RENDERER_ADAPTER_QUALIFICATION.md:87-88: a cancellation
\* requested while rendering is observed at the next renderer checkpoint and
\* becomes cancelled-before-persist.
RendererCheckpointStops ==
  [][\A w \in Workers :
       job[w].pc = "cancel" /\ job'[w].pc = "conclude" /\ OwnsHead(w) /\ Cancelled
         => status' = "stopped"]_vars

\* docs/PDF_EXPORT_AUTHENTICATED_ROUTE_ACTIVATION_REVIEW.md:50-54: persistence
\* wins, a late cancellation cannot relabel committed bytes.
PersistenceWins == terminal = "cancelled" => receipt = NoToken
=============================================================================
