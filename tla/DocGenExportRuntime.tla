------------------------ MODULE DocGenExportRuntime ------------------------
(***************************************************************************)
(* The local durable DocGen runtime                                        *)
(* (docGenLocalDurablePdfExportRuntime.ts): one process that takes         *)
(* POST /pdf-exports under one caller key (pdfExportRoute.ts), schedules   *)
(* the operation on a timer and executes it with the due worker and the    *)
(* workflow of PdfExportExecution, whose single worker it is.  The records *)
(* survive the process; timers, requests and work do not, and no start     *)
(* looks for work: only a replayed POST schedules it again.                *)
(*                                                                         *)
(* Clients ask for a document pin of their own and ask again for ever.     *)
(* The clock starts with the acceptance of the operation.                  *)
(***************************************************************************)
EXTENDS PdfExportExecution

CONSTANTS
  Clients,   \* those who POST with the caller key
  Askings,   \* the documents they may ask for: functions of the clients
  Unbound    \* no operation has the caller key

ASSUME RuntimeAssumption == Unbound \notin Clients /\ \E w \in Workers : Workers = {w}

VARIABLES
  operation,    \* the client whose POST made the operation of the key
  initialized,  \* whether the lifecycle record exists
  timer,        \* whether a dispatch timer is pending (pendingTimers)
  resumed,      \* whether the work runs with the claim a dead process left
  posts,        \* each client's POST
  pins,         \* the pin each client asks for
  told,         \* the operations told to clients
  creations,    \* how often one was told as created
  phase         \* of the process

runtimeVars == <<operation, initialized, timer, resumed, posts, pins, told, creations, phase>>
allVars == <<vars, runtimeVars>>

Runtime == CHOOSE w \in Workers : TRUE
Idle == job[Runtime].pc = "idle"
NoPost == [pc |-> "idle", kind |-> "none"]

RuntimeInit ==
  /\ ExecutionInit
  /\ operation = Unbound
  /\ initialized = FALSE /\ timer = FALSE /\ resumed = FALSE
  /\ posts = [c \in Clients |-> NoPost]
  /\ pins \in Askings
  /\ told = {} /\ creations = 0
  /\ phase = "open"

OnlyPosts ==
  /\ KeepHead
  /\ UNCHANGED <<storeVars, now, job, route, resumed, pins, phase>>

---------------------------------------------------------------------------
(* POST /pdf-exports: requestExport. *)

\* schedule: one timer or one execution per operation, none while closing.
Schedule == timer' = (timer \/ (phase = "open" /\ Idle))

Hold(c, kind) == posts' = [posts EXCEPT ![c] = [pc |-> "initialize", kind |-> kind]]
Done(c) == posts' = [posts EXCEPT ![c] = NoPost]
TellNobody == UNCHANGED <<told, creations>>
SameRecords == UNCHANGED <<operation, initialized>>

\* The combinations of records that publicStatus takes for corruption.
StatusUnavailable ==
  \/ terminal = "completed" /\ receipt = NoToken
  \/ terminal \notin {"none", "completed"} /\ receipt # NoToken

\* publicStatus and the answer 202 or 200.
Tell(kind) ==
  IF StatusUnavailable THEN TellNobody
  ELSE /\ told' = told \cup {operation}
       /\ creations' = IF kind = "created" THEN creations + 1 ELSE creations

\* readByCallerKey of the runtime's repository schedules whatever it finds; the
\* route compares the pin afterwards.  Where the lifecycle record exists already,
\* its initialization is a replay and the answer follows at once.
Replay(c) ==
  /\ posts[c].pc = "idle"
  /\ phase = "open"
  /\ operation # Unbound
  /\ Schedule
  /\ \/ pins[c] # pins[operation] /\ UNCHANGED posts /\ TellNobody
     \/ pins[c] = pins[operation] /\ ~initialized /\ Hold(c, "replayed") /\ TellNobody
     \/ /\ pins[c] = pins[operation] /\ initialized
        /\ UNCHANGED posts /\ Tell("replayed")
  /\ Answered
  /\ SameRecords /\ OnlyPosts

\* Else admissionResolver.resolve makes a fresh operation identity.
Request(c) ==
  /\ posts[c].pc = "idle"
  /\ phase = "open"
  /\ operation = Unbound
  /\ posts' = [posts EXCEPT ![c].pc = "admit"]
  /\ Answered
  /\ SameRecords /\ UNCHANGED timer /\ TellNobody /\ OnlyPosts

\* Mutation: the insert does not look for the operation the key already has.
AdmitBlindly(c) ==
  /\ posts[c].pc = "admit"
  /\ operation' = c
  /\ Schedule /\ Hold(c, "created") /\ Answered
  /\ UNCHANGED initialized
  /\ TellNobody /\ OnlyPosts

\* admitOperation: one transaction.  Whether two requests for one pin have the
\* same Core payload is not for this code to say.
Admit(c) ==
  /\ posts[c].pc = "admit"
  /\ \/ /\ operation = Unbound
        /\ operation' = c
        /\ \/ Schedule /\ Hold(c, "created") /\ Answered
           \/ UNCHANGED timer /\ Done(c) /\ Fault
     \/ /\ operation # Unbound /\ pins[c] = pins[operation]
        /\ Schedule /\ Hold(c, "replayed") /\ Answered
        /\ UNCHANGED operation
     \/ operation # Unbound /\ Done(c) /\ Answered /\ UNCHANGED <<operation, timer>>
     \/ Done(c) /\ Fault /\ UNCHANGED <<operation, timer>>
  /\ UNCHANGED initialized
  /\ TellNobody /\ OnlyPosts

\* initializeLifecycle and the answer.
InitializeAndAnswer(c) ==
  /\ posts[c].pc = "initialize"
  /\ Done(c)
  /\ \/ initialized' = TRUE /\ Answered /\ Tell(posts[c].kind)
     \/ initialized' \in {initialized, TRUE} /\ Fault /\ TellNobody
  /\ UNCHANGED <<operation, timer>>
  /\ OnlyPosts

PostStep(c) == Replay(c) \/ Request(c) \/ Admit(c) \/ InitializeAndAnswer(c)

---------------------------------------------------------------------------
(* The scheduled execution: executeScopedKnownOperation. *)

OnlyWork ==
  UNCHANGED <<operation, initialized, posts, pins, told, creations, phase>>

Dispatch ==
  /\ timer
  /\ timer' = FALSE
  /\ phase = "open"
  /\ Goto(Runtime, "look")
  /\ Answered /\ OnlyJob /\ UNCHANGED resumed /\ OnlyWork

AtPersistence == status = "claimed" /\ checkpoint = "before-persist"

\* Mutation: a claimed head is left to its owner.
ResumeNothing(w) ==
  /\ AtPersistence
  /\ GoIdle(w) /\ resumed' = FALSE

\* Mutation: the retained claim goes straight to the renderer.
ResumeAtRenderer(w) ==
  /\ AtPersistence
  /\ Become(w, [IdleJob EXCEPT !.pc = "before-render", !.at = now, !.attempt = claim.attempt])
  /\ resumed' = TRUE

\* An execution with the claim that the head retains.
Resume(w) ==
  /\ AtPersistence
  /\ Become(w, [IdleJob EXCEPT !.pc = "execute", !.at = now, !.attempt = claim.attempt])
  /\ resumed' = TRUE

\* A pending head goes to the due worker, one that was claimed up to
\* before-persist is resumed; nothing else is done.  The wait for a missing
\* lifecycle record ends after twenty reads.
Look(w) ==
  /\ job[w].pc = "look"
  /\ \/ /\ initialized /\ terminal = "none" /\ Answered
        /\ \/ /\ status = "pending"
              /\ Become(w, [IdleJob EXCEPT !.pc = "read-head", !.at = now])
              /\ resumed' = FALSE
           \/ Resume(w)
           \/ ~AtPersistence /\ status # "pending" /\ GoIdle(w) /\ resumed' = FALSE
     \/ (~initialized \/ terminal # "none") /\ GoIdle(w) /\ resumed' = FALSE /\ Answered
     \/ GoIdle(w) /\ resumed' = FALSE /\ Fault
  /\ OnlyJob /\ UNCHANGED timer /\ OnlyWork

CheckRetained(w) == OwnsHead(w) /\ AtPersistence /\ checkpointCheck # NoCheck

\* The before-render checkpoint of a resumed attempt is not passed again: the
\* head must still show the check that preceded persistence.
ResumeRendering(w) ==
  /\ resumed
  /\ job[w].pc = "before-render"
  /\ \/ /\ CheckRetained(w)
        /\ Become(w, [job[w] EXCEPT !.pc = "preflight", !.rev = headRevision])
        /\ Answered
     \/ ~CheckRetained(w) /\ Goto(w, "conclude") /\ Answered
     \/ Goto(w, "conclude") /\ Fault
  /\ OnlyJob

\* The due worker releases the claim of a blocked execution, the resumption not.
ResumeBlocked(w) == resumed /\ job[w].pc = "blocked" /\ GoIdle(w) /\ Answered /\ OnlyJob

\* The steps of PdfExportExecution that both ways of execution share.
SharedStep(w) ==
  \/ ReadHead(w) \/ ClaimWork(w) \/ ReconcileClaim(w)
  \/ Execute(w) \/ WorkflowHead(w) \/ PassHandoff(w) \/ ReadReceipt(w) \/ FinalizeStopped(w)
  \/ Preflight(w) \/ StopRendering(w) \/ EndRendering(w)
  \/ CancelRendering(w) \/ CheckBeforePersist(w)
  \/ InspectHead(w) \/ CommitProjection(w) \/ CommitCompleted(w)
  \/ Conclude(w) \/ CommitStopped(w)
  \/ Recheck(w) \/ Release(w)

ExecuteStep(w) ==
  /\ \/ SharedStep(w)
     \/ ~resumed /\ (PassBeforeRender(w) \/ AfterBlocked(w))
     \/ ResumeRendering(w) \/ ResumeBlocked(w)
  /\ resumed' = (resumed /\ job'[w].pc # "idle")
  /\ UNCHANGED timer /\ OnlyWork

WorkStep == Dispatch \/ \E w \in Workers : Look(w) \/ ExecuteStep(w)

---------------------------------------------------------------------------
(* The cancel route, the process and the clock. *)

\* cancelExport creates a missing lifecycle record before it asks for the
\* transition.
Cancel ==
  /\ operation # Unbound
  /\ phase = "open"
  /\ AskCancellation
  /\ initialized' = TRUE
  /\ UNCHANGED <<operation, timer, resumed, posts, pins, told, creations, phase>>

CancelStep == ApplyCancellation /\ UNCHANGED runtimeVars

Close ==
  /\ phase = "open"
  /\ Fault
  /\ phase' = "closing"
  /\ timer' = FALSE
  /\ OnlyJob
  /\ UNCHANGED <<job, operation, initialized, resumed, posts, pins, told, creations>>

\* The listener is closed, the work under way has settled, the records close.
Settle ==
  /\ phase = "closing"
  /\ Idle /\ route.pc # "apply" /\ \A c \in Clients : posts[c] = NoPost
  /\ phase' = "closed"
  /\ UNCHANGED <<vars, operation, initialized, timer, resumed, posts, pins, told, creations>>

Reopen ==
  /\ phase = "closed"
  /\ phase' = "open"
  /\ timer' = FALSE
  /\ UNCHANGED <<vars, operation, initialized, resumed, posts, pins, told, creations>>

\* The process dies and starts again: what is not stored is gone.
Die ==
  /\ phase # "closed"
  /\ Fault
  /\ phase' = "open" /\ timer' = FALSE /\ resumed' = FALSE
  /\ GoIdle(Runtime)
  /\ posts' = [c \in Clients |-> NoPost]
  /\ route' = IF route.pc = "apply" THEN [route EXCEPT !.pc = "idle"] ELSE route
  /\ KeepHead
  /\ UNCHANGED <<storeVars, now, operation, initialized, pins, told, creations>>

Pass == operation # Unbound /\ Tick /\ UNCHANGED runtimeVars

RuntimeNext ==
  \/ \E c \in Clients : PostStep(c)
  \/ WorkStep
  \/ Cancel \/ CancelStep
  \/ Close \/ Settle \/ Reopen \/ Die
  \/ Pass

RuntimeSpec == RuntimeInit /\ [][RuntimeNext]_allVars

\* Clients replay for ever, timers fire, every call returns, a closed process is
\* opened again.  Nobody has to cancel, close or die.
RuntimeFairness ==
  /\ \A c \in Clients : WF_allVars(PostStep(c))
  /\ WF_allVars(WorkStep) /\ WF_allVars(CancelStep) /\ WF_allVars(Settle)
  /\ WF_allVars(Reopen) /\ WF_allVars(Pass)

FairRuntimeSpec == RuntimeSpec /\ RuntimeFairness

---------------------------------------------------------------------------
(* Properties. *)

\* Types, and what the process keeps to itself: there is work only for an
\* operation that is stored, a missing lifecycle record has not been moved, and a
\* process that is not open has no timer that could still start work.
RuntimeTypeOK ==
  /\ operation \in Clients \cup {Unbound}
  /\ {initialized, timer, resumed} \subseteq BOOLEAN
  /\ posts \in [Clients -> [pc : {"idle", "admit", "initialize"},
                            kind : {"none", "created", "replayed"}]]
  /\ pins \in Askings
  /\ told \subseteq Clients /\ creations \in 0..1
  /\ phase \in {"open", "closing", "closed"}
  /\ job[Runtime].pc # "idle" \/ timer => operation # Unbound
  /\ ~initialized => headRevision = 0
  /\ phase # "open" => ~timer
  /\ phase = "closed" => Idle

\* The caller key has one operation, of which every answer speaks, through
\* concurrent POSTs, unanswered commits and restarts; one answer says created.
Key == INSTANCE KeyPromise WITH Values <- Clients, bound <- operation
KeepsKeyPromise == Key!PromiseSpec

\* The status of an export is never one that publicStatus answers with 503: no
\* resumption ends as failed what a dead process had already persisted.
StatusStaysReadable == ~StatusUnavailable

\* Replayed POSTs bring every export to an end, but for the two heads that this
\* runtime looks at and leaves: one that was stopped, and one whose claim a dead
\* or failed execution left before the before-persist checkpoint.
LeftAlone ==
  /\ initialized
  /\ job[Runtime].pc \in {"idle", "look"}
  /\ status = "stopped" \/ (status = "claimed" /\ checkpoint # "before-persist")
ReplaysSettle == <>[](terminal # "none" \/ LeftAlone)

---------------------------------------------------------------------------
(* What the documentation says, and the program does not do. *)

\* docs/PDF_EXPORT_REALDOC_DURABLE_LIFECYCLE.md:27-28 and 43-44: replaying POST
\* /pdf-exports after a restart resumes the known operation; terminal work is
\* finalized.
ReplayResumes == <>(terminal # "none")
=============================================================================
