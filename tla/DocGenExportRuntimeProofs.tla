----------------------- MODULE DocGenExportRuntimeProofs -----------------------
(***************************************************************************)
(* Theorems about the local durable DocGen runtime, with any clients and   *)
(* document pins, any budget, deadline and durations: the status of an     *)
(* export stays readable, the caller key and the export keep their         *)
(* promises through restarts, and the lifecycle head keeps its contract.   *)
(***************************************************************************)
EXTENDS DocGenExportRuntime, PdfExportExecutionProofs

-----------------------------------------------------------------------------
(* The inductive invariant. *)

RuntimePhases == {"idle", "look"} \cup Claiming \cup Executing \cup Recovering
RuntimeJobType == [pc : RuntimePhases, attempt : Nat, at : Times, rev : Nat,
                   outcome : Outcomes \cup {"none"}]

\* The steps of an execution that found no terminal completion, and those of
\* one that found no artifact either.
Unfinished == Executing \ {"execute"}
Unrendered == {"before-render", "preflight", "rendering", "cancel", "check", "persist",
               "commit", "conclude", "terminate"}

\* What holds whenever the runtime does j: a claim it asks for is the next one,
\* an attempt that commits was claimed, and what the execution found is still so,
\* since nobody else works on the export.
Stands(j) ==
  /\ j.rev <= headRevision /\ j.at <= now
  /\ j.pc = "claim" /\ j.rev = headRevision => j.attempt = attemptCount + 1
  /\ j.pc = "commit" => <<Runtime, j.attempt>> \in Tokens
  /\ j.pc \in Unfinished => terminal = "none"
  /\ j.pc \in Unrendered => receipt = NoToken
  /\ j.pc = "finish" => receipt # NoToken
  /\ j.pc = "terminate" => j.outcome \in Outcomes \ {"completed"} /\ MatchesStop(j.outcome)
  /\ j.pc \notin {"idle", "look"} => initialized

\* The head is well formed, and a claim is for the attempt it counts.
HeadStands == LifecycleInv /\ TokenNamesAttempt /\ updatedAt <= now

\* The records of the export, the work on it and its cancellation.
WorkInv ==
  /\ now \in Times
  /\ terminal \in Outcomes \cup {"none"}
  /\ receipt \in Tokens \cup {NoToken}
  /\ job \in [Workers -> RuntimeJobType]
  /\ route \in [pc : {"idle", "apply", "done"}, at : Times] /\ route.at <= now
  /\ HeadStands
  /\ MatchesStop(terminal)
  /\ ~StatusUnavailable
  /\ route.pc = "apply" => initialized
  /\ ~initialized => headRevision = 0
  /\ Stands(job[Runtime])

\* The process: it works for an operation that is stored, and only while open.
ProcessInv ==
  /\ operation \in Clients \cup {Unbound}
  /\ {initialized, timer, resumed} \subseteq BOOLEAN
  /\ pins \in Askings
  /\ phase \in {"open", "closing", "closed"}
  /\ job[Runtime].pc # "idle" \/ timer => operation # Unbound
  /\ phase # "open" => ~timer
  /\ phase = "closed" => Idle

\* The caller key: a POST that waits to say created is the one that bound it.
KeyInv ==
  /\ posts \in [Clients -> [pc : {"idle", "admit", "initialize"},
                            kind : {"none", "created", "replayed"}]]
  /\ told \subseteq Clients /\ creations \in 0 .. 1
  /\ operation = Unbound => told = {} /\ creations = 0
  /\ \A c \in Clients : posts[c].pc = "initialize" => operation # Unbound
  /\ \A c \in Clients : posts[c].kind = "created" => posts[c].pc = "initialize" /\ creations = 0
  /\ \A c, d \in Clients : posts[c].kind = "created" /\ posts[d].kind = "created" => c = d

RuntimeInv == WorkInv /\ ProcessInv /\ KeyInv

-----------------------------------------------------------------------------
(* How the invariant of the work is put together again after a step. *)

\* One worker does the work of the process.
LEMMA RuntimeIsOnly == Runtime \in Workers /\ \A w \in Workers : w = Runtime
<1>1. PICK v \in Workers : Workers = {v}
  BY RuntimeAssumption
<1>2. Runtime \in Workers
  BY <1>1 DEF Runtime
<1>. QED
  BY <1>1, <1>2

LEMMA WorkTypes ==
  ASSUME WorkInv
  PROVE  /\ job[Runtime] \in RuntimeJobType
         /\ job[Runtime].rev \in Nat /\ job[Runtime].attempt \in Nat
         /\ job[Runtime].at \in Times /\ job[Runtime].at \in Nat
         /\ job[Runtime].pc \in RuntimePhases /\ job[Runtime].outcome \in Outcomes \cup {"none"}
         /\ now \in Times /\ now \in Nat /\ route.at \in Nat
         /\ headRevision \in Nat /\ attemptCount \in Nat /\ attemptCount <= MaxAttempts
         /\ updatedAt \in Nat
<1>1. job[Runtime] \in RuntimeJobType
  BY RuntimeIsOnly DEF WorkInv
<1>2. /\ job[Runtime].rev \in Nat /\ job[Runtime].attempt \in Nat /\ job[Runtime].at \in Times
      /\ job[Runtime].pc \in RuntimePhases /\ job[Runtime].outcome \in Outcomes \cup {"none"}
  BY <1>1 DEF RuntimeJobType
<1>3. LifecycleInv /\ LifecycleTypeOK /\ attemptCount <= MaxAttempts
  BY DEF WorkInv, HeadStands, LifecycleInv, HeadParses
<1>. QED
  BY <1>1, <1>2, <1>3, TimesAreNat DEF WorkInv, LifecycleTypeOK

LEMMA BecomesRuntime ==
  ASSUME WorkInv, NEW j \in RuntimeJobType, Become(Runtime, j)
  PROVE  job'[Runtime] = j /\ job' \in [Workers -> RuntimeJobType]
  BY RuntimeIsOnly DEF Become, WorkInv

\* A step that leaves the head as it is.
LEMMA HeadUntouched ==
  ASSUME WorkInv, KeepHead, now <= now', now' \in Nat
  PROVE  /\ HeadStands'
         /\ headRevision' = headRevision /\ attemptCount' = attemptCount
         /\ \A o : MatchesStop(o)' <=> MatchesStop(o)
<1>1. LifecycleInv'
  BY InvStep DEF WorkInv, HeadStands, KeepHead
<1>2. UNCHANGED <<headRevision, attemptCount, status, claim, updatedAt, stop>>
  BY DEF KeepHead, headVars
<1>3. updatedAt' <= now'
  BY <1>2, WorkTypes DEF WorkInv, HeadStands
<1>. QED
  BY <1>1, <1>2, <1>3 DEF WorkInv, HeadStands, TokenNamesAttempt, MatchesStop

\* A step that changes nothing but the work, which knows what it has to.
LEMMA WorkReads ==
  ASSUME WorkInv, NEW j \in RuntimeJobType, Become(Runtime, j), OnlyJob,
         UNCHANGED initialized, Stands(j)
  PROVE  WorkInv'
<1>1. KeepHead /\ UNCHANGED <<terminal, receipt, now, route>>
  BY DEF OnlyJob, OnlyHead, storeVars
<1>2. job'[Runtime] = j /\ job' \in [Workers -> RuntimeJobType]
  BY BecomesRuntime
<1>3. /\ HeadStands' /\ headRevision' = headRevision /\ attemptCount' = attemptCount
      /\ \A o : MatchesStop(o)' <=> MatchesStop(o)
  BY <1>1, HeadUntouched, WorkTypes
<1>4. Stands(job[Runtime])'
  BY <1>1, <1>2, <1>3 DEF Stands
<1>5. MatchesStop(terminal)' /\ ~StatusUnavailable'
  BY <1>1, <1>3 DEF WorkInv, MatchesStop, StatusUnavailable
<1>. QED
  BY <1>1, <1>2, <1>3, <1>4, <1>5 DEF WorkInv

\* The work goes on to another call with what it has.
LEMMA GoesOn ==
  ASSUME WorkInv, NEW p \in RuntimePhases, Goto(Runtime, p)
  PROVE  /\ [job[Runtime] EXCEPT !.pc = p] \in RuntimeJobType
         /\ Become(Runtime, [job[Runtime] EXCEPT !.pc = p])
         /\ [job[Runtime] EXCEPT !.pc = p].rev = job[Runtime].rev
         /\ [job[Runtime] EXCEPT !.pc = p].at = job[Runtime].at
         /\ [job[Runtime] EXCEPT !.pc = p].attempt = job[Runtime].attempt
         /\ [job[Runtime] EXCEPT !.pc = p].outcome = job[Runtime].outcome
         /\ [job[Runtime] EXCEPT !.pc = p].pc = p
  BY WorkTypes DEF Goto, RuntimeJobType

LEMMA WorkGoes ==
  ASSUME WorkInv, NEW p \in RuntimePhases \ {"claim", "terminate"}, Goto(Runtime, p), OnlyJob,
         UNCHANGED initialized,
         p = "commit" => Token(Runtime) \in Tokens,
         p \in Unfinished => terminal = "none",
         p \in Unrendered => receipt = NoToken,
         p = "finish" => receipt # NoToken,
         p \notin {"idle", "look"} => initialized
  PROVE  WorkInv'
<1>. DEFINE j == [job[Runtime] EXCEPT !.pc = p]
<1>1. /\ j \in RuntimeJobType /\ Become(Runtime, j) /\ j.pc = p
      /\ j.rev = job[Runtime].rev /\ j.at = job[Runtime].at /\ j.attempt = job[Runtime].attempt
  BY GoesOn
<1>. HIDE DEF j
<1>2. Stands(j)
  BY <1>1 DEF Stands, WorkInv, Token
<1>. QED
  BY <1>1, <1>2, WorkReads

\* The work ends.
LEMMA RestStands ==
  /\ IdleJob \in RuntimeJobType
  /\ WorkInv => Stands(IdleJob)
<1>1. 0 \in Times
  BY LifecycleAssumption DEF Times
<1>2. IdleJob \in RuntimeJobType
  BY <1>1 DEF IdleJob, RuntimeJobType, RuntimePhases
<1>3. WorkInv => Stands(IdleJob)
  BY WorkTypes DEF IdleJob, Stands, Unfinished, Unrendered, Executing
<1>. QED
  BY <1>2, <1>3

LEMMA WorkRests ==
  ASSUME WorkInv, GoIdle(Runtime), OnlyJob, UNCHANGED initialized
  PROVE  WorkInv'
  BY RestStands, WorkReads DEF GoIdle

-----------------------------------------------------------------------------
(* The steps of the work that only read. *)

\* The steps that go on to another call, or end, with what they have.
LEMMA PlainSteps ==
  ASSUME WorkInv, UNCHANGED initialized
  PROVE  /\ ReconcileClaim(Runtime) => WorkInv'
         /\ ReadReceipt(Runtime) => WorkInv'
         /\ Preflight(Runtime) => WorkInv'
         /\ StopRendering(Runtime) => WorkInv'
         /\ EndRendering(Runtime) => WorkInv'
         /\ AfterBlocked(Runtime) => WorkInv'
         /\ ResumeBlocked(Runtime) => WorkInv'
<1>. USE WorkGoes, WorkRests
     DEF RuntimePhases, Claiming, Executing, Recovering, Unfinished, Unrendered
<1>0. Stands(job[Runtime])
  BY DEF WorkInv
<1>1. ReconcileClaim(Runtime) => WorkInv'
  BY <1>0 DEF ReconcileClaim, Stands
<1>2. ReadReceipt(Runtime) => WorkInv'
  BY <1>0 DEF ReadReceipt, Stands
<1>3. Preflight(Runtime) => WorkInv'
  BY <1>0 DEF Preflight, Stands
<1>4. StopRendering(Runtime) => WorkInv'
  BY <1>0 DEF StopRendering, Stands
<1>5. EndRendering(Runtime) => WorkInv'
  BY <1>0 DEF EndRendering, Stands
<1>6. AfterBlocked(Runtime) => WorkInv'
  BY <1>0 DEF AfterBlocked, Stands
<1>7. ResumeBlocked(Runtime) => WorkInv'
  BY DEF ResumeBlocked
<1>. QED
  BY <1>1, <1>2, <1>3, <1>4, <1>5, <1>6, <1>7

\* The token of a claimed head is one of the operation's, whoever presents it.
LEMMA HeldToken ==
  ASSUME WorkInv, OwnsHead(Runtime)
  PROVE  Token(Runtime) \in Tokens /\ status = "claimed" /\ claim.token = Token(Runtime)
<1>1. status = "claimed" /\ claim.token = Token(Runtime) /\ LifecycleInv
  BY DEF OwnsHead, WorkInv, HeadStands
<1>2. PICK v \in Workers : claim.token = <<v, claim.attempt>>
  BY <1>1 DEF WorkInv, HeadStands, TokenNamesAttempt
<1>3. claim.attempt = attemptCount /\ 1 <= attemptCount
  BY <1>1, OwnerFacts
<1>4. claim.attempt \in 1 .. MaxAttempts
  BY <1>3, WorkTypes, LifecycleAssumption
<1>. QED
  BY <1>1, <1>2, <1>4, ExecutionAssumption

\* The projection is committed only in an attempt that the head shows as claimed.
LEMMA InspectHeadWork ==
  ASSUME WorkInv, UNCHANGED initialized, InspectHead(Runtime) PROVE WorkInv'
<1>0. Stands(job[Runtime]) /\ job[Runtime].pc = "persist" /\ OnlyJob
  BY DEF WorkInv, InspectHead
<1>1. CASE CheckedHead(Runtime) /\ Goto(Runtime, "commit")
  <2>1. Token(Runtime) \in Tokens
    BY <1>1, HeldToken DEF CheckedHead
  <2>2. terminal = "none" /\ receipt = NoToken /\ initialized
    BY <1>0 DEF Stands, Unfinished, Unrendered, Executing
  <2>. QED
    BY <1>0, <1>1, <2>1, <2>2, WorkGoes DEF RuntimePhases, Executing
<1>2. CASE Goto(Runtime, "blocked")
  BY <1>0, <1>2, WorkGoes DEF Stands, RuntimePhases, Recovering, Unfinished, Unrendered, Executing
<1>. QED
  BY <1>1, <1>2 DEF InspectHead

\* The work that takes another time or revision along.
LEMMA WorkTurns ==
  ASSUME WorkInv, UNCHANGED initialized, OnlyJob, NEW j \in RuntimeJobType, Become(Runtime, j),
         j.rev \in {0, job[Runtime].rev, headRevision}, j.at \in {job[Runtime].at, now},
         j.pc \notin {"commit", "terminate", "finish"},
         j.pc = "claim" => j.attempt = attemptCount + 1,
         j.pc \in Unfinished => terminal = "none",
         j.pc \in Unrendered => receipt = NoToken,
         initialized
  PROVE  WorkInv'
<1>1. j.rev <= headRevision /\ j.at <= now
  BY WorkTypes DEF WorkInv, Stands
<1>2. Stands(j)
  BY <1>1 DEF Stands
<1>. QED
  BY <1>2, WorkReads

LEMMA ReadHeadWork == ASSUME WorkInv, UNCHANGED initialized, ReadHead(Runtime) PROVE WorkInv'
<1>0. initialized /\ OnlyJob
  BY DEF WorkInv, Stands, ReadHead
<1>1. CASE Goto(Runtime, "execute") \/ GoIdle(Runtime)
  BY <1>0, <1>1, WorkGoes, WorkRests DEF RuntimePhases, Executing, Unfinished, Unrendered
<1>2. CASE Become(Runtime, [job[Runtime] EXCEPT !.pc = "claim", !.rev = headRevision,
                                              !.attempt = attemptCount + 1])
  <2>. DEFINE j == [job[Runtime] EXCEPT !.pc = "claim", !.rev = headRevision,
                                       !.attempt = attemptCount + 1]
  <2>1. /\ j \in RuntimeJobType /\ j.pc = "claim" /\ j.rev = headRevision
        /\ j.attempt = attemptCount + 1 /\ j.at = job[Runtime].at
    <3>1. job[Runtime] \in RuntimeJobType /\ headRevision \in Nat /\ attemptCount + 1 \in Nat
      BY WorkTypes
    <3>. QED
      BY <3>1 DEF RuntimeJobType, RuntimePhases, Claiming
  <2>2. Become(Runtime, j)
    BY <1>2
  <2>. HIDE DEF j
  <2>. QED
    BY <1>0, <2>1, <2>2, WorkTurns DEF Unfinished, Unrendered, Executing
<1>. QED
  BY <1>1, <1>2 DEF ReadHead

LEMMA ExecuteWork == ASSUME WorkInv, UNCHANGED initialized, Execute(Runtime) PROVE WorkInv'
<1>0. initialized /\ OnlyJob
  BY DEF WorkInv, Stands, Execute
<1>1. CASE GoIdle(Runtime) \/ Goto(Runtime, "blocked")
  BY <1>0, <1>1, WorkGoes, WorkRests DEF RuntimePhases, Executing, Recovering, Unfinished, Unrendered
<1>2. CASE terminal = "none" /\ Become(Runtime, [job[Runtime] EXCEPT !.pc = "workflow", !.at = now])
  <2>. DEFINE j == [job[Runtime] EXCEPT !.pc = "workflow", !.at = now]
  <2>1. j \in RuntimeJobType /\ j.pc = "workflow" /\ j.rev = job[Runtime].rev /\ j.at = now
    BY WorkTypes DEF RuntimeJobType, RuntimePhases, Executing
  <2>2. Become(Runtime, j) /\ terminal = "none"
    BY <1>2
  <2>. HIDE DEF j
  <2>. QED
    BY <1>0, <2>1, <2>2, WorkTurns DEF Unrendered
<1>. QED
  BY <1>1, <1>2 DEF Execute

LEMMA WorkflowHeadWork ==
  ASSUME WorkInv, UNCHANGED initialized, WorkflowHead(Runtime) PROVE WorkInv'
<1>0. initialized /\ OnlyJob /\ terminal = "none"
  BY DEF WorkInv, Stands, WorkflowHead, Unfinished, Executing
<1>1. CASE Goto(Runtime, "finalize") \/ Goto(Runtime, "blocked")
  BY <1>0, <1>1, WorkGoes DEF RuntimePhases, Executing, Recovering, Unfinished, Unrendered
<1>2. ASSUME NEW p \in {"handoff", "receipt"},
             Become(Runtime, [job[Runtime] EXCEPT !.pc = p, !.rev = headRevision])
      PROVE  WorkInv'
  <2>. DEFINE j == [job[Runtime] EXCEPT !.pc = p, !.rev = headRevision]
  <2>1. j \in RuntimeJobType /\ j.pc = p /\ j.rev = headRevision /\ j.at = job[Runtime].at
    BY WorkTypes DEF RuntimeJobType, RuntimePhases, Executing
  <2>2. Become(Runtime, j)
    BY <1>2
  <2>. HIDE DEF j
  <2>. QED
    BY <1>0, <2>1, <2>2, WorkTurns DEF Unrendered
<1>. QED
  BY <1>1, <1>2 DEF WorkflowHead

LEMMA RecheckWork == ASSUME WorkInv, UNCHANGED initialized, Recheck(Runtime) PROVE WorkInv'
<1>0. initialized /\ OnlyJob
  BY DEF WorkInv, Stands, Recheck
<1>1. CASE GoIdle(Runtime)
  BY <1>0, <1>1, WorkRests
<1>2. CASE Become(Runtime, [job[Runtime] EXCEPT !.pc = "release", !.rev = headRevision, !.at = now])
  <2>. DEFINE j == [job[Runtime] EXCEPT !.pc = "release", !.rev = headRevision, !.at = now]
  <2>1. j \in RuntimeJobType /\ j.pc = "release" /\ j.rev = headRevision /\ j.at = now
    BY WorkTypes DEF RuntimeJobType, RuntimePhases, Recovering
  <2>2. Become(Runtime, j)
    BY <1>2
  <2>. HIDE DEF j
  <2>. QED
    BY <1>0, <2>1, <2>2, WorkTurns DEF Unfinished, Unrendered, Executing
<1>. QED
  BY <1>1, <1>2 DEF Recheck

\* A resumption passes no checkpoint before it renders.
LEMMA ResumeRenderingWork ==
  ASSUME WorkInv, UNCHANGED initialized, ResumeRendering(Runtime) PROVE WorkInv'
<1>0. initialized /\ OnlyJob /\ terminal = "none" /\ receipt = NoToken
  BY DEF WorkInv, Stands, ResumeRendering, Unfinished, Unrendered, Executing
<1>1. CASE Goto(Runtime, "conclude")
  BY <1>0, <1>1, WorkGoes DEF RuntimePhases, Executing
<1>2. CASE Become(Runtime, [job[Runtime] EXCEPT !.pc = "preflight", !.rev = headRevision])
  <2>. DEFINE j == [job[Runtime] EXCEPT !.pc = "preflight", !.rev = headRevision]
  <2>1. /\ j \in RuntimeJobType /\ j.pc = "preflight" /\ j.rev = headRevision
        /\ j.at = job[Runtime].at
    BY WorkTypes DEF RuntimeJobType, RuntimePhases, Executing
  <2>2. Become(Runtime, j)
    BY <1>2
  <2>. HIDE DEF j
  <2>. QED
    BY <1>0, <2>1, <2>2, WorkTurns
<1>. QED
  BY <1>1, <1>2 DEF ResumeRendering

\* What the head says of its stop is what the work is about to report.
LEMMA WorkReports ==
  ASSUME WorkInv, UNCHANGED initialized, OnlyJob, NEW o \in Outcomes \ {"completed"},
         MatchesStop(o), Terminate(Runtime, o), terminal = "none", receipt = NoToken, initialized
  PROVE  WorkInv'
<1>. DEFINE j == [job[Runtime] EXCEPT !.pc = "terminate", !.outcome = o]
<1>1. /\ j \in RuntimeJobType /\ j.pc = "terminate" /\ j.outcome = o
      /\ j.rev = job[Runtime].rev /\ j.at = job[Runtime].at
  BY WorkTypes DEF RuntimeJobType, RuntimePhases, Executing
<1>2. Become(Runtime, j)
  BY DEF Terminate
<1>. HIDE DEF j
<1>3. Stands(j)
  BY <1>1 DEF Stands, WorkInv
<1>. QED
  BY <1>1, <1>2, <1>3, WorkReads

LEMMA ReportSteps ==
  ASSUME WorkInv, UNCHANGED initialized, FinalizeStopped(Runtime) \/ Conclude(Runtime)
  PROVE  WorkInv'
<1>0. Stands(job[Runtime]) /\ OnlyJob
  BY DEF WorkInv, FinalizeStopped, Conclude
<1>1. terminal = "none" /\ initialized
  BY <1>0 DEF Stands, FinalizeStopped, Conclude, Unfinished, Executing
<1>2. CASE Goto(Runtime, "blocked")
  BY <1>0, <1>1, <1>2, WorkGoes DEF RuntimePhases, Recovering, Unfinished, Unrendered, Executing
<1>3. CASE FinalizeStopped(Runtime) /\ receipt # NoToken /\ Goto(Runtime, "finish")
  BY <1>0, <1>1, <1>3, WorkGoes DEF RuntimePhases, Executing, Unrendered
<1>4. CASE receipt = NoToken /\ \E o \in {LifecycleFailure, "failed"} : Terminate(Runtime, o)
  <2>1. "failed" \in Outcomes \ {"completed"} /\ MatchesStop("failed")
    BY DEF Outcomes, MatchesStop
  <2>. QED
    BY <1>0, <1>1, <1>4, <2>1, FailureMatches, WorkReports
<1>5. Conclude(Runtime) => receipt = NoToken
  BY <1>0 DEF Stands, Conclude, Unrendered
<1>. QED
  BY <1>2, <1>3, <1>4, <1>5 DEF FinalizeStopped, Conclude

-----------------------------------------------------------------------------
(* The steps that commit. *)

LEMMA WorkRecords ==
  ASSUME WorkInv, KeepHead, UNCHANGED <<now, route, initialized>>,
         NEW j \in RuntimeJobType, Become(Runtime, j), Stands(j)',
         terminal' \in Outcomes \cup {"none"}, receipt' \in Tokens \cup {NoToken},
         MatchesStop(terminal'), ~StatusUnavailable'
  PROVE  WorkInv'
<1>1. job'[Runtime] = j /\ job' \in [Workers -> RuntimeJobType]
  BY BecomesRuntime
<1>2. /\ HeadStands' /\ headRevision' = headRevision
      /\ \A o : MatchesStop(o)' <=> MatchesStop(o)
  BY HeadUntouched, WorkTypes
<1>3. Stands(job[Runtime])'
  BY <1>1 DEF Stands
<1>4. MatchesStop(terminal)'
  BY <1>2 DEF MatchesStop
<1>. QED
  BY <1>1, <1>2, <1>3, <1>4 DEF WorkInv

\* A call that goes unanswered, or is refused, leaves the rest to the due worker.
LEMMA BlocksOrRests ==
  ASSUME WorkInv, NEW p \in {"finish", "blocked"},
         GoIdle(Runtime) \/ Goto(Runtime, p),
         KeepHead, UNCHANGED <<now, initialized>>, initialized,
         p = "finish" => receipt' # NoToken /\ terminal' = "none"
  PROVE  \E j \in RuntimeJobType : Become(Runtime, j) /\ Stands(j)'
<1>0. /\ job[Runtime].rev <= headRevision /\ job[Runtime].at <= now
      /\ headRevision' = headRevision
  BY DEF WorkInv, Stands, KeepHead, headVars
<1>1. CASE GoIdle(Runtime)
  <2>1. Stands(IdleJob)'
    BY <1>0, WorkTypes DEF IdleJob, Stands, Unfinished, Unrendered, Executing
  <2>. QED
    BY <1>1, <2>1, RestStands DEF GoIdle
<1>2. CASE Goto(Runtime, p)
  <2>1. PICK j \in RuntimeJobType : /\ Become(Runtime, j) /\ j.pc = p
                                    /\ j.rev = job[Runtime].rev /\ j.at = job[Runtime].at
    <3>1. p \in RuntimePhases
      BY DEF RuntimePhases, Executing, Recovering
    <3>. QED
      BY <1>2, <3>1, GoesOn
  <2>2. Stands(j)'
    BY <1>0, <2>1 DEF Stands, Unfinished, Unrendered, Executing
  <2>. QED
    BY <2>1, <2>2
<1>. QED
  BY <1>1, <1>2

LEMMA CommitProjectionWork ==
  ASSUME WorkInv, UNCHANGED initialized, CommitProjection(Runtime) PROVE WorkInv'
<1>1. /\ terminal = "none" /\ receipt = NoToken /\ Token(Runtime) \in Tokens /\ initialized
      /\ KeepHead /\ UNCHANGED <<terminal, now, route>>
  BY DEF CommitProjection, WorkInv, Stands, Token, Unfinished, Unrendered, Executing
<1>2. NoToken \notin Tokens
  BY LifecycleAssumption
<1>3. receipt' \in Tokens \cup {NoToken} /\ MatchesStop(terminal') /\ ~StatusUnavailable'
  BY <1>1 DEF CommitProjection, StatusUnavailable, MatchesStop
<1>4. PICK p \in {"finish", "blocked"} : Goto(Runtime, p) /\ (p = "finish" => receipt' # NoToken)
  BY <1>1, <1>2 DEF CommitProjection
<1>5. PICK j \in RuntimeJobType : Become(Runtime, j) /\ Stands(j)'
  BY <1>1, <1>4, BlocksOrRests
<1>. QED
  BY <1>1, <1>3, <1>5, WorkRecords DEF WorkInv

\* Nobody else commits: what the work found before it holds when it commits.
LEMMA CommitTerminalWork ==
  ASSUME WorkInv, UNCHANGED initialized, initialized, NEW o \in Outcomes, CommitTerminal(Runtime, o),
         terminal = "none", MatchesStop(o), o = "completed" <=> receipt # NoToken
  PROVE  WorkInv'
<1>1. KeepHead /\ UNCHANGED <<receipt, now, route>> /\ terminal' \in {"none", o}
  BY DEF CommitTerminal
<1>2. /\ terminal' \in Outcomes \cup {"none"} /\ receipt' \in Tokens \cup {NoToken}
      /\ MatchesStop(terminal') /\ ~StatusUnavailable'
  BY <1>1 DEF WorkInv, StatusUnavailable, MatchesStop
<1>3. GoIdle(Runtime) \/ Goto(Runtime, "blocked")
  BY DEF CommitTerminal
<1>4. PICK j \in RuntimeJobType : Become(Runtime, j) /\ Stands(j)'
  BY <1>1, <1>3, BlocksOrRests
<1>. QED
  BY <1>1, <1>2, <1>4, WorkRecords

\* The outcome that the work commits, when it does.
LEMMA CommitsTruly ==
  ASSUME WorkInv, NEW o, \/ CommitCompleted(Runtime) /\ o = "completed"
                         \/ CommitStopped(Runtime) /\ o = job[Runtime].outcome
  PROVE  /\ CommitTerminal(Runtime, o) /\ o \in Outcomes /\ MatchesStop(o)
         /\ o = "completed" <=> receipt # NoToken
         /\ terminal = "none" /\ initialized
<1>0. Stands(job[Runtime])
  BY DEF WorkInv
<1>1. CASE CommitCompleted(Runtime) /\ o = "completed"
  BY <1>0, <1>1 DEF CommitCompleted, Stands, Unfinished, Executing, Outcomes, MatchesStop
<1>2. CASE CommitStopped(Runtime) /\ o = job[Runtime].outcome
  BY <1>0, <1>2 DEF CommitStopped, Stands, Unfinished, Unrendered, Executing
<1>. QED
  BY <1>1, <1>2

LEMMA CommitSteps ==
  ASSUME WorkInv, UNCHANGED initialized, CommitCompleted(Runtime) \/ CommitStopped(Runtime)
  PROVE  WorkInv'
<1>1. PICK o : \/ CommitCompleted(Runtime) /\ o = "completed"
               \/ CommitStopped(Runtime) /\ o = job[Runtime].outcome
  OBVIOUS
<1>. QED
  BY <1>1, CommitsTruly, CommitTerminalWork

-----------------------------------------------------------------------------
(* The steps that move the head. *)

\* A transition at a time that has come, after which a claim is still for the
\* attempt it counts.
TurnsHead(at) ==
  /\ at \in Nat /\ at <= now
  /\ TransitionAt(at)
  /\ TokenNamesAttempt'

LEMMA HeadTurned ==
  ASSUME WorkInv, NEW at, TurnsHead(at), UNCHANGED now
  PROVE  /\ HeadStands' /\ headRevision' = headRevision + 1
         /\ \A o : MatchesStop(o) => MatchesStop(o)'
<1>1. LifecycleInv /\ at \in Nat /\ TransitionAt(at)
  BY DEF WorkInv, HeadStands, TurnsHead
<1>2. HeadMoved(at)
  BY <1>1, TransitionMoves
<1>3. LifecycleInv'
  BY <1>1, InvStep DEF Transition
<1>4. stop = NoStop
  BY <1>1, <1>2 DEF HeadMoved, LifecycleInv, LifecycleTypeOK, Statuses, HeadParses, StatusFits
<1>5. \A o : MatchesStop(o) => MatchesStop(o)'
  BY <1>4 DEF MatchesStop, NoStop, CancelReasons
<1>. QED
  BY <1>2, <1>3, <1>5 DEF HeadMoved, HeadStands, TurnsHead

LEMMA WorldTurns ==
  ASSUME WorkInv, NEW at, TurnsHead(at), UNCHANGED <<now, terminal, receipt, initialized>>,
         initialized,
         route' \in [pc : {"idle", "apply", "done"}, at : Times], route'.at <= now,
         job' \in [Workers -> RuntimeJobType], Stands(job[Runtime])'
  PROVE  WorkInv'
<1>1. HeadStands' /\ \A o : MatchesStop(o) => MatchesStop(o)'
  BY HeadTurned
<1>2. MatchesStop(terminal)' /\ ~StatusUnavailable'
  BY <1>1 DEF WorkInv, MatchesStop, StatusUnavailable
<1>. QED
  BY <1>1, <1>2 DEF WorkInv

\* The steps after a transition are known by what they may not be.
Plain == RuntimePhases \ {"claim", "commit", "finish", "terminate"}

LEMMA WorkMoves ==
  ASSUME WorkInv, UNCHANGED initialized, initialized, NEW at, TurnsHead(at), OnlyHead,
         NEW j \in RuntimeJobType, Become(Runtime, j), j.pc \in Plain,
         j.rev \in {0, job[Runtime].rev, headRevision'}, j.at \in {0, job[Runtime].at},
         j.pc \in Unfinished => terminal = "none",
         j.pc \in Unrendered => receipt = NoToken
  PROVE  WorkInv'
<1>1. UNCHANGED <<terminal, receipt, now, route>>
  BY DEF OnlyHead, storeVars
<1>2. job'[Runtime] = j /\ job' \in [Workers -> RuntimeJobType]
  BY BecomesRuntime
<1>3. headRevision' = headRevision + 1
  BY <1>1, HeadTurned
<1>4. /\ job[Runtime].rev <= headRevision /\ job[Runtime].at <= now
      /\ job[Runtime].rev \in Nat /\ headRevision \in Nat /\ now \in Nat
  BY WorkTypes DEF WorkInv, Stands
<1>5. j.rev <= headRevision' /\ j.at <= now
  BY <1>3, <1>4
<1>6. Stands(job[Runtime])'
  BY <1>1, <1>2, <1>5 DEF Stands, Plain
<1>. QED
  BY <1>1, <1>2, <1>6, WorldTurns DEF WorkInv

LEMMA MovesAndGoes ==
  ASSUME WorkInv, UNCHANGED initialized, initialized, NEW at, TurnsHead(at), OnlyHead,
         NEW p \in Plain, Goto(Runtime, p),
         p \in Unfinished => terminal = "none",
         p \in Unrendered => receipt = NoToken
  PROVE  WorkInv'
<1>. DEFINE j == [job[Runtime] EXCEPT !.pc = p]
<1>1. /\ j \in RuntimeJobType /\ Become(Runtime, j) /\ j.pc = p
      /\ j.rev = job[Runtime].rev /\ j.at = job[Runtime].at
  BY GoesOn DEF Plain
<1>. HIDE DEF j
<1>. QED
  BY <1>1, WorkMoves

\* On from the revision that the transition made.
LEMMA MovesAndFollows ==
  ASSUME WorkInv, UNCHANGED initialized, initialized, NEW at, TurnsHead(at), OnlyHead,
         NEW p \in Plain, Become(Runtime, [job[Runtime] EXCEPT !.pc = p, !.rev = headRevision']),
         p \in Unfinished => terminal = "none",
         p \in Unrendered => receipt = NoToken
  PROVE  WorkInv'
<1>. DEFINE j == [job[Runtime] EXCEPT !.pc = p, !.rev = headRevision']
<1>0. headRevision' \in Nat /\ p \in RuntimePhases /\ job[Runtime] \in RuntimeJobType
  BY HeadTurned, WorkTypes DEF OnlyHead, Plain
<1>1. /\ j \in RuntimeJobType /\ Become(Runtime, j) /\ j.pc = p
      /\ j.rev = headRevision' /\ j.at = job[Runtime].at
  BY <1>0 DEF RuntimeJobType
<1>. HIDE DEF j
<1>. QED
  BY <1>1, WorkMoves

\* The transitions that the owner of a claim asks for leave the claim as it is,
\* or end it.
LEMMA OwnerTurns ==
  ASSUME WorkInv, OnlyHead,
         \/ \E next \in Checkpoints : PassCheckpoint(Token(Runtime), next, At(Runtime))
         \/ \E retryAt \in DateOrNull : ReleaseClaim(Token(Runtime), retryAt, At(Runtime))
         \/ CheckCheckpoint(Token(Runtime), At(Runtime))
  PROVE  TurnsHead(At(Runtime))
<1>1. OwnsHead(Runtime)
  BY DEF PassCheckpoint, ReleaseClaim, CheckCheckpoint, Owns, LiveClaim, OwnsHead
<1>2. TransitionAt(At(Runtime))
  BY <1>1, HeldToken DEF TransitionAt
<1>3. StopsFirst(At(Runtime)) => status' = "stopped"
  BY DEF StopsFirst, Stop
<1>4. status' = "claimed" => status = "claimed" /\ claim' = claim
  BY <1>1, <1>3 DEF PassCheckpoint, ReleaseClaim, CheckCheckpoint, Stop, OwnsHead
<1>5. At(Runtime) \in Nat /\ At(Runtime) <= now
  BY WorkTypes DEF At, WorkInv, Stands
<1>. QED
  BY <1>2, <1>4, <1>5 DEF TurnsHead, WorkInv, HeadStands, TokenNamesAttempt

\* So does the check before persistence, or it stops the export.
LEMMA CheckTurns ==
  ASSUME WorkInv, OnlyHead, CheckTransition(Runtime) PROVE TurnsHead(At(Runtime))
<1>1. CASE EnforceDeadline(At(Runtime))
  <2>1. status' # "claimed"
    BY <1>1 DEF EnforceDeadline, Stop
  <2>2. At(Runtime) \in Nat /\ At(Runtime) <= now
    BY WorkTypes DEF At, WorkInv, Stands
  <2>. QED
    BY <1>1, <2>1, <2>2 DEF TurnsHead, TransitionAt, TokenNamesAttempt
<1>2. CASE CheckCheckpoint(Token(Runtime), At(Runtime))
  BY <1>2, OwnerTurns
<1>. QED
  BY <1>1, <1>2 DEF CheckTransition

\* A claim is taken for the next attempt, and only within the budget.
LEMMA ClaimTurns ==
  ASSUME WorkInv, OnlyHead, job[Runtime].pc = "claim", Current(Runtime), ClaimTransition(Runtime)
  PROVE  TurnsHead(At(Runtime))
<1>0. At(Runtime) \in Nat /\ At(Runtime) <= now
  BY WorkTypes DEF At, WorkInv, Stands
<1>1. CASE Late(At(Runtime))
  <2>1. EnforceDeadline(At(Runtime)) /\ status' # "claimed"
    BY <1>1 DEF ClaimTransition, EnforceDeadline, Stop
  <2>. QED
    BY <1>0, <2>1 DEF TurnsHead, TransitionAt, TokenNamesAttempt
<1>2. CASE ~Late(At(Runtime))
  <2>. DEFINE expiresAt == MinTime(At(Runtime) + ClaimDuration, Deadline)
  <2>1. Claim(Token(Runtime), expiresAt, At(Runtime))
    BY <1>2 DEF ClaimTransition
  <2>2. ClaimDuration \in Nat /\ Deadline \in Nat /\ MaxAttempts \in Nat \ {0} /\ attemptCount \in Nat
    BY ExecutionAssumption, LifecycleAssumption, WorkTypes
  <2>3. expiresAt \in Nat
    BY <1>0, <2>2 DEF MinTime
  <2>4. job[Runtime].attempt = attemptCount + 1
    BY DEF WorkInv, Stands, Current
  <2>. HIDE DEF expiresAt
  <2>5. PICK token \in Tokens : Claim(token, expiresAt, At(Runtime))
    <3>1. CASE attemptCount < MaxAttempts
      <4>1. job[Runtime].attempt \in 1 .. MaxAttempts
        BY <2>2, <2>4, <3>1
      <4>. QED
        BY <2>1, <4>1, ExecutionAssumption, RuntimeIsOnly DEF Token
    <3>2. CASE ~(attemptCount < MaxAttempts)
      <4>1. Exhausted
        BY <2>2, <3>2 DEF Exhausted
      <4>2. <<Runtime, 1>> \in Tokens
        BY <2>2, ExecutionAssumption, RuntimeIsOnly
      <4>3. Claim(<<Runtime, 1>>, expiresAt, At(Runtime))
        BY <2>1, <4>1 DEF Claim
      <4>. QED
        BY <4>2, <4>3
    <3>. QED
      BY <3>1, <3>2
  <2>6. TransitionAt(At(Runtime))
    BY <2>3, <2>5 DEF TransitionAt
  <2>7. status' = "claimed" => claim'.token = Token(Runtime) /\ claim'.attempt = job[Runtime].attempt
    BY <2>1, <2>4 DEF Claim, StopsFirst, Stop, TakeClaim
  <2>. QED
    BY <1>0, <2>6, <2>7, RuntimeIsOnly DEF TurnsHead, TokenNamesAttempt, Token
<1>. QED
  BY <1>1, <1>2

LEMMA ClaimWorkWork == ASSUME WorkInv, UNCHANGED initialized, ClaimWork(Runtime) PROVE WorkInv'
<1>0. initialized /\ OnlyHead
  BY DEF WorkInv, Stands, ClaimWork
<1>. USE DEF RuntimePhases, Plain, Claiming, Executing, Unfinished, Unrendered
<1>1. CASE KeepHead
  BY <1>0, <1>1, WorkGoes, WorkRests DEF ClaimWork, OnlyJob, ClaimTransition
<1>2. CASE /\ Current(Runtime) /\ ClaimTransition(Runtime)
           /\ Goto(Runtime, "execute") \/ Goto(Runtime, "reconcile")
  <2>1. TurnsHead(At(Runtime))
    BY <1>0, <1>2, ClaimTurns DEF ClaimWork
  <2>. QED
    BY <1>0, <1>2, <2>1, MovesAndGoes
<1>. QED
  BY <1>1, <1>2 DEF ClaimWork

LEMMA PassHandoffWork == ASSUME WorkInv, UNCHANGED initialized, PassHandoff(Runtime) PROVE WorkInv'
<1>0. initialized /\ OnlyHead /\ terminal = "none"
  BY DEF WorkInv, Stands, PassHandoff, Unfinished, Executing
<1>. USE DEF RuntimePhases, Plain, Executing, Recovering, Unfinished, Unrendered
<1>1. CASE KeepHead /\ Goto(Runtime, "blocked")
  BY <1>0, <1>1, WorkGoes DEF OnlyJob
<1>2. CASE PassCheckpoint(Token(Runtime), "before-render", At(Runtime))
  <2>1. TurnsHead(At(Runtime))
    BY <1>0, <1>2, OwnerTurns DEF Checkpoints
  <2>2. CASE Goto(Runtime, "blocked")
    BY <1>0, <2>1, <2>2, MovesAndGoes
  <2>3. ASSUME NEW p \in {"finalize", "receipt"},
               Become(Runtime, [job[Runtime] EXCEPT !.pc = p, !.rev = headRevision'])
        PROVE  WorkInv'
    BY <1>0, <2>1, <2>3, MovesAndFollows
  <2>. QED
    BY <1>2, <2>2, <2>3 DEF PassHandoff
<1>. QED
  BY <1>1, <1>2 DEF PassHandoff

LEMMA PassBeforeRenderWork ==
  ASSUME WorkInv, UNCHANGED initialized, PassBeforeRender(Runtime) PROVE WorkInv'
<1>0. initialized /\ OnlyHead /\ terminal = "none" /\ receipt = NoToken
  BY DEF WorkInv, Stands, PassBeforeRender, Unfinished, Unrendered, Executing
<1>. USE DEF RuntimePhases, Plain, Executing
<1>1. CASE KeepHead /\ Goto(Runtime, "conclude")
  BY <1>0, <1>1, WorkGoes DEF OnlyJob
<1>2. CASE PassCheckpoint(Token(Runtime), "before-persist", At(Runtime))
  <2>1. TurnsHead(At(Runtime))
    BY <1>0, <1>2, OwnerTurns DEF Checkpoints
  <2>2. CASE Goto(Runtime, "conclude")
    BY <1>0, <2>1, <2>2, MovesAndGoes
  <2>3. CASE Become(Runtime, [job[Runtime] EXCEPT !.pc = "preflight", !.rev = headRevision'])
    BY <1>0, <2>1, <2>3, MovesAndFollows
  <2>. QED
    BY <1>2, <2>2, <2>3 DEF PassBeforeRender
<1>. QED
  BY <1>1, <1>2 DEF PassBeforeRender

LEMMA CheckSteps ==
  ASSUME WorkInv, UNCHANGED initialized, CancelRendering(Runtime) \/ CheckBeforePersist(Runtime)
  PROVE  WorkInv'
<1>0. initialized /\ OnlyHead /\ terminal = "none" /\ receipt = NoToken
  BY DEF WorkInv, Stands, CancelRendering, CheckBeforePersist, Unfinished, Unrendered, Executing
<1>. USE DEF RuntimePhases, Plain, Executing
<1>1. CASE KeepHead /\ Goto(Runtime, "conclude")
  BY <1>0, <1>1, WorkGoes DEF OnlyJob
<1>2. CASE CheckTransition(Runtime) /\ Goto(Runtime, "conclude")
  BY <1>0, <1>2, CheckTurns, MovesAndGoes
<1>3. CASE /\ CheckTransition(Runtime)
           /\ Become(Runtime, [job[Runtime] EXCEPT !.pc = "persist", !.rev = headRevision'])
  BY <1>0, <1>3, CheckTurns, MovesAndFollows
<1>. QED
  BY <1>1, <1>2, <1>3 DEF CancelRendering, CheckBeforePersist

LEMMA ReleaseWork == ASSUME WorkInv, UNCHANGED initialized, Release(Runtime) PROVE WorkInv'
<1>0. initialized /\ OnlyHead /\ GoIdle(Runtime)
  BY DEF WorkInv, Stands, Release
<1>1. CASE KeepHead
  BY <1>0, <1>1, WorkRests DEF OnlyJob
<1>2. CASE ReleaseClaim(Token(Runtime), At(Runtime) + RetryDelay, At(Runtime))
  <2>1. At(Runtime) + RetryDelay \in DateOrNull
    BY ExecutionAssumption, WorkTypes DEF At, DateOrNull
  <2>2. TurnsHead(At(Runtime))
    BY <1>0, <1>2, <2>1, OwnerTurns
  <2>. QED
    BY <1>0, <2>2, RestStands, WorkMoves
       DEF GoIdle, IdleJob, Plain, RuntimePhases, Unfinished, Unrendered, Executing
<1>. QED
  BY <1>1, <1>2 DEF Release

-----------------------------------------------------------------------------
(* The steps of the runtime around the work. *)

\* A look starts the due worker, resumes the claim that the head retains, or
\* does nothing.
LEMMA LookWork == ASSUME WorkInv, UNCHANGED initialized, Look(Runtime) PROVE WorkInv'
<1>1. CASE GoIdle(Runtime)
  BY <1>1, WorkRests DEF Look
<1>2. CASE /\ initialized
           /\ Become(Runtime, [IdleJob EXCEPT !.pc = "read-head", !.at = now])
  <2>. DEFINE j == [IdleJob EXCEPT !.pc = "read-head", !.at = now]
  <2>1. j \in RuntimeJobType /\ j.pc = "read-head" /\ j.rev = 0 /\ j.at = now
    BY WorkTypes, RestStands DEF IdleJob, RuntimeJobType, RuntimePhases, Claiming
  <2>2. Become(Runtime, j) /\ OnlyJob
    BY <1>2 DEF Look
  <2>. HIDE DEF j
  <2>. QED
    BY <1>2, <2>1, <2>2, WorkTurns DEF Unfinished, Unrendered, Executing
<1>3. CASE initialized /\ Resume(Runtime)
  <2>. DEFINE j == [IdleJob EXCEPT !.pc = "execute", !.at = now, !.attempt = claim.attempt]
  <2>1. claim.attempt \in Nat
    BY DEF WorkInv, HeadStands, LifecycleInv, LifecycleTypeOK, ClaimType
  <2>2. j \in RuntimeJobType /\ j.pc = "execute" /\ j.rev = 0 /\ j.at = now
    BY <2>1, WorkTypes, RestStands DEF IdleJob, RuntimeJobType, RuntimePhases, Executing
  <2>3. Become(Runtime, j) /\ OnlyJob
    BY <1>3 DEF Look, Resume
  <2>. HIDE DEF j
  <2>. QED
    BY <1>3, <2>2, <2>3, WorkTurns DEF Unfinished, Unrendered
<1>. QED
  BY <1>1, <1>2, <1>3 DEF Look

LEMMA WorkSteps == ASSUME WorkInv, WorkStep PROVE WorkInv'
<1>1. UNCHANGED initialized
  BY DEF WorkStep, Dispatch, Look, ExecuteStep, OnlyWork
<1>2. CASE Dispatch
  BY <1>1, <1>2, WorkGoes DEF Dispatch, RuntimePhases, Unfinished, Unrendered, Executing
<1>3. CASE Look(Runtime)
  BY <1>1, <1>3, LookWork
<1>4. CASE ExecuteStep(Runtime)
  <2>1. CASE SharedStep(Runtime)
    BY <1>1, <2>1, PlainSteps, ReadHeadWork, ClaimWorkWork, ExecuteWork, WorkflowHeadWork,
       PassHandoffWork, ReportSteps, CheckSteps, InspectHeadWork, CommitProjectionWork,
       CommitSteps, RecheckWork, ReleaseWork DEF SharedStep
  <2>. QED
    BY <1>1, <1>4, <2>1, PlainSteps, PassBeforeRenderWork, ResumeRenderingWork DEF ExecuteStep
<1>. QED
  BY <1>2, <1>3, <1>4, RuntimeIsOnly DEF WorkStep

\* A step that leaves the head and the records of the export alone.
LEMMA WorldStands ==
  ASSUME WorkInv, KeepHead, UNCHANGED storeVars, now' \in Times, now <= now',
         initialized => initialized', job' \in [Workers -> RuntimeJobType],
         job'[Runtime] = job[Runtime] \/ job'[Runtime] = IdleJob,
         route' \in [pc : {"idle", "apply", "done"}, at : Times], route'.at <= now',
         route'.pc = "apply" => initialized'
  PROVE  WorkInv'
<1>1. terminal' = terminal /\ receipt' = receipt
  BY DEF storeVars
<1>2. /\ now \in Nat /\ now' \in Nat
      /\ \A j \in RuntimeJobType : j.at \in Nat
  BY WorkTypes, TimesAreNat DEF RuntimeJobType
<1>3. /\ HeadStands' /\ headRevision' = headRevision /\ attemptCount' = attemptCount
      /\ \A o : MatchesStop(o)' <=> MatchesStop(o)
  BY <1>2, HeadUntouched
<1>4. ASSUME NEW j \in RuntimeJobType, Stands(j), job'[Runtime] = j PROVE Stands(job[Runtime])'
  BY <1>1, <1>2, <1>3, <1>4 DEF Stands
<1>5. Stands(job[Runtime])'
  BY <1>4, WorkTypes, RestStands DEF WorkInv
<1>6. MatchesStop(terminal)' /\ ~StatusUnavailable'
  BY <1>1, <1>3 DEF WorkInv, MatchesStop, StatusUnavailable
<1>. QED
  BY <1>1, <1>3, <1>5, <1>6 DEF WorkInv

LEMMA WorldFacts ==
  ASSUME WorkInv
  PROVE  /\ route \in [pc : {"idle", "apply", "done"}, at : Times] /\ route.at <= now
         /\ route.pc = "apply" => initialized
         /\ job \in [Workers -> RuntimeJobType]
         /\ now \in Times /\ now <= now
  BY WorkTypes DEF WorkInv

\* A POST changes none of it but the lifecycle record that it creates.
LEMMA PostWork == ASSUME WorkInv, NEW c \in Clients, PostStep(c) PROVE WorkInv'
<1>1. OnlyPosts
  BY DEF PostStep, Replay, Request, Admit, InitializeAndAnswer
<1>2. initialized => initialized'
  <2>1. Replay(c) \/ Request(c) \/ Admit(c) => initialized' = initialized
    BY DEF Replay, Request, Admit, SameRecords
  <2>2. InitializeAndAnswer(c) => initialized' = TRUE \/ initialized' = initialized
    BY DEF InitializeAndAnswer
  <2>. QED
    BY <2>1, <2>2 DEF PostStep
<1>. QED
  BY <1>1, <1>2, WorldFacts, WorldStands DEF OnlyPosts

LEMMA CancelWork == ASSUME WorkInv, Cancel PROVE WorkInv'
<1>1. /\ KeepHead /\ UNCHANGED <<storeVars, now, job>> /\ initialized'
      /\ route' = [pc |-> "apply", at |-> now]
  BY DEF Cancel, AskCancellation
<1>2. route' \in [pc : {"idle", "apply", "done"}, at : Times] /\ route'.at = now
  BY <1>1, WorldFacts
<1>. QED
  BY <1>1, <1>2, WorldFacts, WorldStands

\* What the cancel route asks of the head, when it applies it.
LEMMA CancellationTurns ==
  ASSUME WorkInv, RequestCancellation(route.at) PROVE TurnsHead(route.at)
<1>1. route.at \in Nat /\ route.at <= now
  BY WorkTypes DEF WorkInv
<1>2. status' = "claimed" => status = "claimed" /\ claim' = claim
  BY DEF RequestCancellation, Stop, RetainCancellation
<1>. QED
  BY <1>1, <1>2 DEF TurnsHead, TransitionAt, WorkInv, HeadStands, TokenNamesAttempt

LEMMA CancelStepWork == ASSUME WorkInv, CancelStep PROVE WorkInv'
<1>1. /\ UNCHANGED <<terminal, receipt, now, job, initialized>> /\ UNCHANGED storeVars
      /\ route' = [route EXCEPT !.pc = "done"] /\ initialized
  BY DEF CancelStep, ApplyCancellation, storeVars, runtimeVars, WorkInv
<1>2. /\ route' \in [pc : {"idle", "apply", "done"}, at : Times]
      /\ route'.at = route.at /\ route'.pc = "done"
  BY <1>1, WorldFacts
<1>3. CASE KeepHead
  BY <1>1, <1>2, <1>3, WorldFacts, WorldStands
<1>4. CASE RequestCancellation(route.at)
  <2>1. TurnsHead(route.at)
    BY <1>4, CancellationTurns
  <2>2. headRevision' = headRevision + 1 /\ \A o : MatchesStop(o) => MatchesStop(o)'
    BY <1>1, <2>1, HeadTurned
  <2>3. Stands(job[Runtime])'
    BY <1>1, <2>2, WorkTypes DEF WorkInv, Stands
  <2>. QED
    BY <1>1, <1>2, <2>1, <2>3, WorldFacts, WorldTurns
<1>. QED
  BY <1>3, <1>4 DEF CancelStep, ApplyCancellation

\* What dies or restarts is the process: the records are what they were.
LEMMA ProcessWork ==
  ASSUME WorkInv, Close \/ Settle \/ Reopen \/ Die \/ Pass \/ UNCHANGED allVars
  PROVE  WorkInv'
<1>1. KeepHead /\ UNCHANGED storeVars /\ initialized' = initialized
  BY DEF Close, Settle, Reopen, Die, Pass, Tick, OnlyJob, OnlyHead, KeepHead, vars, allVars, runtimeVars
<1>2. CASE Close \/ Settle \/ Reopen \/ UNCHANGED allVars
  <2>1. UNCHANGED <<now, job, route>>
    BY <1>2 DEF Close, Settle, Reopen, OnlyJob, OnlyHead, vars, allVars
  <2>. QED
    BY <1>1, <2>1, WorldFacts, WorldStands
<1>3. CASE Die
  <2>1. GoIdle(Runtime) /\ now' = now
    BY <1>3 DEF Die
  <2>2. job'[Runtime] = IdleJob /\ job' \in [Workers -> RuntimeJobType]
    BY <2>1, RestStands, BecomesRuntime DEF GoIdle
  <2>3. /\ route' \in [pc : {"idle", "apply", "done"}, at : Times]
        /\ route'.at = route.at /\ route'.pc # "apply"
    BY <1>3, WorldFacts DEF Die
  <2>. QED
    BY <1>1, <2>1, <2>2, <2>3, WorldFacts, WorldStands
<1>4. CASE Pass
  <2>1. now' = now + 1 /\ now < MaxTime /\ UNCHANGED <<job, route>>
    BY <1>4 DEF Pass, Tick
  <2>2. now' \in Times /\ now <= now' /\ route.at <= now'
    BY <2>1, WorkTypes, WorldFacts, LifecycleAssumption DEF Times
  <2>. QED
    BY <1>1, <2>1, <2>2, WorldFacts, WorldStands
<1>. QED
  BY <1>2, <1>3, <1>4

LEMMA WorkInvStep == ASSUME WorkInv, [RuntimeNext]_allVars PROVE WorkInv'
  BY WorkSteps, PostWork, CancelWork, CancelStepWork, ProcessWork DEF RuntimeNext

LEMMA WorkInvInit == ASSUME RuntimeInit PROVE WorkInv
<1>1. LifecycleInv /\ headRevision = 0 /\ status = "pending" /\ updatedAt = 0
  BY InvInit DEF RuntimeInit, ExecutionInit, LifecycleInit
<1>2. /\ now = 0 /\ terminal = "none" /\ receipt = NoToken /\ route = [pc |-> "idle", at |-> 0]
      /\ job = [w \in Workers |-> IdleJob] /\ ~initialized
  BY DEF RuntimeInit, ExecutionInit
<1>3. 0 \in Times
  BY LifecycleAssumption DEF Times
<1>4. job \in [Workers -> RuntimeJobType] /\ job[Runtime] = IdleJob
  BY <1>2, RestStands, RuntimeIsOnly
<1>5. Stands(IdleJob)
  BY <1>1, <1>2 DEF IdleJob, Stands, Unfinished, Unrendered, Executing
<1>. QED
  BY <1>1, <1>2, <1>3, <1>4, <1>5
     DEF WorkInv, HeadStands, TokenNamesAttempt, MatchesStop, StatusUnavailable

-----------------------------------------------------------------------------
(* The process and the caller key. *)

\* A stored operation is a client's.
LEMMA ClientsAreBound ==
  ASSUME ProcessInv, operation # Unbound PROVE operation \in Clients
  BY DEF ProcessInv

\* What each kind of step does to the process.
LEMMA PostProcess ==
  ASSUME ProcessInv, KeyInv, NEW c \in Clients, PostStep(c) PROVE ProcessInv'
<1>1. UNCHANGED <<job, resumed, pins, phase>>
  BY DEF PostStep, Replay, Request, Admit, InitializeAndAnswer, OnlyPosts
<1>2. operation' \in Clients \cup {Unbound} /\ (operation # Unbound => operation' # Unbound)
  <2>1. operation' = operation \/ operation' = c
    BY DEF PostStep, Replay, Request, Admit, InitializeAndAnswer, SameRecords
  <2>. QED
    BY <2>1, RuntimeAssumption DEF ProcessInv
<1>3. timer' = timer \/ (Schedule /\ operation' # Unbound)
  <2>1. Unbound # c
    BY RuntimeAssumption
  <2>2. Replay(c) => Schedule /\ operation' # Unbound
    BY DEF Replay, SameRecords
  <2>3. Request(c) \/ InitializeAndAnswer(c) => timer' = timer
    BY DEF Request, InitializeAndAnswer
  <2>4. Admit(c) => timer' = timer \/ (Schedule /\ operation' # Unbound)
    BY <2>1 DEF Admit
  <2>. QED
    BY <2>2, <2>3, <2>4 DEF PostStep
<1>4. initialized' \in BOOLEAN
  <2>1. initialized \in BOOLEAN
    BY DEF ProcessInv
  <2>2. Replay(c) \/ Request(c) \/ Admit(c) => initialized' = initialized
    BY DEF Replay, Request, Admit, SameRecords
  <2>3. InitializeAndAnswer(c) => initialized' = TRUE \/ initialized' = initialized
    BY DEF InitializeAndAnswer
  <2>. QED
    BY <2>1, <2>2, <2>3 DEF PostStep
<1>5. timer' \in BOOLEAN /\ (timer' => operation' # Unbound) /\ (phase' # "open" => ~timer')
  <2>1. timer \in BOOLEAN /\ (timer => operation # Unbound) /\ (phase # "open" => ~timer)
    BY DEF ProcessInv
  <2>2. CASE timer' = timer
    BY <1>1, <1>2, <2>1, <2>2
  <2>3. CASE Schedule /\ operation' # Unbound
    BY <1>1, <2>1, <2>3 DEF Schedule
  <2>. QED
    BY <1>3, <2>2, <2>3
<1>. QED
  BY <1>1, <1>2, <1>4, <1>5 DEF ProcessInv, Idle

LEMMA WorkProcess == ASSUME WorkInv, ProcessInv, WorkStep PROVE ProcessInv'
<1>1. UNCHANGED <<operation, initialized, pins, phase>>
  BY DEF WorkStep, Dispatch, Look, ExecuteStep, OnlyWork
<1>2. timer' = timer \/ timer' = FALSE
  BY DEF WorkStep, Dispatch, Look, ExecuteStep
<1>3. resumed' \in BOOLEAN
  <2>1. Dispatch => resumed' = resumed
    BY DEF Dispatch
  <2>2. \A w \in Workers : Look(w) => resumed' = TRUE \/ resumed' = FALSE
    BY DEF Look, Resume
  <2>3. \A w \in Workers : ExecuteStep(w) => resumed' = (resumed /\ job'[w].pc # "idle")
    BY DEF ExecuteStep
  <2>. QED
    BY <2>1, <2>2, <2>3 DEF WorkStep, ProcessInv
<1>4. operation # Unbound /\ phase # "closed"
  <2>1. CASE Dispatch
    BY <2>1 DEF Dispatch, ProcessInv
  <2>2. CASE Look(Runtime) \/ ExecuteStep(Runtime)
    <3>1. job[Runtime].pc # "idle"
      BY <2>2 DEF Look, ExecuteStep, SharedStep, ReadHead, ClaimWork, ReconcileClaim, Execute,
                  WorkflowHead, PassHandoff, ReadReceipt, FinalizeStopped, Preflight,
                  StopRendering, EndRendering, CancelRendering, CheckBeforePersist, InspectHead,
                  CommitProjection, CommitCompleted, Conclude, CommitStopped, Recheck, Release,
                  PassBeforeRender, AfterBlocked, ResumeRendering, ResumeBlocked
    <3>. QED
      BY <3>1 DEF ProcessInv, Idle
  <2>. QED
    BY <2>1, <2>2, RuntimeIsOnly DEF WorkStep
<1>5. initialized' \in BOOLEAN /\ timer' \in BOOLEAN /\ (phase' # "open" => ~timer')
  <2>1. initialized \in BOOLEAN /\ timer \in BOOLEAN /\ (phase # "open" => ~timer)
    BY DEF ProcessInv
  <2>2. CASE timer' = timer
    BY <1>1, <2>1, <2>2
  <2>3. CASE timer' = FALSE
    BY <1>1, <2>1, <2>3
  <2>. QED
    BY <1>2, <2>2, <2>3
<1>. QED
  BY <1>1, <1>3, <1>4, <1>5 DEF ProcessInv

LEMMA WorldProcess ==
  ASSUME WorkInv, ProcessInv,
         Cancel \/ CancelStep \/ Close \/ Settle \/ Reopen \/ Die \/ Pass \/ UNCHANGED allVars
  PROVE  ProcessInv'
<1>1. UNCHANGED <<operation, pins>> /\ initialized' \in BOOLEAN
  <2>1. UNCHANGED <<operation, pins>> /\ initialized' \in {initialized, TRUE}
    BY DEF Cancel, CancelStep, Close, Settle, Reopen, Die, Pass, runtimeVars, allVars
  <2>. QED
    BY <2>1 DEF ProcessInv
<1>2. job'[Runtime].pc = job[Runtime].pc \/ job'[Runtime].pc = "idle"
  <2>1. ~Die => job' = job
    BY DEF Cancel, AskCancellation, CancelStep, ApplyCancellation, Close, Settle, Reopen, Pass, Tick,
           vars, allVars
  <2>2. Die => job'[Runtime] = IdleJob
    BY RestStands, BecomesRuntime DEF Die, GoIdle
  <2>. QED
    BY <2>1, <2>2 DEF IdleJob
<1>3. CASE Cancel \/ CancelStep \/ Pass \/ UNCHANGED allVars
  <2>1. UNCHANGED <<timer, resumed, phase>> /\ job' = job
    BY <1>3 DEF Cancel, AskCancellation, CancelStep, ApplyCancellation, Pass, Tick, vars,
                runtimeVars, allVars
  <2>. QED
    BY <1>1, <2>1 DEF ProcessInv, Idle
<1>4. CASE Close \/ Reopen \/ Die
  <2>1. timer' = FALSE /\ phase' \in {"open", "closing"} /\ resumed' \in {resumed, FALSE}
    BY <1>4 DEF Close, Reopen, Die
  <2>. QED
    BY <1>1, <1>2, <2>1 DEF ProcessInv
<1>5. CASE Settle
  <2>1. timer' = timer /\ resumed' = resumed /\ job' = job /\ phase = "closing" /\ phase' = "closed"
        /\ Idle
    BY <1>5 DEF Settle, vars
  <2>. QED
    BY <1>1, <2>1 DEF ProcessInv, Idle
<1>. QED
  BY <1>3, <1>4, <1>5

\* What a POST does to the key.
LEMMA TellsBound ==
  ASSUME ProcessInv, KeyInv, operation # Unbound, NEW kind, Tell(kind) \/ TellNobody,
         kind = "created" => creations = 0
  PROVE  /\ told' \subseteq Clients /\ creations' \in 0 .. 1
         /\ kind # "created" => creations' = creations
         /\ \/ UNCHANGED <<told, creations>>
            \/ told' = told \cup {operation} /\ creations' = creations
            \/ told' = told \cup {operation} /\ creations = 0 /\ creations' = 1
<1>1. creations + 1 = 1 \/ creations # 0
  BY DEF KeyInv
<1>. QED
  BY <1>1, ClientsAreBound DEF Tell, TellNobody, KeyInv

\* The posts of other clients are none of its business.
LEMMA PostChanges ==
  ASSUME KeyInv, NEW c \in Clients, NEW p, posts' = [posts EXCEPT ![c] = p]
  PROVE  posts'[c] = p /\ \A d \in Clients \ {c} : posts'[d] = posts[d]
  BY DEF KeyInv

\* The POST of a client that found the key bound, or lost its request.
LEMMA PostKey ==
  ASSUME ProcessInv, KeyInv, NEW c \in Clients,
         NEW kind \in {"none", "created", "replayed"},
         UNCHANGED operation, operation # Unbound, Tell(kind) \/ TellNobody,
         kind = "created" => posts[c].kind = "created" /\ posts' = [posts EXCEPT ![c] = NoPost],
         \/ UNCHANGED posts \/ posts' = [posts EXCEPT ![c] = NoPost]
         \/ posts' = [posts EXCEPT ![c] = [pc |-> "initialize", kind |-> "replayed"]]
  PROVE  KeyInv'
<1>1. /\ told' \subseteq Clients /\ creations' \in 0 .. 1
      /\ kind # "created" => creations' = creations
  <2>1. kind = "created" => creations = 0
    BY DEF KeyInv
  <2>. QED
    BY <2>1, TellsBound
<1>2. posts' \in [Clients -> [pc : {"idle", "admit", "initialize"},
                              kind : {"none", "created", "replayed"}]]
  BY DEF KeyInv, NoPost
<1>3. ASSUME NEW d \in Clients, posts'[d].kind = "created"
      PROVE  /\ posts[d].kind = "created" /\ posts'[d] = posts[d]
             /\ kind = "created" => d # c
  <2>1. CASE UNCHANGED posts
    BY <1>3, <2>1, PostChanges DEF NoPost
  <2>2. CASE ~UNCHANGED posts
    BY <1>3, <2>2, PostChanges DEF NoPost
  <2>. QED
    BY <2>1, <2>2
<1>4. ASSUME NEW d \in Clients, posts'[d].kind = "created"
      PROVE  posts'[d].pc = "initialize" /\ creations' = 0
  <2>1. posts[d].kind = "created" /\ posts'[d].pc = "initialize" /\ creations = 0
    BY <1>3, <1>4 DEF KeyInv
  <2>2. kind # "created"
    BY <1>3, <1>4 DEF KeyInv
  <2>. QED
    BY <1>1, <2>1, <2>2
<1>5. \A d, e \in Clients : posts'[d].kind = "created" /\ posts'[e].kind = "created" => d = e
  BY <1>3 DEF KeyInv
<1>. QED
  BY <1>1, <1>2, <1>4, <1>5 DEF KeyInv

\* An admission: it binds a free key, or finds the key bound or the call lost.
LEMMA AdmitKey == ASSUME ProcessInv, KeyInv, NEW c \in Clients, Admit(c) PROVE KeyInv'
<1>0. /\ posts[c].pc = "admit" /\ UNCHANGED <<told, creations>>
      /\ posts \in [Clients -> [pc : {"idle", "admit", "initialize"},
                                kind : {"none", "created", "replayed"}]]
  BY DEF Admit, TellNobody, KeyInv
<1>1. CASE operation = Unbound /\ operation' = c
  <2>1. operation' # Unbound /\ creations = 0 /\ told' = told /\ creations' = creations
    BY <1>0, <1>1, RuntimeAssumption DEF KeyInv
  <2>2. \A d \in Clients : posts[d].kind # "created"
    BY <1>1 DEF KeyInv
  <2>3. PICK p \in {NoPost, [pc |-> "initialize", kind |-> "created"]} :
          posts' = [posts EXCEPT ![c] = p]
    BY <1>1 DEF Admit, Hold, Done
  <2>4. posts' \in [Clients -> [pc : {"idle", "admit", "initialize"},
                                kind : {"none", "created", "replayed"}]]
    BY <1>0, <2>3 DEF NoPost
  <2>5. posts'[c] = p /\ \A d \in Clients \ {c} : posts'[d] = posts[d]
    BY <2>3, PostChanges
  <2>6. posts'[c].kind = "created" => posts'[c].pc = "initialize"
    BY <2>5 DEF NoPost
  <2>. QED
    BY <2>1, <2>2, <2>4, <2>5, <2>6 DEF KeyInv
<1>2. CASE operation # Unbound /\ UNCHANGED operation
  <2>1. \/ posts' = [posts EXCEPT ![c] = NoPost]
        \/ posts' = [posts EXCEPT ![c] = [pc |-> "initialize", kind |-> "replayed"]]
    BY <1>2 DEF Admit, Hold, Done
  <2>2. TellNobody
    BY DEF Admit
  <2>. QED
    BY <1>2, <2>1, <2>2, PostKey
<1>3. CASE operation = Unbound /\ UNCHANGED operation /\ Done(c)
  <2>1. posts' = [posts EXCEPT ![c] = NoPost]
    BY <1>3 DEF Done
  <2>2. posts'[c] = NoPost /\ \A d \in Clients \ {c} : posts'[d] = posts[d]
    BY <2>1, PostChanges
  <2>3. posts' \in [Clients -> [pc : {"idle", "admit", "initialize"},
                                kind : {"none", "created", "replayed"}]]
    BY <1>0, <2>1 DEF NoPost
  <2>. QED
    BY <1>0, <1>3, <2>2, <2>3 DEF KeyInv, NoPost
<1>. QED
  BY <1>1, <1>2, <1>3 DEF Admit

LEMMA RequestKey == ASSUME KeyInv, NEW c \in Clients, Request(c) PROVE KeyInv'
<1>1. /\ posts' = [posts EXCEPT ![c].pc = "admit"] /\ operation = Unbound
      /\ UNCHANGED <<operation, told, creations>>
  BY DEF Request, SameRecords, TellNobody
<1>2. \A d \in Clients : /\ posts'[d].kind = posts[d].kind
                         /\ posts'[d].pc = "initialize" => posts[d].pc = "initialize"
  BY <1>1 DEF KeyInv
<1>3. \A d \in Clients : posts[d].kind # "created"
  BY <1>1 DEF KeyInv
<1>4. posts' \in [Clients -> [pc : {"idle", "admit", "initialize"},
                              kind : {"none", "created", "replayed"}]]
  BY <1>1 DEF KeyInv
<1>. QED
  BY <1>1, <1>2, <1>3, <1>4 DEF KeyInv

LEMMA PostStepKey == ASSUME ProcessInv, KeyInv, NEW c \in Clients, PostStep(c) PROVE KeyInv'
<1>1. CASE Replay(c)
  <2>1. /\ UNCHANGED operation /\ operation # Unbound /\ (Tell("replayed") \/ TellNobody)
        /\ \/ UNCHANGED posts
           \/ posts' = [posts EXCEPT ![c] = [pc |-> "initialize", kind |-> "replayed"]]
    BY <1>1 DEF Replay, SameRecords, Hold
  <2>. QED
    BY <2>1, PostKey
<1>2. CASE InitializeAndAnswer(c)
  <2>1. /\ posts[c].kind \in {"none", "created", "replayed"} /\ operation # Unbound
        /\ UNCHANGED operation /\ posts' = [posts EXCEPT ![c] = NoPost]
        /\ (Tell(posts[c].kind) \/ TellNobody)
    BY <1>2 DEF InitializeAndAnswer, Done, KeyInv
  <2>. QED
    BY <2>1, PostKey
<1>. QED
  BY <1>1, <1>2, RequestKey, AdmitKey DEF PostStep

LEMMA OtherStepKey ==
  ASSUME KeyInv,
         \/ WorkStep \/ Cancel \/ CancelStep \/ Close \/ Settle \/ Reopen \/ Die \/ Pass
         \/ UNCHANGED allVars
  PROVE  KeyInv' /\ UNCHANGED <<operation, told, creations>>
<1>1. UNCHANGED <<operation, told, creations>>
  BY DEF WorkStep, Dispatch, Look, ExecuteStep, OnlyWork, Cancel, CancelStep, Close, Settle,
         Reopen, Die, Pass, runtimeVars, allVars
<1>2. posts' = posts \/ posts' = [c \in Clients |-> NoPost]
  BY DEF WorkStep, Dispatch, Look, ExecuteStep, OnlyWork, Cancel, CancelStep, Close, Settle,
         Reopen, Die, Pass, runtimeVars, allVars
<1>3. CASE posts' = posts
  BY <1>1, <1>3 DEF KeyInv
<1>4. CASE posts' = [c \in Clients |-> NoPost]
  BY <1>1, <1>4 DEF KeyInv, NoPost
<1>. QED
  BY <1>1, <1>2, <1>3, <1>4

-----------------------------------------------------------------------------
(* The theorems. *)

LEMMA RuntimeInvInit == ASSUME RuntimeInit PROVE RuntimeInv
<1>1. job[Runtime] = IdleJob
  BY RuntimeIsOnly DEF RuntimeInit, ExecutionInit
<1>2. ProcessInv
  <2>1. initialized = FALSE /\ timer = FALSE /\ resumed = FALSE
    BY DEF RuntimeInit
  <2>2. operation = Unbound /\ pins \in Askings /\ phase = "open" /\ job[Runtime].pc = "idle"
    BY <1>1 DEF RuntimeInit, IdleJob
  <2>. QED
    BY <2>1, <2>2 DEF ProcessInv
<1>3. KeyInv
  BY DEF RuntimeInit, KeyInv, NoPost
<1>. QED
  BY <1>2, <1>3, WorkInvInit DEF RuntimeInv

LEMMA RuntimeInvStep == ASSUME RuntimeInv, [RuntimeNext]_allVars PROVE RuntimeInv'
<1>1. WorkInv /\ ProcessInv /\ KeyInv
  BY DEF RuntimeInv
<1>2. ProcessInv'
  BY <1>1, PostProcess, WorkProcess, WorldProcess DEF RuntimeNext
<1>3. KeyInv'
  BY <1>1, PostStepKey, OtherStepKey DEF RuntimeNext
<1>. QED
  BY <1>1, <1>2, <1>3, WorkInvStep DEF RuntimeInv

\* The inductive invariant holds of every reachable state of the runtime.
THEOREM RuntimeInvariant == RuntimeSpec => []RuntimeInv
  BY RuntimeInvInit, RuntimeInvStep, PTL DEF RuntimeSpec

\* The runtime's state keeps its type: it works only for a stored operation,
\* moves no head that was not created, and schedules nothing while closing.
THEOREM RuntimeTypeCorrect == RuntimeSpec => []RuntimeTypeOK
<1>1. RuntimeInv => RuntimeTypeOK
  BY DEF RuntimeInv, WorkInv, ProcessInv, KeyInv, RuntimeTypeOK
<1>. QED
  BY <1>1, RuntimeInvariant, PTL

\* Through restarts, resumptions and cancellations, no export gets a status that
\* publicStatus answers with 503: none ends as completed without its artifact,
\* and none that has one ends otherwise (docGenLocalDurablePdfExportRuntime.ts).
THEOREM RuntimeStatusStaysReadable == RuntimeSpec => []StatusStaysReadable
<1>1. RuntimeInv => StatusStaysReadable
  BY DEF RuntimeInv, WorkInv, StatusStaysReadable
<1>. QED
  BY <1>1, RuntimeInvariant, PTL

\* A cancelled or late status says of the lifecycle what the head says.
THEOREM RuntimeTerminalMatchesStop == RuntimeSpec => []TerminalMatchesStop
<1>1. RuntimeInv => TerminalMatchesStop
  BY DEF RuntimeInv, WorkInv, MatchesStop, TerminalMatchesStop
<1>. QED
  BY <1>1, RuntimeInvariant, PTL

-----------------------------------------------------------------------------
(* The promises: every step of the runtime is a step of KeyPromise and one of  *)
(* PdfExportPromise, or leaves what they speak of as it is.                    *)

LEMMA AnswerStep ==
  ASSUME ProcessInv, KeyInv, operation # Unbound, UNCHANGED operation,
         NEW kind, Tell(kind) \/ TellNobody, kind = "created" => creations = 0
  PROVE  [Key!PromiseNext]_(Key!promiseVars)
  BY TellsBound DEF Key!PromiseNext, Key!TellCreated, Key!TellReplayed, Key!promiseVars

LEMMA KeyStep ==
  ASSUME RuntimeInv, [RuntimeNext]_allVars PROVE [Key!PromiseNext]_(Key!promiseVars)
<1>0. WorkInv /\ ProcessInv /\ KeyInv
  BY DEF RuntimeInv
<1>1. ASSUME NEW c \in Clients, Replay(c) PROVE [Key!PromiseNext]_(Key!promiseVars)
  <2>1. operation # Unbound /\ UNCHANGED operation /\ (Tell("replayed") \/ TellNobody)
    BY <1>1 DEF Replay, SameRecords
  <2>. QED
    BY <1>0, <2>1, AnswerStep
<1>2. ASSUME NEW c \in Clients, InitializeAndAnswer(c) PROVE [Key!PromiseNext]_(Key!promiseVars)
  <2>1. /\ operation # Unbound /\ UNCHANGED operation /\ (Tell(posts[c].kind) \/ TellNobody)
        /\ posts[c].kind = "created" => creations = 0
    BY <1>0, <1>2 DEF InitializeAndAnswer, KeyInv
  <2>. QED
    BY <1>0, <2>1, AnswerStep
<1>3. ASSUME NEW c \in Clients, Request(c) \/ Admit(c) PROVE [Key!PromiseNext]_(Key!promiseVars)
  <2>1. UNCHANGED <<told, creations>> /\ (operation' = operation \/ (operation = Unbound /\ operation' = c))
    BY <1>3 DEF Request, Admit, TellNobody, SameRecords
  <2>. QED
    BY <2>1 DEF Key!PromiseNext, Key!Bind, Key!promiseVars
<1>4. ASSUME \/ WorkStep \/ Cancel \/ CancelStep \/ Close \/ Settle \/ Reopen \/ Die \/ Pass
             \/ UNCHANGED allVars
      PROVE  [Key!PromiseNext]_(Key!promiseVars)
  BY <1>0, <1>4, OtherStepKey DEF Key!promiseVars
<1>. QED
  BY <1>1, <1>2, <1>3, <1>4 DEF RuntimeNext, PostStep

\* The caller key is bound once, everybody who is answered is told of that one
\* operation, and at most one answer says created, whatever POSTs race, whatever
\* commits go unanswered and however often the process restarts (pdfExportRoute.ts).
THEOREM RuntimeKeepsKeyPromise == RuntimeSpec => KeepsKeyPromise
<1>1. RuntimeInit => Key!PromiseInit
  BY DEF RuntimeInit, Key!PromiseInit
<1>2. RuntimeInv /\ [RuntimeNext]_allVars => [Key!PromiseNext]_(Key!promiseVars)
  BY KeyStep
<1>. QED
  BY <1>1, <1>2, RuntimeInvariant, PTL DEF RuntimeSpec, KeepsKeyPromise, Key!PromiseSpec

\* What the work does to the head.
LEMMA WorkTurnsHead ==
  ASSUME WorkInv, ExecuteStep(Runtime)
  PROVE  KeepHead \/ (TransitionAt(At(Runtime)) /\ At(Runtime) \in Nat)
<1>. USE OwnerTurns DEF TurnsHead, Checkpoints
<1>1. ClaimWork(Runtime) => KeepHead \/ TurnsHead(At(Runtime))
  BY ClaimTurns DEF ClaimWork
<1>2. PassHandoff(Runtime) \/ PassBeforeRender(Runtime) => KeepHead \/ TurnsHead(At(Runtime))
  BY DEF PassHandoff, PassBeforeRender
<1>3. CancelRendering(Runtime) \/ CheckBeforePersist(Runtime) => KeepHead \/ TurnsHead(At(Runtime))
  BY CheckTurns DEF CancelRendering, CheckBeforePersist
<1>4. Release(Runtime) => KeepHead \/ TurnsHead(At(Runtime))
  <2>1. At(Runtime) + RetryDelay \in DateOrNull
    BY ExecutionAssumption, WorkTypes DEF At, DateOrNull
  <2>. QED
    BY <2>1 DEF Release
<1>5. CommitProjection(Runtime) \/ CommitCompleted(Runtime) \/ CommitStopped(Runtime) => KeepHead
  BY DEF CommitProjection, CommitCompleted, CommitStopped, CommitTerminal
<1>6. \/ ReadHead(Runtime) \/ ReconcileClaim(Runtime) \/ Execute(Runtime) \/ WorkflowHead(Runtime)
      \/ ReadReceipt(Runtime) \/ FinalizeStopped(Runtime) \/ Preflight(Runtime)
      \/ StopRendering(Runtime) \/ EndRendering(Runtime) \/ InspectHead(Runtime)
      \/ Conclude(Runtime) \/ AfterBlocked(Runtime) \/ Recheck(Runtime)
      \/ ResumeRendering(Runtime) \/ ResumeBlocked(Runtime)
      => KeepHead
  BY DEF ReadHead, ReconcileClaim, Execute, WorkflowHead, ReadReceipt, FinalizeStopped, Preflight,
         StopRendering, EndRendering, InspectHead, Conclude, AfterBlocked, Recheck,
         ResumeRendering, ResumeBlocked, OnlyJob
<1>. QED
  BY <1>1, <1>2, <1>3, <1>4, <1>5, <1>6 DEF ExecuteStep, SharedStep

LEMMA RuntimeHeadStep == ASSUME RuntimeInv, [RuntimeNext]_allVars PROVE [Transition]_headVars
<1>0. WorkInv
  BY DEF RuntimeInv
<1>1. WorkStep => [Transition]_headVars
  <2>1. Dispatch \/ Look(Runtime) => KeepHead
    BY DEF Dispatch, Look, OnlyJob
  <2>. QED
    BY <1>0, <2>1, WorkTurnsHead, RuntimeIsOnly DEF WorkStep, KeepHead, Transition
<1>2. CancelStep => [Transition]_headVars
  BY <1>0, CancellationTurns DEF CancelStep, ApplyCancellation, TurnsHead, KeepHead, Transition
<1>3. (\E c \in Clients : PostStep(c)) => KeepHead
  BY DEF PostStep, Replay, Request, Admit, InitializeAndAnswer, OnlyPosts
<1>4. Cancel \/ Close \/ Settle \/ Reopen \/ Die \/ Pass \/ UNCHANGED allVars => KeepHead
  BY DEF Cancel, AskCancellation, Close, Settle, Reopen, Die, Pass, Tick, OnlyJob, KeepHead, vars, allVars
<1>. QED
  BY <1>1, <1>2, <1>3, <1>4 DEF RuntimeNext, KeepHead

\* The head that the runtime resumes keeps its contract: it parses, a cancelled
\* export only stops, a live claim stays its owner's, every attempt starts over
\* and every retry time is honoured.
THEOREM RuntimeHeadKeepsContract ==
  RuntimeSpec => /\ []LifecycleInv
                 /\ CancelledOnlyStops
                 /\ ClaimOutlivesContention
                 /\ AttemptStartsOver
                 /\ BackoffHonoured
<1>1. RuntimeInit => LifecycleInit
  BY DEF RuntimeInit, ExecutionInit
<1>2. RuntimeInv /\ [RuntimeNext]_allVars => [Transition]_headVars
  BY RuntimeHeadStep
<1>3. RuntimeSpec => TransitionSpec
  BY <1>1, <1>2, RuntimeInvariant, PTL DEF RuntimeSpec, TransitionSpec
<1>. QED
  BY <1>3, TransitionsKeepContract

\* What the work reports is true of what the client sees.
LEMMA RuntimeOutcomeIsTrue ==
  ASSUME WorkInv, NEW o, MatchesStop(o)
  PROVE  /\ o = "cancelled" => Cancelled
         /\ o = "deadline-exceeded" => now >= Deadline
<1>0. LifecycleInv /\ updatedAt <= now
  BY DEF WorkInv, HeadStands
<1>1. stop.reason \in CancelReasons => Cancelled
  BY <1>0 DEF LifecycleInv, HeadParses, StopFits, NoStop, CancelReasons
<1>2. stop.reason = "deadline-exceeded" => Late(updatedAt)
  <2>1. stop.reason = "deadline-exceeded" => status = "stopped"
    BY <1>0 DEF LifecycleInv, LifecycleTypeOK, Statuses, HeadParses, StatusFits, NoStop
  <2>. QED
    BY <1>0, <2>1 DEF LifecycleInv, StopReasonHolds
<1>3. Late(updatedAt) => now >= Deadline
  BY <1>0, WorkTypes, LifecycleAssumption DEF Late
<1>. QED
  BY <1>1, <1>2, <1>3 DEF MatchesStop

LEMMA WorkPromise == ASSUME WorkInv, WorkStep PROVE Unseen \/ Promise!PromiseNext
<1>1. CASE CommitProjection(Runtime)
  <2>1. Token(Runtime) # NoToken /\ UNCHANGED <<terminal, now, cancelledAt>>
    BY <1>1, LifecycleAssumption
       DEF CommitProjection, WorkInv, Stands, Token, KeepHead, headVars
  <2>. QED
    BY <1>1, <2>1 DEF CommitProjection, Unseen, Promise!PromiseNext, Promise!Retain, Cancelled
<1>2. CASE CommitCompleted(Runtime) \/ CommitStopped(Runtime)
  <2>1. PICK o : \/ CommitCompleted(Runtime) /\ o = "completed"
                 \/ CommitStopped(Runtime) /\ o = job[Runtime].outcome
    BY <1>2
  <2>2. /\ CommitTerminal(Runtime, o) /\ o \in Outcomes /\ MatchesStop(o)
        /\ o = "completed" => receipt # NoToken
    BY <2>1, CommitsTruly
  <2>3. UNCHANGED <<receipt, now, cancelledAt>>
    BY <2>2 DEF CommitTerminal, KeepHead, headVars
  <2>4. Unseen \/ Promise!End(o)
    BY <2>2, <2>3, RuntimeOutcomeIsTrue DEF CommitTerminal, Unseen, Promise!End, Cancelled
  <2>. QED
    BY <2>2, <2>4 DEF Promise!PromiseNext, Outcomes
<1>3. \/ Dispatch \/ Look(Runtime) \/ ResumeRendering(Runtime) \/ ResumeBlocked(Runtime)
      => Unseen
  BY DEF Dispatch, Look, ResumeRendering, ResumeBlocked, OnlyJob, OnlyHead, KeepHead, headVars,
         storeVars, Unseen
<1>4. ExecuteStep(Runtime) => Unseen \/ Promise!PromiseNext
  BY <1>1, <1>2, <1>3, HeadStepsUnseen, ReadStepsUnseen, RuntimeIsOnly DEF ExecuteStep, SharedStep
<1>. QED
  BY <1>3, <1>4, RuntimeIsOnly DEF WorkStep

LEMMA RuntimePromiseStep ==
  ASSUME RuntimeInv, [RuntimeNext]_allVars
  PROVE  [Promise!PromiseNext]_(Promise!promiseVars)
<1>0. WorkInv
  BY DEF RuntimeInv
<1>1. WorkStep => Unseen \/ Promise!PromiseNext
  BY <1>0, WorkPromise
<1>2. CancelStep => Unseen \/ Promise!PromiseNext
  <2>1. CASE RequestCancellation(route.at) /\ UNCHANGED <<storeVars, now>>
    <3>1. ~Cancelled /\ Cancelled'
      BY <1>0, <2>1, WorkTypes DEF RequestCancellation, Cancelled, NoTime
    <3>. QED
      BY <2>1, <3>1 DEF Promise!PromiseNext, Promise!Ask, Cancelled, storeVars
  <2>. QED
    BY <2>1 DEF CancelStep, ApplyCancellation, KeepHead, headVars, storeVars, Unseen
<1>3. (\E c \in Clients : PostStep(c)) => Unseen
  BY DEF PostStep, Replay, Request, Admit, InitializeAndAnswer, OnlyPosts, KeepHead, headVars,
         storeVars, Unseen
<1>4. Cancel \/ Close \/ Settle \/ Reopen \/ Die \/ UNCHANGED allVars => Unseen
  BY DEF Cancel, AskCancellation, Close, Settle, Reopen, Die, OnlyJob, OnlyHead, KeepHead, headVars,
         storeVars, vars, allVars, Unseen
<1>5. Pass => Promise!PromiseNext
  BY DEF Pass, Tick, KeepHead, headVars, storeVars, Promise!PromiseNext, Promise!Pass, Cancelled
<1>. QED
  BY <1>1, <1>2, <1>3, <1>4, <1>5, UnseenStutters DEF RuntimeNext

\* The client of an export that outlives its process is promised what the client
\* of the workers is: at most one artifact, and one outcome, which is true.
THEOREM RuntimeKeepsPromise == RuntimeSpec => KeepsPromise
<1>1. RuntimeInit => Promise!PromiseInit
  BY DEF RuntimeInit, ExecutionInit, LifecycleInit, Promise!PromiseInit, Cancelled
<1>2. RuntimeInv /\ [RuntimeNext]_allVars => [Promise!PromiseNext]_(Promise!promiseVars)
  BY RuntimePromiseStep
<1>. QED
  BY <1>1, <1>2, RuntimeInvariant, PTL DEF RuntimeSpec, KeepsPromise, Promise!PromiseSpec
=============================================================================
