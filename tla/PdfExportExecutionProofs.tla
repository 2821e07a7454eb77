----------------------- MODULE PdfExportExecutionProofs -----------------------
(***************************************************************************)
(* Theorems about the lifecycle head, and about the execution of one       *)
(* export by any workers on it, with any budget, deadline, claim and retry *)
(* durations: the invariants of both, and that the execution keeps the     *)
(* promise of PdfExportPromise.                                            *)
(***************************************************************************)
EXTENDS PdfExportExecution, TLAPS

-----------------------------------------------------------------------------
(* The lifecycle head, moved by any commands of any actor.                    *)

\* The null records and the null date belong to the types of their fields.
LEMMA NullsTyped ==
  /\ NoTime \in DateOrNull
  /\ NoClaim \in ClaimType
  /\ NoRelease \in ReleaseType
  /\ NoCheck \in CheckType
  /\ NoStop \in StopType
  BY DEF NoTime, DateOrNull, TokenOrNull, NoClaim, ClaimType, NoRelease, ReleaseType,
         NoCheck, CheckType, NoStop, StopType, Checkpoints

\* The times of requests are milliseconds since the operation was accepted.
LEMMA TimesAreNat == Times \subseteq Nat
  BY LifecycleAssumption DEF Times

\* Every checkpoint has its own cancellation reason.
LEMMA CancellationReasonType ==
  ASSUME NEW c \in Checkpoints
  PROVE  CancellationReason(c) \in CancelReasons
  BY DEF CancellationReason, CancelReasons, Checkpoints

\* A stop with one of the stop reasons leaves the head well typed.
LEMMA StopTyped ==
  ASSUME LifecycleTypeOK, NEW reason \in StopReasons, NEW at \in Nat, Stop(reason, at),
         cancelledAt' \in DateOrNull, lastRelease' \in ReleaseType
  PROVE  LifecycleTypeOK'
  BY NullsTyped DEF LifecycleTypeOK, Stop, Advance, StopType, Statuses, DateOrNull

\* So does the stop that precedes a claim or an owner transition.
LEMMA StopsFirstTyped ==
  ASSUME LifecycleTypeOK, NEW at \in Nat, StopsFirst(at)
  PROVE  LifecycleTypeOK'
  <1>1. CancellationReason(checkpoint) \in StopReasons
    BY CancellationReasonType DEF LifecycleTypeOK, StopReasons
  <1>2. "deadline-exceeded" \in StopReasons
    BY DEF StopReasons
  <1> QED BY <1>1, <1>2, StopTyped DEF StopsFirst, LifecycleTypeOK

\* A transition requested with any times, of which a run has those up to MaxTime.
TransitionAt(at) ==
  \/ ForceShutdown(at)
  \/ EnforceDeadline(at)
  \/ RequestCancellation(at)
  \/ \E token \in Tokens :
       \/ \E expiresAt \in Nat : Claim(token, expiresAt, at)
       \/ \E next \in Checkpoints : PassCheckpoint(token, next, at)
       \/ \E retryAt \in DateOrNull : ReleaseClaim(token, retryAt, at)
       \/ CheckCheckpoint(token, at)
Transition == \E at \in Nat : TransitionAt(at)

\* Every step of the lifecycle is a transition.
LEMMA StepIsTransition ==
  LifecycleNext => \E at \in Times : TransitionAt(at)
  BY TimesAreNat DEF LifecycleNext, TransitionAt, DateOrNull

LEMMA StepsAreTransitions == [LifecycleNext]_headVars => [Transition]_headVars
  BY StepIsTransition, TimesAreNat DEF Transition

\* No transition writes an ill-typed head.
LEMMA TypeStep ==
  ASSUME LifecycleTypeOK, [Transition]_headVars
  PROVE  LifecycleTypeOK'
  <1>0. StopReasons = CancelReasons \cup {"deadline-exceeded", "attempts-exhausted", "shutdown-forced"}
    BY DEF StopReasons
  <1>1. CASE UNCHANGED headVars
    BY <1>1 DEF headVars, LifecycleTypeOK
  <1>2. ASSUME NEW at \in Nat, ForceShutdown(at) PROVE LifecycleTypeOK'
    BY <1>0, <1>2, StopTyped DEF ForceShutdown, LifecycleTypeOK
  <1>3. ASSUME NEW at \in Nat, EnforceDeadline(at) PROVE LifecycleTypeOK'
    BY <1>0, <1>3, StopTyped DEF EnforceDeadline, LifecycleTypeOK
  <1>4. ASSUME NEW at \in Nat, RequestCancellation(at) PROVE LifecycleTypeOK'
    <2>1. at \in Nat /\ cancelledAt' \in DateOrNull /\ lastRelease' \in ReleaseType
      BY <1>4 DEF RequestCancellation, LifecycleTypeOK, DateOrNull
    <2>2. ASSUME NEW reason \in StopReasons, Stop(reason, at) PROVE LifecycleTypeOK'
      BY <2>1, <2>2, StopTyped
    <2>3. CancellationReason(checkpoint) \in StopReasons
      BY <1>0, CancellationReasonType DEF LifecycleTypeOK
    <2>4. CASE Advance(at) /\ checkpointCheck' = NoCheck
               /\ UNCHANGED <<status, checkpoint, attemptCount, retryAfter, claim, stop>>
      BY <2>1, <2>4, NullsTyped DEF Advance, LifecycleTypeOK
    <2> QED BY <1>0, <1>4, <2>2, <2>3, <2>4 DEF RequestCancellation, RetainCancellation
  <1>5. ASSUME NEW at \in Nat, NEW token \in Tokens, NEW expiresAt \in Nat,
               Claim(token, expiresAt, at)
        PROVE  LifecycleTypeOK'
    <2>1. CASE StopsFirst(at)
      BY <2>1, StopsFirstTyped
    <2>2. CASE Stop("attempts-exhausted", at) /\ UNCHANGED <<cancelledAt, lastRelease>>
      BY <1>0, <2>2, StopTyped DEF LifecycleTypeOK
    <2>3. CASE TakeClaim(token, expiresAt, at)
      <3>1. claim' \in ClaimType
        BY <2>3 DEF TakeClaim, ClaimType, TokenOrNull, DateOrNull, LifecycleTypeOK
      <3> QED BY <2>3, <3>1, NullsTyped
              DEF TakeClaim, StartingCheckpoint, Advance, LifecycleTypeOK, Statuses, Checkpoints
    <2> QED BY <1>5, <2>1, <2>2, <2>3 DEF Claim
  <1>6. ASSUME NEW at \in Nat, NEW token \in Tokens, NEW next \in Checkpoints,
               PassCheckpoint(token, next, at)
        PROVE  LifecycleTypeOK'
    <2>1. CASE StopsFirst(at)
      BY <2>1, StopsFirstTyped
    <2>2. CASE ~StopsFirst(at)
      BY <1>6, <2>2, NullsTyped DEF PassCheckpoint, Advance, LifecycleTypeOK
    <2> QED BY <2>1, <2>2
  <1>7. ASSUME NEW at \in Nat, NEW token \in Tokens, NEW retryAt \in DateOrNull,
               ReleaseClaim(token, retryAt, at)
        PROVE  LifecycleTypeOK'
    <2>1. CASE StopsFirst(at)
      BY <2>1, StopsFirstTyped
    <2>2. CASE ~StopsFirst(at)
      <3>1. at \in Nat /\ retryAt \in DateOrNull
        BY DEF DateOrNull
      <3>2. lastRelease' \in ReleaseType /\ cancelledAt' = cancelledAt
        BY <1>7, <2>2, <3>1 DEF ReleaseClaim, ReleaseFacts, ReleaseType, ClaimType,
                                 DateOrNull, LifecycleTypeOK
      <3>3. CASE Exhausted
        BY <1>0, <1>7, <2>2, <3>1, <3>2, <3>3, StopTyped DEF ReleaseClaim, LifecycleTypeOK
      <3>4. CASE ~Exhausted
        BY <1>7, <2>2, <3>1, <3>2, <3>4, NullsTyped
           DEF ReleaseClaim, Advance, LifecycleTypeOK, Statuses, Checkpoints
      <3> QED BY <3>3, <3>4
    <2> QED BY <2>1, <2>2
  <1>8. ASSUME NEW at \in Nat, NEW token \in Tokens, CheckCheckpoint(token, at)
        PROVE  LifecycleTypeOK'
    <2>1. CASE StopsFirst(at)
      BY <2>1, StopsFirstTyped
    <2>2. CASE ~StopsFirst(at)
      <3>1. checkpointCheck' \in CheckType
        BY <1>8, <2>2
           DEF CheckCheckpoint, CheckType, ClaimType, DateOrNull, LifecycleTypeOK
      <3> QED BY <1>8, <2>2, <3>1 DEF CheckCheckpoint, Advance, LifecycleTypeOK
    <2> QED BY <2>1, <2>2
  <1> QED BY <1>1, <1>2, <1>3, <1>4, <1>5, <1>6, <1>7, <1>8 DEF Transition, TransitionAt

\* Every reachable lifecycle head is well typed, whatever requests arrive.
THEOREM LifecycleTyped == LifecycleSpec => []LifecycleTypeOK
  <1>1. LifecycleInit => LifecycleTypeOK
    BY NullsTyped DEF LifecycleInit, LifecycleTypeOK, Statuses, Checkpoints
  <1>2. LifecycleTypeOK /\ [LifecycleNext]_headVars => LifecycleTypeOK'
    BY TypeStep, StepsAreTransitions
  <1> QED BY <1>1, <1>2, PTL DEF LifecycleSpec

-----------------------------------------------------------------------------
(* The execution: its inductive invariant.                                   *)

\* A stop is well formed and justified when its reason is true at its time.
LEMMA StopInv ==
  ASSUME LifecycleInv, NEW reason \in StopReasons, NEW at \in Nat,
         Stop(reason, at), updatedAt <= at,
         LifecycleTypeOK', cancelledAt' <= at, ReleaseFits',
         reason = "attempts-exhausted" => attemptCount = MaxAttempts /\ ~Late(at) /\ cancelledAt' = NoTime,
         reason = "deadline-exceeded" => Late(at),
         reason \in CancelReasons =>
           reason = CancellationReason(checkpoint) /\ cancelledAt' # NoTime /\ ~Late(at)
  PROVE  LifecycleInv'
  <1>1. /\ status' = "stopped" /\ claim' = NoClaim /\ checkpointCheck' = NoCheck
        /\ retryAfter' = NoTime /\ updatedAt' = at
        /\ attemptCount' = attemptCount /\ checkpoint' = checkpoint
        /\ stop' = [reason |-> reason, checkpoint |-> checkpoint, stoppedAt |-> at]
    BY DEF Stop, Advance
  <1>2. stop' # NoStop
    BY <1>1 DEF NoStop, NoTime
  <1>3. HeadParses'
    <2>1. attemptCount' <= MaxAttempts /\ cancelledAt' <= updatedAt'
      BY <1>1 DEF LifecycleInv, HeadParses
    <2>2. StatusFits' /\ ClaimFits' /\ CheckFits'
      BY <1>1, <1>2 DEF StatusFits, ClaimFits, CheckFits
    <2>3. StopFits'
      BY <1>1 DEF StopFits, Cancelled
    <2> QED BY <2>1, <2>2, <2>3 DEF HeadParses
  <1>4. StopReasonHolds'
    BY <1>1 DEF StopReasonHolds, Cancelled, Late
  <1>5. CheckExcludesCancellation' /\ PendingOnlyByRelease'
    BY <1>1 DEF CheckExcludesCancellation, PendingOnlyByRelease
  <1> QED BY <1>3, <1>4, <1>5 DEF LifecycleInv

\* The deadline and cancellation stops keep the invariant.
LEMMA StopsFirstInv ==
  ASSUME LifecycleInv, NEW at \in Nat, StopsFirst(at), updatedAt <= at
  PROVE  LifecycleInv'
  <1>1. LifecycleTypeOK'
    BY StopsFirstTyped DEF LifecycleInv
  <1>2. cancelledAt' <= at /\ ReleaseFits' /\ cancelledAt' = cancelledAt
    <2>1. updatedAt' = at
      BY DEF StopsFirst, Stop, Advance
    <2>2. attemptCount' = attemptCount /\ lastRelease' = lastRelease /\ cancelledAt' = cancelledAt
      BY DEF StopsFirst, Stop
    <2> QED BY <2>1, <2>2 DEF LifecycleInv, LifecycleTypeOK, HeadParses, ReleaseFits,
                              RetryWindow, ReleaseType, DateOrNull, NoTime
  <1>3. CancellationReason(checkpoint) \in CancelReasons
    BY CancellationReasonType DEF LifecycleInv, LifecycleTypeOK
  <1>4. CASE Late(at) /\ Stop("deadline-exceeded", at)
    BY <1>1, <1>2, <1>4, StopInv DEF StopReasons, CancelReasons
  <1>5. CASE ~Late(at) /\ Cancelled /\ Stop(CancellationReason(checkpoint), at)
    <2>1. CancellationReason(checkpoint) # "attempts-exhausted" /\ CancellationReason(checkpoint) # "deadline-exceeded"
      BY <1>3 DEF CancelReasons
    <2> QED BY <1>1, <1>2, <1>3, <1>5, <2>1, StopInv DEF StopReasons, Cancelled
  <1> QED BY <1>4, <1>5 DEF StopsFirst

\* What the parser's facts about a claimed head give its owner.
LEMMA OwnerFacts ==
  ASSUME LifecycleInv, status = "claimed"
  PROVE  /\ claim # NoClaim /\ stop = NoStop /\ retryAfter = NoTime
         /\ claim.attempt = attemptCount /\ 1 <= attemptCount
         /\ 0 <= claim.claimedAt /\ claim.claimedAt <= updatedAt
         /\ ClaimWindow(claim.expiresAt, claim.claimedAt)
  BY DEF LifecycleInv, HeadParses, StatusFits, ClaimFits

\* The release that is already retained stays well formed as time passes.
LEMMA ReleaseKept ==
  ASSUME LifecycleInv, UNCHANGED lastRelease,
         updatedAt <= updatedAt', attemptCount <= attemptCount',
         updatedAt' \in Nat, attemptCount' \in Nat
  PROVE  ReleaseFits'
  BY DEF LifecycleInv, LifecycleTypeOK, HeadParses, ReleaseFits, RetryWindow, ReleaseType,
         DateOrNull, NoTime

\* force-shutdown keeps the invariant.
LEMMA ForceShutdownInv ==
  ASSUME LifecycleInv, NEW at \in Nat, ForceShutdown(at), LifecycleTypeOK'
  PROVE  LifecycleInv'
  <1>1. updatedAt <= at /\ updatedAt' = at /\ attemptCount' = attemptCount
    BY DEF ForceShutdown, Open, Stop, Advance
  <1>2. ReleaseFits' /\ cancelledAt' <= at
    BY <1>1, ReleaseKept DEF ForceShutdown, LifecycleInv, LifecycleTypeOK, HeadParses,
                             DateOrNull, NoTime
  <1> QED BY <1>1, <1>2, StopInv DEF ForceShutdown, StopReasons, CancelReasons

\* enforce-deadline keeps the invariant.
LEMMA EnforceDeadlineInv ==
  ASSUME LifecycleInv, NEW at \in Nat, EnforceDeadline(at), LifecycleTypeOK'
  PROVE  LifecycleInv'
  <1>1. updatedAt <= at /\ updatedAt' = at /\ attemptCount' = attemptCount
    BY DEF EnforceDeadline, Open, Stop, Advance
  <1>2. ReleaseFits' /\ cancelledAt' <= at
    BY <1>1, ReleaseKept DEF EnforceDeadline, LifecycleInv, LifecycleTypeOK, HeadParses,
                             DateOrNull, NoTime
  <1> QED BY <1>1, <1>2, StopInv DEF EnforceDeadline, StopReasons, CancelReasons

\* request-cancellation keeps the invariant.
LEMMA RequestCancellationInv ==
  ASSUME LifecycleInv, NEW at \in Nat, RequestCancellation(at), LifecycleTypeOK'
  PROVE  LifecycleInv'
  <1>1. /\ updatedAt <= at /\ updatedAt' = at /\ attemptCount' = attemptCount
        /\ cancelledAt' = at /\ cancelledAt' # NoTime
    BY DEF RequestCancellation, RetainCancellation, Open, Stop, Advance, NoTime
  <1>2. ReleaseFits'
    BY <1>1, ReleaseKept DEF RequestCancellation, LifecycleInv, LifecycleTypeOK
  <1>3. CASE Late(at) /\ Stop("deadline-exceeded", at)
    BY <1>1, <1>2, <1>3, StopInv DEF StopReasons, CancelReasons
  <1>4. CASE ~Late(at) /\ Stop(CancellationReason(checkpoint), at)
    <2>1. CancellationReason(checkpoint) \in CancelReasons
      BY CancellationReasonType DEF LifecycleInv, LifecycleTypeOK
    <2>2. /\ CancellationReason(checkpoint) # "attempts-exhausted"
          /\ CancellationReason(checkpoint) # "deadline-exceeded"
      BY <2>1 DEF CancelReasons
    <2> QED BY <1>1, <1>2, <1>4, <2>1, <2>2, StopInv DEF StopReasons
  <1>5. CASE /\ status = "claimed" /\ checkpointCheck' = NoCheck
             /\ UNCHANGED <<status, checkpoint, attemptCount, retryAfter, claim, stop>>
    <2>1. HeadParses'
      <3>1. attemptCount' <= MaxAttempts /\ cancelledAt' <= updatedAt'
        BY <1>1 DEF LifecycleInv, HeadParses
      <3>2. StatusFits' /\ CheckFits' /\ StopFits'
        BY <1>5, OwnerFacts DEF StatusFits, CheckFits, StopFits
      <3>3. ClaimFits'
        BY <1>1, <1>5, OwnerFacts
           DEF ClaimFits, ClaimWindow, LifecycleInv, LifecycleTypeOK, ClaimType, DateOrNull, NoTime
      <3> QED BY <1>2, <3>1, <3>2, <3>3 DEF HeadParses
    <2> QED BY <1>5, <2>1 DEF LifecycleInv, StopReasonHolds, CheckExcludesCancellation,
                              PendingOnlyByRelease
  <1> QED BY <1>3, <1>4, <1>5 DEF RequestCancellation, RetainCancellation

\* A stop for an exhausted attempt budget keeps the invariant.
LEMMA ExhaustedStopInv ==
  ASSUME LifecycleInv, NEW at \in Nat, updatedAt <= at, MayContinue(at), Exhausted,
         Stop("attempts-exhausted", at), UNCHANGED cancelledAt, ReleaseFits', LifecycleTypeOK'
  PROVE  LifecycleInv'
  <1>1. attemptCount = MaxAttempts
    BY LifecycleAssumption DEF Exhausted, LifecycleInv, LifecycleTypeOK, HeadParses
  <1>2. cancelledAt' <= at /\ cancelledAt' = NoTime /\ ~Late(at)
    BY DEF MayContinue, Cancelled, NoTime
  <1> QED BY <1>1, <1>2, StopInv DEF StopReasons, CancelReasons

\* claim keeps the invariant.
LEMMA ClaimInv ==
  ASSUME LifecycleInv, NEW at \in Nat, NEW token \in Tokens, NEW expiresAt \in Nat,
         Claim(token, expiresAt, at), LifecycleTypeOK'
  PROVE  LifecycleInv'
  <1>1. updatedAt <= at
    BY DEF Claim, Open
  <1>2. CASE StopsFirst(at)
    BY <1>1, <1>2, StopsFirstInv
  <1>3. CASE /\ MayContinue(at) /\ Exhausted /\ Stop("attempts-exhausted", at)
             /\ UNCHANGED <<cancelledAt, lastRelease>>
    <2>1. updatedAt' = at /\ attemptCount' = attemptCount
      BY <1>3 DEF Stop, Advance
    <2>2. ReleaseFits'
      BY <1>1, <1>3, <2>1, ReleaseKept DEF LifecycleInv, LifecycleTypeOK
    <2> QED BY <1>1, <1>3, <2>2, ExhaustedStopInv
  <1>4. CASE /\ MayContinue(at) /\ ~Exhausted /\ ClaimWindow(expiresAt, at)
             /\ TakeClaim(token, expiresAt, at)
    <2>1. /\ updatedAt' = at /\ attemptCount' = attemptCount + 1 /\ status' = "claimed"
          /\ claim'.attempt = attemptCount + 1 /\ claim'.claimedAt = at
          /\ claim'.expiresAt = expiresAt /\ claim'.token = token
          /\ checkpointCheck' = NoCheck /\ retryAfter' = NoTime
          /\ cancelledAt' = cancelledAt /\ lastRelease' = lastRelease /\ stop' = stop
      BY <1>4 DEF TakeClaim, Advance
    <2>2. claim' # NoClaim
      BY <2>1, LifecycleAssumption DEF NoClaim
    <2>3. stop = NoStop
      BY DEF Claim, Open, LifecycleInv, LifecycleTypeOK, Statuses, HeadParses, StatusFits
    <2>4. attemptCount' <= MaxAttempts /\ cancelledAt' <= updatedAt'
      BY <1>1, <1>4, <2>1, LifecycleAssumption
         DEF Exhausted, LifecycleInv, LifecycleTypeOK, HeadParses, DateOrNull, NoTime
    <2>5. StatusFits' /\ CheckFits' /\ StopFits'
      BY <2>1, <2>2, <2>3 DEF StatusFits, CheckFits, StopFits
    <2>6. ClaimFits'
      BY <1>4, <2>1 DEF ClaimFits, ClaimWindow, LifecycleInv, LifecycleTypeOK
    <2>7. ReleaseFits'
      BY <1>1, <2>1, ReleaseKept DEF LifecycleInv, LifecycleTypeOK
    <2> QED BY <2>1, <2>4, <2>5, <2>6, <2>7
            DEF LifecycleInv, HeadParses, StopReasonHolds, CheckExcludesCancellation,
                PendingOnlyByRelease
  <1> QED BY <1>2, <1>3, <1>4 DEF Claim

\* What every owner transition starts from.
LEMMA OwnerSteps ==
  ASSUME LifecycleInv, NEW at \in Nat, NEW token \in Tokens, Open(at), Owns(token, at)
  PROVE  /\ status = "claimed" /\ updatedAt <= at /\ claim.token = token
         /\ claim # NoClaim /\ stop = NoStop /\ retryAfter = NoTime
         /\ claim.attempt = attemptCount /\ 1 <= attemptCount
  BY OwnerFacts DEF Open, Owns, LiveClaim

\* A step of the owner that keeps its claim keeps the claim well formed.
LEMMA ClaimKept ==
  ASSUME LifecycleInv, status = "claimed", UNCHANGED <<claim, attemptCount>>,
         updatedAt <= updatedAt', updatedAt' \in Nat
  PROVE  ClaimFits'
  BY OwnerFacts DEF ClaimFits, ClaimWindow, LifecycleInv, LifecycleTypeOK, ClaimType,
                    DateOrNull, NoTime

\* pass-checkpoint keeps the invariant.
LEMMA PassCheckpointInv ==
  ASSUME LifecycleInv, NEW at \in Nat, NEW token \in Tokens, NEW next \in Checkpoints,
         PassCheckpoint(token, next, at), LifecycleTypeOK'
  PROVE  LifecycleInv'
  <1>1. CASE StopsFirst(at)
    BY <1>1, StopsFirstInv DEF PassCheckpoint, Open
  <1>2. CASE /\ MayContinue(at) /\ Advance(at) /\ checkpoint' = next /\ checkpointCheck' = NoCheck
             /\ UNCHANGED <<status, attemptCount, retryAfter, claim, cancelledAt, lastRelease, stop>>
    <2>1. status = "claimed" /\ updatedAt <= at /\ claim # NoClaim /\ stop = NoStop /\ retryAfter = NoTime
      BY OwnerSteps DEF PassCheckpoint
    <2>2. updatedAt' = at /\ updatedAt <= updatedAt'
      BY <1>2, <2>1 DEF Advance
    <2>3. ClaimFits' /\ ReleaseFits'
      BY <1>2, <2>1, <2>2, ClaimKept, ReleaseKept DEF LifecycleInv, LifecycleTypeOK
    <2>4. attemptCount' <= MaxAttempts /\ cancelledAt' <= updatedAt'
      BY <1>2, <2>2 DEF MayContinue, Cancelled, NoTime, LifecycleInv, LifecycleTypeOK, HeadParses
    <2>5. StatusFits' /\ CheckFits' /\ StopFits'
      BY <1>2, <2>1 DEF StatusFits, CheckFits, StopFits
    <2> QED BY <1>2, <2>1, <2>3, <2>4, <2>5
            DEF LifecycleInv, HeadParses, StopReasonHolds, CheckExcludesCancellation,
                PendingOnlyByRelease
  <1> QED BY <1>1, <1>2 DEF PassCheckpoint

\* check-checkpoint keeps the invariant.
LEMMA CheckCheckpointInv ==
  ASSUME LifecycleInv, NEW at \in Nat, NEW token \in Tokens,
         CheckCheckpoint(token, at), LifecycleTypeOK'
  PROVE  LifecycleInv'
  <1>1. CASE StopsFirst(at)
    BY <1>1, StopsFirstInv DEF CheckCheckpoint, Open
  <1>2. CASE /\ MayContinue(at) /\ Advance(at)
             /\ checkpointCheck' = [checkpoint |-> checkpoint, token |-> claim.token, checkedAt |-> at]
             /\ UNCHANGED <<status, checkpoint, attemptCount, retryAfter, claim,
                            cancelledAt, lastRelease, stop>>
    <2>1. status = "claimed" /\ updatedAt <= at /\ claim # NoClaim /\ stop = NoStop /\ retryAfter = NoTime
      BY OwnerSteps DEF CheckCheckpoint
    <2>2. updatedAt' = at /\ updatedAt <= updatedAt'
      BY <1>2, <2>1 DEF Advance
    <2>3. ClaimFits' /\ ReleaseFits'
      BY <1>2, <2>1, <2>2, ClaimKept, ReleaseKept DEF LifecycleInv, LifecycleTypeOK
    <2>4. attemptCount' <= MaxAttempts /\ cancelledAt' <= updatedAt' /\ cancelledAt' = NoTime
      BY <1>2, <2>2 DEF MayContinue, Cancelled, NoTime, LifecycleInv, LifecycleTypeOK, HeadParses
    <2>5. StatusFits' /\ CheckFits' /\ StopFits'
      BY <1>2, <2>1, <2>2 DEF StatusFits, CheckFits, StopFits
    <2> QED BY <1>2, <2>1, <2>3, <2>4, <2>5
            DEF LifecycleInv, HeadParses, StopReasonHolds, CheckExcludesCancellation,
                PendingOnlyByRelease, Cancelled
  <1> QED BY <1>1, <1>2 DEF CheckCheckpoint

\* release-claim keeps the invariant.
LEMMA ReleaseClaimInv ==
  ASSUME LifecycleInv, NEW at \in Nat, NEW token \in Tokens, NEW retryAt \in DateOrNull,
         ReleaseClaim(token, retryAt, at), LifecycleTypeOK'
  PROVE  LifecycleInv'
  <1>1. CASE StopsFirst(at)
    BY <1>1, StopsFirstInv DEF ReleaseClaim, Open
  <1>2. CASE ~StopsFirst(at)
    <2>1. /\ status = "claimed" /\ updatedAt <= at /\ stop = NoStop
          /\ claim.attempt = attemptCount /\ 1 <= attemptCount
      BY OwnerSteps DEF ReleaseClaim
    <2>2. /\ MayContinue(at) /\ RetryWindow(retryAt, at) /\ cancelledAt' = cancelledAt
          /\ lastRelease' = ReleaseFacts(retryAt, at) /\ updatedAt' = at
          /\ attemptCount' = attemptCount
      BY <1>2 DEF ReleaseClaim, Stop, Advance
    <2>3. ReleaseFits'
      BY <2>1, <2>2 DEF ReleaseFits, ReleaseFacts, RetryWindow, LifecycleInv, LifecycleTypeOK
    <2>4. CASE Exhausted
      BY <1>2, <2>1, <2>2, <2>3, <2>4, ExhaustedStopInv DEF ReleaseClaim
    <2>5. CASE ~Exhausted
      <3>1. /\ status' = "pending" /\ checkpoint' = "before-handoff" /\ retryAfter' = retryAt
            /\ claim' = NoClaim /\ checkpointCheck' = NoCheck /\ stop' = NoStop
        BY <1>2, <2>1, <2>5 DEF ReleaseClaim
      <3>2. StatusFits' /\ ClaimFits' /\ CheckFits' /\ StopFits'
        BY <3>1 DEF StatusFits, ClaimFits, CheckFits, StopFits
      <3>3. attemptCount' <= MaxAttempts /\ cancelledAt' <= updatedAt'
        BY <2>2 DEF MayContinue, Cancelled, NoTime, LifecycleInv, LifecycleTypeOK, HeadParses
      <3>4. PendingOnlyByRelease'
        BY <2>1, <2>2, <3>1 DEF PendingOnlyByRelease, ReleaseFacts
      <3> QED BY <2>3, <3>1, <3>2, <3>3, <3>4
              DEF LifecycleInv, HeadParses, StopReasonHolds, CheckExcludesCancellation
    <2> QED BY <2>4, <2>5
  <1> QED BY <1>1, <1>2

\* A head as it is created satisfies the invariant.
LEMMA InvInit == LifecycleInit => LifecycleInv
  <1> SUFFICES ASSUME LifecycleInit PROVE LifecycleInv
    OBVIOUS
  <1>1. LifecycleTypeOK
    BY NullsTyped DEF LifecycleInit, LifecycleTypeOK, Statuses, Checkpoints
  <1>2. HeadParses
    BY LifecycleAssumption DEF LifecycleInit, HeadParses, StatusFits, ClaimFits, ReleaseFits,
                               CheckFits, StopFits, NoTime
  <1>3. StopReasonHolds /\ CheckExcludesCancellation /\ PendingOnlyByRelease
    BY DEF LifecycleInit, StopReasonHolds, CheckExcludesCancellation, PendingOnlyByRelease, NoRelease
  <1> QED BY <1>1, <1>2, <1>3 DEF LifecycleInv

\* Every transition keeps the invariant.
LEMMA InvStep ==
  ASSUME LifecycleInv, [Transition]_headVars
  PROVE  LifecycleInv'
  <1>0. LifecycleTypeOK'
    BY TypeStep DEF LifecycleInv
  <1>1. CASE UNCHANGED headVars
    BY <1>0, <1>1 DEF headVars, LifecycleInv, HeadParses, StatusFits, ClaimFits, ReleaseFits, CheckFits,
                StopFits, StopReasonHolds, CheckExcludesCancellation, PendingOnlyByRelease,
                Cancelled
  <1>2. ASSUME NEW at \in Nat, TransitionAt(at) PROVE LifecycleInv'
    BY <1>0, <1>2, ForceShutdownInv, EnforceDeadlineInv, RequestCancellationInv, ClaimInv,
       PassCheckpointInv, ReleaseClaimInv, CheckCheckpointInv DEF TransitionAt
  <1> QED BY <1>1, <1>2 DEF Transition

\* Only a claim changes the attempt count or the owner of a head that stays claimed.
LEMMA AttemptStep ==
  ASSUME LifecycleInv, NEW at \in Nat, TransitionAt(at),
         attemptCount' # attemptCount
           \/ (status # "claimed" /\ status' = "claimed")
           \/ (status' = "claimed" /\ claim' # claim)
  PROVE  \E token \in Tokens, expiresAt \in Nat :
           /\ MayContinue(at) /\ ~LiveClaim(at) /\ ~Deferred(at) /\ Open(at)
           /\ TakeClaim(token, expiresAt, at)
  <1>1. ASSUME NEW reason, Stop(reason, at) PROVE FALSE
    BY <1>1 DEF Stop
  <1>2. ~StopsFirst(at)
    BY <1>1 DEF StopsFirst
  <1>3. ~ForceShutdown(at) /\ ~EnforceDeadline(at) /\ ~RequestCancellation(at)
    BY <1>1 DEF ForceShutdown, EnforceDeadline, RequestCancellation, RetainCancellation
  <1>4. ASSUME NEW token \in Tokens, NEW next \in Checkpoints, PassCheckpoint(token, next, at)
        PROVE  FALSE
    BY <1>2, <1>4 DEF PassCheckpoint, Owns, LiveClaim
  <1>5. ASSUME NEW token \in Tokens, NEW retryAt \in DateOrNull, ReleaseClaim(token, retryAt, at)
        PROVE  FALSE
    BY <1>1, <1>2, <1>5 DEF ReleaseClaim
  <1>6. ASSUME NEW token \in Tokens, CheckCheckpoint(token, at) PROVE FALSE
    BY <1>2, <1>6 DEF CheckCheckpoint, Owns, LiveClaim
  <1>7. PICK token \in Tokens, expiresAt \in Nat : Claim(token, expiresAt, at)
    BY <1>3, <1>4, <1>5, <1>6 DEF TransitionAt
  <1> QED BY <1>1, <1>2, <1>7 DEF Claim

\* What each transition does to the claim, the budget and the retry time of the head.
LEMMA CancelledStep ==
  ASSUME LifecycleInv, [Transition]_headVars
  PROVE  [Cancelled => status' = "stopped" /\ cancelledAt' = cancelledAt]_headVars
  <1>1. ASSUME NEW at \in Nat, TransitionAt(at), Cancelled
        PROVE  status' = "stopped" /\ cancelledAt' = cancelledAt
    BY <1>1 DEF TransitionAt, ForceShutdown, EnforceDeadline, RequestCancellation, Claim, PassCheckpoint,
                ReleaseClaim, CheckCheckpoint, StopsFirst, Stop, MayContinue
  <1> QED BY <1>1 DEF Transition

LEMMA ContentionStep ==
  ASSUME LifecycleInv, [Transition]_headVars
  PROVE  [status = "claimed" /\ status' = "claimed" /\ claim' # claim
            => claim.expiresAt <= updatedAt']_headVars
  <1>1. ASSUME NEW at \in Nat, TransitionAt(at),
               status = "claimed", status' = "claimed", claim' # claim
        PROVE  claim.expiresAt <= updatedAt'
    <2>1. ~LiveClaim(at) /\ updatedAt' = at
      BY <1>1, AttemptStep DEF TakeClaim, Advance
    <2> QED BY <1>1, <2>1, OwnerFacts
            DEF LiveClaim, ClaimWindow, LifecycleInv, LifecycleTypeOK, ClaimType, DateOrNull, NoTime
  <1> QED BY <1>1 DEF Transition

LEMMA StartsOverStep ==
  ASSUME LifecycleInv, [Transition]_headVars
  PROVE  [attemptCount' # attemptCount =>
            /\ attemptCount' = attemptCount + 1
            /\ status' = "claimed"
            /\ checkpoint' = "before-handoff"
            /\ checkpointCheck' = NoCheck]_headVars
  <1>1. ASSUME NEW at \in Nat, TransitionAt(at), attemptCount' # attemptCount
        PROVE  /\ attemptCount' = attemptCount + 1 /\ status' = "claimed"
               /\ checkpoint' = "before-handoff" /\ checkpointCheck' = NoCheck
    <2>1. Open(at) /\ \E token \in Tokens, expiresAt \in Nat : TakeClaim(token, expiresAt, at)
      BY <1>1, AttemptStep
    <2>2. status = "claimed" \/ checkpoint = "before-handoff"
      BY <1>1, <2>1 DEF Open, LifecycleInv, LifecycleTypeOK, Statuses, PendingOnlyByRelease
    <2> QED BY <2>1, <2>2 DEF TakeClaim, StartingCheckpoint
  <1> QED BY <1>1 DEF Transition

LEMMA BackoffStep ==
  ASSUME LifecycleInv, [Transition]_headVars
  PROVE  [status = "pending" /\ status' = "claimed"
            => lastRelease.retryAfter <= claim'.claimedAt]_headVars
  <1>1. ASSUME NEW at \in Nat, TransitionAt(at), status = "pending", status' = "claimed"
        PROVE  lastRelease.retryAfter <= claim'.claimedAt
    <2>1. ~Deferred(at) /\ claim'.claimedAt = at
      BY <1>1, AttemptStep DEF TakeClaim
    <2>2. lastRelease.retryAfter = retryAfter
      BY <1>1 DEF LifecycleInv, PendingOnlyByRelease
    <2> QED BY <1>1, <2>1, <2>2 DEF Deferred, LifecycleInv, LifecycleTypeOK, DateOrNull, NoTime
  <1> QED BY <1>1 DEF Transition

-----------------------------------------------------------------------------
(* The theorems. *)

\* A head that is only ever changed by transitions, with any times.
TransitionSpec == LifecycleInit /\ [][Transition]_headVars

LEMMA SpecIsTransitions == LifecycleSpec => TransitionSpec
  BY StepsAreTransitions, PTL DEF LifecycleSpec, TransitionSpec

\* Whatever else its callers do, a head that they change by transitions alone
\* keeps the invariant and the contract of claims, attempts, releases and
\* cancellations (applyFlowDocBackendPdfExportLifecycleTransitionV1).
THEOREM TransitionsKeepContract ==
  TransitionSpec => /\ []LifecycleInv
                    /\ CancelledOnlyStops
                    /\ ClaimOutlivesContention
                    /\ AttemptStartsOver
                    /\ BackoffHonoured
  <1>1. TransitionSpec => []LifecycleInv
    BY InvInit, InvStep, PTL DEF TransitionSpec
  <1>2. TransitionSpec => CancelledOnlyStops
    BY <1>1, CancelledStep, PTL DEF TransitionSpec, CancelledOnlyStops
  <1>3. TransitionSpec => ClaimOutlivesContention
    BY <1>1, ContentionStep, PTL DEF TransitionSpec, ClaimOutlivesContention
  <1>4. TransitionSpec => AttemptStartsOver
    BY <1>1, StartsOverStep, PTL DEF TransitionSpec, AttemptStartsOver
  <1>5. TransitionSpec => BackoffHonoured
    BY <1>1, BackoffStep, PTL DEF TransitionSpec, BackoffHonoured
  <1> QED BY <1>1, <1>2, <1>3, <1>4, <1>5

\* The inductive invariant holds of every reachable head.
THEOREM LifecycleInvariant == LifecycleSpec => []LifecycleInv
  BY SpecIsTransitions, TransitionsKeepContract

\* Whatever requests arrive, in whatever order and with whatever clocks, the
\* head the code writes is one its own parser accepts.
THEOREM LifecycleHeadAlwaysParses == LifecycleSpec => []HeadParses
  <1>1. LifecycleInv => HeadParses
    BY DEF LifecycleInv
  <1> QED BY <1>1, LifecycleInvariant, PTL

\* A stopped export was stopped for the reason its head gives.
THEOREM LifecycleStopReasonHolds == LifecycleSpec => []StopReasonHolds
  <1>1. LifecycleInv => StopReasonHolds
    BY DEF LifecycleInv
  <1> QED BY <1>1, LifecycleInvariant, PTL

\* A retained checkpoint check excludes a retained cancellation.
THEOREM LifecycleCheckExcludesCancellation == LifecycleSpec => []CheckExcludesCancellation
  <1>1. LifecycleInv => CheckExcludesCancellation
    BY DEF LifecycleInv
  <1> QED BY <1>1, LifecycleInvariant, PTL

\* A cancelled export only stops.
THEOREM LifecycleCancelledOnlyStops == LifecycleSpec => CancelledOnlyStops
  BY SpecIsTransitions, TransitionsKeepContract

\* A live claim is never taken from its owner by another claim.
THEOREM LifecycleClaimOutlivesContention == LifecycleSpec => ClaimOutlivesContention
  BY SpecIsTransitions, TransitionsKeepContract

\* Every attempt costs exactly one of the budget and starts at the first checkpoint.
THEOREM LifecycleAttemptStartsOver == LifecycleSpec => AttemptStartsOver
  BY SpecIsTransitions, TransitionsKeepContract

\* A released export waits for the retry time of its release.
THEOREM LifecycleBackoffHonoured == LifecycleSpec => BackoffHonoured
  BY SpecIsTransitions, TransitionsKeepContract

-----------------------------------------------------------------------------
(* The inductive invariant. *)

\* A claim is its worker's, for the attempt it counts.
TokenNamesAttempt ==
  status = "claimed" => \E v \in Workers : claim.token = <<v, claim.attempt>>

\* What a worker expects lies in the past.
NotAhead(w) == job[w].rev <= headRevision /\ At(w) <= now

\* A worker asks for a claim it does not have, for the attempt that comes next.
ClaimIsNew(w) ==
  job[w].pc = "claim" =>
    /\ ~OwnsHead(w)
    /\ Current(w) => job[w].attempt = attemptCount + 1

\* A worker works in an attempt that was claimed, and if it is the current one,
\* by itself.
AttemptWasTaken(w) ==
  job[w].pc \in Owning =>
    /\ 1 <= job[w].attempt /\ job[w].attempt <= attemptCount
    /\ status = "claimed" /\ claim.attempt = job[w].attempt => OwnsHead(w)

\* Where the head of a worker's own claim is at each of its steps.
StandsAt(pc) ==
  /\ pc \in {"reconcile", "execute", "workflow", "handoff"} => checkpoint = "before-handoff"
  /\ pc \in {"receipt", "before-render"} => checkpoint = "before-render"
  /\ pc \in {"preflight", "rendering", "check", "persist", "commit"}
       => checkpoint = "before-persist"

\* While the claim is its own, the head is where the worker believes it to be,
\* from the claim on.
CheckpointIsKnown(w) == OwnsHead(w) => StandsAt(job[w].pc)

\* What was checked was not cancelled, unless the head has moved since.
CheckIsFresh(w) ==
  job[w].pc \in {"persist", "commit"} =>
    \/ job[w].rev < headRevision
    \/ checkpointCheck.token = Token(w) /\ ~Cancelled

MatchesStop(o) ==
  /\ o = "cancelled" => stop.reason \in CancelReasons
  /\ o = "deadline-exceeded" => stop.reason = "deadline-exceeded"

\* What a worker is about to report is true already.
ReportIsTrue(w) ==
  /\ job[w].outcome # "completed"
  /\ job[w].pc = "terminate" => job[w].outcome # "none" /\ MatchesStop(job[w].outcome)
  /\ job[w].pc = "finish" => receipt # NoToken

WorkerInv(w) ==
  /\ NotAhead(w)
  /\ ClaimIsNew(w)
  /\ AttemptWasTaken(w)
  /\ CheckpointIsKnown(w)
  /\ CheckIsFresh(w)
  /\ ReportIsTrue(w)

ExecutionInv ==
  /\ ExecutionTypeOK
  /\ LifecycleInv
  /\ TokenNamesAttempt
  /\ updatedAt <= now /\ route.at <= now
  /\ MatchesStop(terminal)
  /\ AttemptsDisjoint
  /\ \A w \in Workers : WorkerInv(w)

-----------------------------------------------------------------------------
(* What a transition does to the head, as the workers see it. *)

HeadMoved(at) ==
  /\ headRevision' = headRevision + 1
  /\ updatedAt' = at /\ updatedAt <= at
  /\ status # "stopped"
  /\ attemptCount' \in {attemptCount, attemptCount + 1}
  /\ status' = "claimed" =>
       \/ status = "claimed" /\ claim' = claim /\ attemptCount' = attemptCount
       \/ claim'.attempt = attemptCount + 1 /\ attemptCount' = attemptCount + 1
  /\ Cancelled => cancelledAt' = cancelledAt

LEMMA TransitionMoves ==
  ASSUME LifecycleInv, NEW at \in Nat, TransitionAt(at)
  PROVE  HeadMoved(at)
<1>1. ASSUME NEW reason, Stop(reason, at), Open(at), Cancelled => cancelledAt' = cancelledAt
      PROVE  HeadMoved(at)
  BY <1>1 DEF Stop, Advance, Open, HeadMoved
<1>2. ASSUME StopsFirst(at), Open(at)
      PROVE  HeadMoved(at)
  BY <1>1, <1>2 DEF StopsFirst
<1>3. ASSUME Open(at), status = "claimed", Advance(at), UNCHANGED <<claim, attemptCount>>,
             Cancelled => cancelledAt' = cancelledAt
      PROVE  HeadMoved(at)
  BY <1>3 DEF Advance, Open, HeadMoved
<1>4. CASE ForceShutdown(at)
  BY <1>1, <1>4 DEF ForceShutdown
<1>5. CASE EnforceDeadline(at)
  BY <1>1, <1>5 DEF EnforceDeadline
<1>6. CASE RequestCancellation(at)
  BY <1>1, <1>3, <1>6 DEF RequestCancellation, RetainCancellation
<1>7. ASSUME NEW token \in Tokens, NEW expiresAt \in Nat, Claim(token, expiresAt, at)
      PROVE  HeadMoved(at)
  <2>1. CASE TakeClaim(token, expiresAt, at)
    BY <1>7, <2>1 DEF Claim, TakeClaim, Advance, Open, HeadMoved
  <2>. QED
    BY <1>1, <1>2, <1>7, <2>1 DEF Claim
<1>8. ASSUME NEW token \in Tokens, NEW next \in Checkpoints, PassCheckpoint(token, next, at)
      PROVE  HeadMoved(at)
  BY <1>2, <1>3, <1>8 DEF PassCheckpoint, Owns, LiveClaim
<1>9. ASSUME NEW token \in Tokens, NEW retryAt \in DateOrNull, ReleaseClaim(token, retryAt, at)
      PROVE  HeadMoved(at)
  <2>1. CASE status' = "pending" /\ Advance(at) /\ UNCHANGED <<attemptCount, cancelledAt>>
    BY <1>9, <2>1 DEF ReleaseClaim, Advance, Open, HeadMoved
  <2>. QED
    BY <1>1, <1>2, <1>9, <2>1 DEF ReleaseClaim
<1>10. ASSUME NEW token \in Tokens, CheckCheckpoint(token, at)
       PROVE  HeadMoved(at)
  BY <1>2, <1>3, <1>10 DEF CheckCheckpoint, Owns, LiveClaim
<1>. QED
  BY <1>4, <1>5, <1>6, <1>7, <1>8, <1>9, <1>10 DEF TransitionAt

\* What a worker holds.
JobType == [pc : {"idle"} \cup Claiming \cup Executing \cup Recovering,
            attempt : 0 .. MaxAttempts + 1, at : Times, rev : Nat,
            outcome : Outcomes \cup {"none"}]

LEMMA Numbers ==
  ASSUME ExecutionTypeOK
  PROVE  /\ headRevision \in Nat /\ attemptCount \in Nat /\ now \in Nat /\ updatedAt \in Nat
         /\ \A w \in Workers : /\ job[w] \in JobType
                              /\ job[w].rev \in Nat /\ job[w].at \in Nat /\ job[w].attempt \in Nat
<1>1. job \in [Workers -> JobType]
  BY DEF ExecutionTypeOK, JobType
<1>2. \A j \in JobType : j.rev \in Nat /\ j.at \in Nat /\ j.attempt \in Nat
  <2>1. \A j \in JobType : j.rev \in Nat /\ j.at \in Times /\ j.attempt \in 0 .. MaxAttempts + 1
    BY DEF JobType
  <2>2. 0 .. MaxAttempts + 1 \subseteq Nat
    BY LifecycleAssumption
  <2>. QED
    BY <2>1, <2>2, TimesAreNat
<1>. QED
  BY <1>1, <1>2, TimesAreNat DEF ExecutionTypeOK, LifecycleTypeOK

\* What the head is for a worker that does not move it.
HeadKeeps(v) ==
  \/ UNCHANGED headVars
  \/ \E at \in Nat :
       /\ HeadMoved(at)
       /\ status' = "claimed" /\ claim'.token = Token(v) =>
            OwnsHead(v) /\ claim' = claim /\ checkpoint' = checkpoint

\* What a worker knows stays true while others move the head.
LEMMA WorkerKept ==
  ASSUME ExecutionInv, LifecycleInv', NEW v \in Workers, job'[v] = job[v], HeadKeeps(v),
         now <= now', now' \in Nat, receipt # NoToken => receipt' # NoToken
  PROVE  WorkerInv(v)'
<1>1. /\ WorkerInv(v) /\ job[v].rev \in Nat /\ job[v].at \in Nat /\ job[v].attempt \in Nat
      /\ headRevision \in Nat /\ attemptCount \in Nat /\ now \in Nat
      /\ Token(v)' = Token(v) /\ At(v)' = At(v)
  BY Numbers DEF ExecutionInv, Token, At
<1>2. CASE UNCHANGED headVars
  BY <1>1, <1>2 DEF headVars, WorkerInv, NotAhead, At, ClaimIsNew, AttemptWasTaken, CheckpointIsKnown, StandsAt,
                    CheckIsFresh, ReportIsTrue, MatchesStop, OwnsHead, Current, Cancelled
<1>3. ASSUME NEW at \in Nat, HeadMoved(at),
             status' = "claimed" /\ claim'.token = Token(v) =>
               OwnsHead(v) /\ claim' = claim /\ checkpoint' = checkpoint
      PROVE  WorkerInv(v)'
  <2>1. NotAhead(v)'
    BY <1>1, <1>3 DEF WorkerInv, NotAhead, HeadMoved, At
  <2>2. ClaimIsNew(v)'
    BY <1>1, <1>3 DEF WorkerInv, ClaimIsNew, NotAhead, HeadMoved, OwnsHead, Current
  <2>3. AttemptWasTaken(v)'
    BY <1>1, <1>3 DEF WorkerInv, AttemptWasTaken, HeadMoved, OwnsHead
  <2>4. CheckpointIsKnown(v)'
    BY <1>1, <1>3 DEF WorkerInv, CheckpointIsKnown, StandsAt, OwnsHead
  <2>5. CheckIsFresh(v)'
    BY <1>1, <1>3 DEF WorkerInv, NotAhead, CheckIsFresh, HeadMoved
  <2>6. stop = NoStop
    BY <1>3 DEF HeadMoved, ExecutionInv, LifecycleInv, LifecycleTypeOK, Statuses, HeadParses,
                StatusFits
  <2>7. ReportIsTrue(v)'
    BY <1>1, <2>6 DEF WorkerInv, ReportIsTrue, MatchesStop, NoStop, CancelReasons
  <2>. QED
    BY <2>1, <2>2, <2>3, <2>4, <2>5, <2>7 DEF WorkerInv
<1>. QED
  BY <1>2, <1>3 DEF HeadKeeps

-----------------------------------------------------------------------------
(* How the invariant is put together again after a step. *)

LEMMA BecomeFacts ==
  ASSUME ExecutionTypeOK, NEW w \in Workers, NEW j \in JobType, Become(w, j)
  PROVE  /\ job'[w] = j
         /\ \A v \in Workers \ {w} : job'[v] = job[v]
         /\ job' \in [Workers -> JobType]
<1>1. job \in [Workers -> JobType]
  BY DEF ExecutionTypeOK, JobType
<1>. QED
  BY <1>1 DEF Become

\* A worker starts to work in an attempt only when it owns the head.
EntersOwned(w) ==
  job'[w].pc \in Owning =>
    /\ job'[w].attempt = job[w].attempt
    /\ job[w].pc \in Owning \/ OwnsHead(w)

LEMMA DisjointKept ==
  ASSUME ExecutionInv, NEW w \in Workers, \A v \in Workers \ {w} : job'[v] = job[v],
         EntersOwned(w)
  PROVE  AttemptsDisjoint'
<1>. SUFFICES ASSUME NEW v \in Workers \ {w}, job[v].pc \in Owning, job'[w].pc \in Owning,
                     job[v].attempt = job[w].attempt
              PROVE  FALSE
  BY DEF AttemptsDisjoint, EntersOwned, ExecutionInv
<1>1. OwnsHead(w)
  BY DEF AttemptsDisjoint, EntersOwned, ExecutionInv
<1>2. claim.attempt = job[w].attempt
  BY <1>1 DEF ExecutionInv, TokenNamesAttempt, OwnsHead, Token
<1>3. OwnsHead(v)
  BY <1>1, <1>2 DEF ExecutionInv, WorkerInv, AttemptWasTaken, OwnsHead
<1>. QED
  BY <1>1, <1>3 DEF OwnsHead, Token

\* A step of a worker that may commit, and may move the head.
LEMMA WorkerMoves ==
  ASSUME ExecutionInv, NEW w \in Workers, NEW j \in JobType, Become(w, j),
         UNCHANGED <<now, route>>, LifecycleInv',
         updatedAt' <= now, TokenNamesAttempt',
         \A v \in Workers \ {w} : HeadKeeps(v),
         terminal' \in Outcomes \cup {"none"}, MatchesStop(terminal)',
         receipt' \in Tokens \cup {NoToken}, receipt # NoToken => receipt' # NoToken,
         EntersOwned(w), WorkerInv(w)'
  PROVE  ExecutionInv'
<1>1. /\ job'[w] = j
      /\ \A v \in Workers \ {w} : job'[v] = job[v]
      /\ job' \in [Workers -> JobType]
  BY BecomeFacts DEF ExecutionInv
<1>2. ExecutionTypeOK'
  BY <1>1 DEF ExecutionInv, ExecutionTypeOK, LifecycleInv, JobType
<1>3. AttemptsDisjoint'
  BY <1>1, DisjointKept
<1>4. now \in Nat
  BY Numbers DEF ExecutionInv
<1>5. \A v \in Workers : WorkerInv(v)'
  BY <1>1, <1>4, WorkerKept
<1>. QED
  BY <1>2, <1>3, <1>5 DEF ExecutionInv

\* A step that leaves the head as it is leaves it as good as it was.
LEMMA HeadSame ==
  ASSUME ExecutionInv, KeepHead
  PROVE  /\ LifecycleInv' /\ TokenNamesAttempt' /\ updatedAt' <= now
         /\ \A v \in Workers : HeadKeeps(v)
         /\ \A o : MatchesStop(o) <=> MatchesStop(o)'
<1>1. LifecycleInv'
  BY InvStep DEF ExecutionInv, KeepHead
<1>. QED
  BY <1>1 DEF ExecutionInv, KeepHead, headVars, TokenNamesAttempt, HeadKeeps, MatchesStop

\* A step of a worker that only reads.
LEMMA WorkerReads ==
  ASSUME ExecutionInv, NEW w \in Workers, NEW j \in JobType, Become(w, j), OnlyJob,
         EntersOwned(w), WorkerInv(w)'
  PROVE  ExecutionInv'
<1>1. /\ terminal' = terminal /\ receipt' = receipt /\ UNCHANGED <<now, route>> /\ KeepHead
  BY DEF OnlyJob, OnlyHead, storeVars
<1>2. terminal' \in Outcomes \cup {"none"} /\ receipt' \in Tokens \cup {NoToken}
  BY <1>1 DEF ExecutionInv, ExecutionTypeOK
<1>3. MatchesStop(terminal)'
  BY <1>1, HeadSame DEF ExecutionInv, MatchesStop
<1>. QED
  BY <1>1, <1>2, <1>3, HeadSame, WorkerMoves

\* A worker that goes on to another call with what it has.
LEMMA GotoFacts ==
  ASSUME ExecutionTypeOK, NEW w \in Workers,
         NEW p \in {"idle"} \cup Claiming \cup Executing \cup Recovering, Goto(w, p)
  PROVE  /\ \E j \in JobType : Become(w, j)
         /\ job'[w].pc = p /\ job'[w].attempt = job[w].attempt /\ job'[w].at = job[w].at
         /\ job'[w].rev = job[w].rev /\ job'[w].outcome = job[w].outcome
<1>1. job[w] \in JobType /\ job \in [Workers -> JobType]
  BY Numbers DEF ExecutionTypeOK, JobType
<1>2. [job[w] EXCEPT !.pc = p] \in JobType
  BY <1>1 DEF JobType
<1>3. job'[w] = [job[w] EXCEPT !.pc = p]
  BY <1>1 DEF Goto, Become
<1>4. /\ job'[w].pc = p /\ job'[w].attempt = job[w].attempt /\ job'[w].at = job[w].at
      /\ job'[w].rev = job[w].rev /\ job'[w].outcome = job[w].outcome
  BY <1>1, <1>3 DEF JobType
<1>. QED
  BY <1>2, <1>4 DEF Goto

\* A worker that owns the head works in its current attempt.
LEMMA OwnsItsAttempt ==
  ASSUME ExecutionInv, NEW w \in Workers, OwnsHead(w)
  PROVE  /\ status = "claimed" /\ claim.attempt = job[w].attempt /\ claim.token = Token(w)
         /\ job[w].attempt = attemptCount /\ 1 <= attemptCount /\ attemptCount <= MaxAttempts
         /\ Token(w) \in Tokens
<1>1. LifecycleInv /\ status = "claimed" /\ claim.token = Token(w)
  BY DEF ExecutionInv, OwnsHead
<1>2. PICK v \in Workers : claim.token = <<v, claim.attempt>>
  BY <1>1 DEF ExecutionInv, TokenNamesAttempt
<1>3. claim.attempt = job[w].attempt
  BY <1>1, <1>2 DEF Token
<1>4. claim.attempt = attemptCount /\ 1 <= attemptCount /\ attemptCount <= MaxAttempts
  BY <1>1, OwnerFacts DEF LifecycleInv, HeadParses
<1>5. attemptCount \in Nat
  BY <1>1 DEF LifecycleInv, LifecycleTypeOK
<1>6. Token(w) \in Tokens
  BY <1>3, <1>4, <1>5, ExecutionAssumption, LifecycleAssumption DEF Token
<1>. QED
  BY <1>1, <1>3, <1>4, <1>6

LEMMA WorkerGoes ==
  ASSUME ExecutionInv, NEW w \in Workers, OnlyJob,
         NEW p \in ({"idle"} \cup Claiming \cup Executing \cup Recovering) \ {"claim", "terminate"},
         Goto(w, p),
         p = "finish" => receipt # NoToken,
         p \in Owning => job[w].pc \in Owning \/ OwnsHead(w),
         OwnsHead(w) => StandsAt(p),
         p \in {"persist", "commit"} => job[w].pc \in {"persist", "commit"}
  PROVE  ExecutionInv'
<1>1. /\ job'[w].pc = p /\ job'[w].attempt = job[w].attempt /\ job'[w].at = job[w].at
      /\ job'[w].rev = job[w].rev /\ job'[w].outcome = job[w].outcome
      /\ \E j \in JobType : Become(w, j)
  BY GotoFacts DEF ExecutionInv
<1>2. UNCHANGED <<headVars, now, receipt>>
  BY DEF OnlyJob, KeepHead, OnlyHead, storeVars
<1>3. /\ Token(w)' = Token(w) /\ OwnsHead(w)' = OwnsHead(w) /\ WorkerInv(w)
      /\ \A o : StandsAt(o)' <=> StandsAt(o)
  BY <1>1, <1>2 DEF Token, OwnsHead, headVars, ExecutionInv, StandsAt
<1>4. NotAhead(w)' /\ ClaimIsNew(w)' /\ CheckIsFresh(w)' /\ ReportIsTrue(w)'
  BY <1>1, <1>2, <1>3 DEF WorkerInv, NotAhead, At, ClaimIsNew, CheckIsFresh, ReportIsTrue, headVars, Cancelled
<1>5. CheckpointIsKnown(w)'
  BY <1>1, <1>3 DEF CheckpointIsKnown
<1>6. OwnsHead(w) => /\ status = "claimed" /\ claim.attempt = job[w].attempt
                     /\ 1 <= job[w].attempt /\ job[w].attempt <= attemptCount
  BY OwnsItsAttempt, Numbers DEF ExecutionInv
<1>7. AttemptWasTaken(w)'
  BY <1>1, <1>2, <1>3, <1>6 DEF WorkerInv, AttemptWasTaken, headVars
<1>8. EntersOwned(w)
  BY <1>1 DEF EntersOwned
<1>. QED
  BY <1>1, <1>4, <1>5, <1>7, <1>8, WorkerReads DEF WorkerInv

\* A worker forgets what it was doing.
LEMMA IdleTyped == IdleJob \in JobType
  BY LifecycleAssumption DEF IdleJob, JobType, Times

\* The steps of a worker that only read.
LEMMA ReadSteps ==
  ASSUME ExecutionInv, NEW w \in Workers
  PROVE  /\ ReadReceipt(w) => ExecutionInv'
         /\ Preflight(w) => ExecutionInv'
         /\ StopRendering(w) => ExecutionInv'
         /\ EndRendering(w) => ExecutionInv'
         /\ InspectHead(w) => ExecutionInv'
<1>. USE DEF Owning, Claiming, Executing, Recovering, StandsAt
<1>0. CheckpointIsKnown(w)
  BY DEF ExecutionInv, WorkerInv
<1>1. ReadReceipt(w) => ExecutionInv'
  BY <1>0, WorkerGoes DEF ReadReceipt, CheckpointIsKnown
<1>2. Preflight(w) => ExecutionInv'
  BY <1>0, WorkerGoes DEF Preflight, CheckpointIsKnown
<1>3. StopRendering(w) => ExecutionInv'
  BY <1>0, WorkerGoes DEF StopRendering, CheckpointIsKnown
<1>4. EndRendering(w) => ExecutionInv'
  BY <1>0, WorkerGoes DEF EndRendering, CheckpointIsKnown
<1>5. InspectHead(w) => ExecutionInv'
  BY <1>0, WorkerGoes DEF InspectHead, CheckpointIsKnown
<1>. QED
  BY <1>1, <1>2, <1>3, <1>4, <1>5

\* A worker that has let go of everything.
LEMMA RestFits ==
  ASSUME NEW w \in Workers, job'[w] = IdleJob, headRevision' \in Nat, now' \in Nat
  PROVE  WorkerInv(w)' /\ EntersOwned(w)
<1>. USE DEF IdleJob
<1>1. NotAhead(w)' /\ ClaimIsNew(w)' /\ CheckIsFresh(w)'
  BY DEF NotAhead, At, ClaimIsNew, CheckIsFresh
<1>2. AttemptWasTaken(w)' /\ CheckpointIsKnown(w)' /\ EntersOwned(w)
  BY DEF AttemptWasTaken, CheckpointIsKnown, StandsAt, EntersOwned, Owning
<1>3. ReportIsTrue(w)'
  BY DEF ReportIsTrue
<1>. QED
  BY <1>1, <1>2, <1>3 DEF WorkerInv

LEMMA WorkerRests ==
  ASSUME ExecutionInv, NEW w \in Workers, OnlyJob, GoIdle(w)
  PROVE  ExecutionInv'
<1>1. job'[w] = IdleJob
  BY IdleTyped, BecomeFacts DEF GoIdle, ExecutionInv
<1>2. headRevision' \in Nat /\ now' \in Nat
  BY Numbers DEF OnlyJob, KeepHead, OnlyHead, headVars, ExecutionInv
<1>. QED
  BY <1>1, <1>2, IdleTyped, RestFits, WorkerReads DEF GoIdle

\* A worker that takes up other work: what it holds is new, and it does not own
\* the head with it.
LEMMA WorkerTurns ==
  ASSUME ExecutionInv, NEW w \in Workers, OnlyJob, NEW j \in JobType, Become(w, j),
         j.rev <= headRevision, j.at <= now, j.outcome = job[w].outcome \/ j.outcome = "none",
         j.pc \notin Owning \cup {"terminate", "finish"},
         status = "claimed" /\ claim.token = <<w, j.attempt>> => j.pc # "claim" /\ StandsAt(j.pc),
         j.pc = "claim" => j.attempt = attemptCount + 1
  PROVE  ExecutionInv'
<1>1. job'[w] = j
  BY BecomeFacts DEF ExecutionInv
<1>2. UNCHANGED <<headVars, now, receipt>> /\ UNCHANGED <<headRevision, status, claim, checkpoint, attemptCount>>
  BY DEF OnlyJob, KeepHead, OnlyHead, storeVars, headVars
<1>3. OwnsHead(w)' <=> status = "claimed" /\ claim.token = <<w, j.attempt>>
  BY <1>1, <1>2 DEF Token, OwnsHead
<1>4. NotAhead(w)' /\ ClaimIsNew(w)'
  BY <1>1, <1>2, <1>3 DEF NotAhead, At, ClaimIsNew, Current
<1>5. CheckpointIsKnown(w)' /\ AttemptWasTaken(w)' /\ CheckIsFresh(w)' /\ EntersOwned(w)
  BY <1>1, <1>2, <1>3
     DEF CheckpointIsKnown, StandsAt, AttemptWasTaken, CheckIsFresh, EntersOwned, Owning
<1>6. ReportIsTrue(w)'
  BY <1>1 DEF ReportIsTrue, ExecutionInv, WorkerInv
<1>. QED
  BY <1>1, <1>4, <1>5, <1>6, WorkerReads DEF WorkerInv

LEMMA DiscoverInv == ASSUME ExecutionInv, NEW w \in Workers, Discover(w) PROVE ExecutionInv'
<1>. DEFINE j == [IdleJob EXCEPT !.pc = "read-head", !.at = now]
<1>1. now \in Times /\ now \in Nat /\ headRevision \in Nat
  BY Numbers DEF ExecutionInv, ExecutionTypeOK
<1>2. j \in JobType
  BY <1>1, IdleTyped DEF JobType, Claiming
<1>4. j.rev = 0 /\ j.at = now /\ j.outcome = "none" /\ j.pc = "read-head"
  BY DEF IdleJob
<1>3. Become(w, j) /\ OnlyJob
  BY DEF Discover
<1>. HIDE DEF j
<1>. QED
  BY <1>1, <1>2, <1>3, <1>4, WorkerTurns DEF StandsAt, Owning

LEMMA ReadHeadInv == ASSUME ExecutionInv, NEW w \in Workers, ReadHead(w) PROVE ExecutionInv'
<1>1. CASE status = "stopped" /\ Goto(w, "execute")
  BY <1>1, WorkerGoes DEF ReadHead, Executing, Owning, OwnsHead
<1>2. CASE GoIdle(w)
  BY <1>2, WorkerRests DEF ReadHead
<1>3. CASE Become(w, [job[w] EXCEPT !.pc = "claim", !.rev = headRevision, !.attempt = attemptCount + 1])
  <2>. DEFINE j == [job[w] EXCEPT !.pc = "claim", !.rev = headRevision, !.attempt = attemptCount + 1]
  <2>1. job[w] \in JobType /\ headRevision \in Nat /\ attemptCount \in Nat /\ At(w) <= now
    BY Numbers DEF ExecutionInv, WorkerInv, NotAhead
  <2>2. attemptCount + 1 \in 0 .. MaxAttempts + 1
    BY <2>1, LifecycleAssumption DEF ExecutionInv, LifecycleInv, HeadParses
  <2>3. /\ j \in JobType /\ j.rev = headRevision /\ j.at = job[w].at
        /\ j.attempt = attemptCount + 1 /\ j.outcome = job[w].outcome /\ j.pc = "claim"
    BY <2>1, <2>2 DEF JobType, Claiming
  <2>4. status = "claimed" => claim.token # <<w, j.attempt>>
    <3>. SUFFICES ASSUME status = "claimed", claim.token = <<w, j.attempt>>
                  PROVE  FALSE
      OBVIOUS
    <3>1. claim.attempt = attemptCount
      BY OwnerFacts DEF ExecutionInv
    <3>2. PICK v \in Workers : claim.token = <<v, claim.attempt>>
      BY DEF ExecutionInv, TokenNamesAttempt
    <3>. QED
      BY <2>1, <2>3, <3>1, <3>2
  <2>5. headRevision <= headRevision
    BY <2>1
  <2>6. OnlyJob /\ Become(w, j)
    BY <1>3 DEF ReadHead
  <2>. HIDE DEF j
  <2>. QED
    BY <2>1, <2>3, <2>4, <2>5, <2>6, WorkerTurns DEF Owning, At
<1>. QED
  BY <1>1, <1>2, <1>3 DEF ReadHead

LEMMA ReconcileClaimInv == ASSUME ExecutionInv, NEW w \in Workers, ReconcileClaim(w) PROVE ExecutionInv'
<1>1. CheckpointIsKnown(w)
  BY DEF ExecutionInv, WorkerInv
<1>. QED
  BY <1>1, WorkerGoes, WorkerRests
     DEF ReconcileClaim, CheckpointIsKnown, StandsAt, Claiming, Executing, Owning

LEMMA ExecuteInv == ASSUME ExecutionInv, NEW w \in Workers, Execute(w) PROVE ExecutionInv'
<1>1. CheckpointIsKnown(w)
  BY DEF ExecutionInv, WorkerInv
<1>2. CASE GoIdle(w)
  BY <1>2, WorkerRests DEF Execute
<1>3. CASE Goto(w, "blocked")
  BY <1>3, WorkerGoes DEF Execute, Recovering, Owning, StandsAt
<1>4. CASE Become(w, [job[w] EXCEPT !.pc = "workflow", !.at = now])
  <2>. DEFINE j == [job[w] EXCEPT !.pc = "workflow", !.at = now]
  <2>1. job[w] \in JobType /\ now \in Times /\ now \in Nat /\ job[w].rev <= headRevision
    BY Numbers DEF ExecutionInv, ExecutionTypeOK, WorkerInv, NotAhead
  <2>2. /\ j \in JobType /\ j.rev = job[w].rev /\ j.at = now
        /\ j.attempt = job[w].attempt /\ j.outcome = job[w].outcome /\ j.pc = "workflow"
    BY <2>1 DEF JobType, Executing
  <2>3. status = "claimed" /\ claim.token = <<w, job[w].attempt>> => StandsAt("workflow")
    BY <1>1 DEF Execute, CheckpointIsKnown, OwnsHead, Token, StandsAt
  <2>4. OnlyJob /\ Become(w, j) /\ now <= now
    BY <1>4, <2>1 DEF Execute
  <2>. HIDE DEF j
  <2>. QED
    BY <2>1, <2>2, <2>3, <2>4, WorkerTurns DEF Owning
<1>. QED
  BY <1>2, <1>3, <1>4 DEF Execute

\* The worker that claimed the head works in it from here on, at its revision.
LEMMA WorkflowHeadInv == ASSUME ExecutionInv, NEW w \in Workers, WorkflowHead(w) PROVE ExecutionInv'
<1>1. CheckpointIsKnown(w) /\ WorkerInv(w) /\ job[w] \in JobType /\ headRevision \in Nat
  BY Numbers DEF ExecutionInv, WorkerInv
<1>2. CASE Goto(w, "finalize") \/ Goto(w, "blocked")
  BY <1>2, WorkerGoes DEF WorkflowHead, Executing, Recovering, Owning, StandsAt
<1>3. CASE OwnsHead(w) /\ Become(w, [job[w] EXCEPT
             !.pc = IF checkpoint = "before-handoff" THEN "handoff" ELSE "receipt",
             !.rev = headRevision])
  <2>. DEFINE j == [job[w] EXCEPT !.pc = "handoff", !.rev = headRevision]
  <2>1. checkpoint = "before-handoff"
    BY <1>1, <1>3 DEF WorkflowHead, CheckpointIsKnown, StandsAt
  <2>2. /\ j \in JobType /\ j.rev = headRevision /\ j.at = job[w].at
        /\ j.attempt = job[w].attempt /\ j.outcome = job[w].outcome /\ j.pc = "handoff"
    BY <1>1 DEF JobType, Executing
  <2>3. OnlyJob /\ Become(w, j)
    BY <1>3, <2>1 DEF WorkflowHead
  <2>. HIDE DEF j
  <2>4. job'[w] = j
    BY <2>2, <2>3, BecomeFacts DEF ExecutionInv
  <2>5. /\ UNCHANGED <<headVars, now, receipt>>
        /\ UNCHANGED <<headRevision, status, claim, checkpoint, attemptCount>>
    BY <2>3 DEF OnlyJob, KeepHead, OnlyHead, storeVars, headVars
  <2>6. NotAhead(w)' /\ ClaimIsNew(w)' /\ CheckIsFresh(w)' /\ ReportIsTrue(w)'
    BY <1>1, <2>2, <2>4, <2>5 DEF WorkerInv, NotAhead, At, ClaimIsNew, CheckIsFresh, ReportIsTrue
  <2>7. CheckpointIsKnown(w)'
    BY <2>1, <2>2, <2>4, <2>5 DEF CheckpointIsKnown, StandsAt
  <2>8. attemptCount = job[w].attempt /\ 1 <= attemptCount /\ attemptCount \in Nat
    BY <1>3, OwnsItsAttempt, Numbers DEF ExecutionInv
  <2>9. AttemptWasTaken(w)' /\ EntersOwned(w)
    BY <1>3, <2>2, <2>4, <2>5, <2>8 DEF AttemptWasTaken, OwnsHead, Token, EntersOwned
  <2>. QED
    BY <2>2, <2>3, <2>6, <2>7, <2>9, WorkerReads DEF WorkerInv
<1>. QED
  BY <1>2, <1>3 DEF WorkflowHead

\* What the head says of its stop is what the workflow reports.
LEMMA FailureMatches == LifecycleFailure \in Outcomes \ {"completed"} /\ MatchesStop(LifecycleFailure)
  BY DEF LifecycleFailure, Outcomes, MatchesStop

LEMMA WorkerReports ==
  ASSUME ExecutionInv, NEW w \in Workers, OnlyJob, NEW o \in Outcomes \ {"completed"},
         MatchesStop(o), Terminate(w, o)
  PROVE  ExecutionInv'
<1>. DEFINE j == [job[w] EXCEPT !.pc = "terminate", !.outcome = o]
<1>1. job[w] \in JobType /\ WorkerInv(w)
  BY Numbers DEF ExecutionInv
<1>2. /\ j \in JobType /\ j.rev = job[w].rev /\ j.at = job[w].at
      /\ j.attempt = job[w].attempt /\ j.outcome = o /\ j.pc = "terminate"
  BY <1>1 DEF JobType, Executing
<1>3. Become(w, j)
  BY DEF Terminate
<1>. HIDE DEF j
<1>4. job'[w] = j
  BY <1>2, <1>3, BecomeFacts DEF ExecutionInv
<1>5. /\ UNCHANGED <<headVars, now, receipt>>
      /\ UNCHANGED <<headRevision, status, claim, checkpoint, attemptCount, stop>>
  BY DEF OnlyJob, KeepHead, OnlyHead, storeVars, headVars
<1>6. NotAhead(w)' /\ ClaimIsNew(w)' /\ CheckIsFresh(w)'
  BY <1>1, <1>2, <1>4, <1>5 DEF WorkerInv, NotAhead, At, ClaimIsNew, CheckIsFresh
<1>7. CheckpointIsKnown(w)' /\ AttemptWasTaken(w)' /\ EntersOwned(w)
  BY <1>2, <1>4 DEF CheckpointIsKnown, StandsAt, AttemptWasTaken, EntersOwned, Owning
<1>8. ReportIsTrue(w)'
  BY <1>2, <1>4, <1>5 DEF ReportIsTrue, MatchesStop, Outcomes
<1>. QED
  BY <1>2, <1>3, <1>6, <1>7, <1>8, WorkerReads DEF WorkerInv

LEMMA FinalizeStoppedInv ==
  ASSUME ExecutionInv, NEW w \in Workers, FinalizeStopped(w) PROVE ExecutionInv'
<1>1. CASE Terminate(w, LifecycleFailure)
  BY <1>1, FailureMatches, WorkerReports DEF FinalizeStopped
<1>. QED
  BY <1>1, WorkerGoes DEF FinalizeStopped, Executing, Recovering, Owning, StandsAt

LEMMA ConcludeInv == ASSUME ExecutionInv, NEW w \in Workers, Conclude(w) PROVE ExecutionInv'
<1>1. CASE Terminate(w, LifecycleFailure)
  BY <1>1, FailureMatches, WorkerReports DEF Conclude
<1>2. CASE Terminate(w, "failed")
  BY <1>2, WorkerReports DEF Conclude, Outcomes, MatchesStop
<1>3. CASE Goto(w, "blocked")
  BY <1>3, WorkerGoes DEF Conclude, Recovering, Owning, StandsAt
<1>. QED
  BY <1>1, <1>2, <1>3 DEF Conclude

LEMMA AfterBlockedInv == ASSUME ExecutionInv, NEW w \in Workers, AfterBlocked(w) PROVE ExecutionInv'
<1>1. CASE GoIdle(w)
  BY <1>1, WorkerRests DEF AfterBlocked
<1>2. CASE Goto(w, "recheck")
  BY <1>2, WorkerGoes DEF AfterBlocked, Recovering, Owning, StandsAt
<1>. QED
  BY <1>1, <1>2 DEF AfterBlocked

LEMMA RecheckInv == ASSUME ExecutionInv, NEW w \in Workers, Recheck(w) PROVE ExecutionInv'
<1>1. CASE GoIdle(w)
  BY <1>1, WorkerRests DEF Recheck
<1>2. CASE Become(w, [job[w] EXCEPT !.pc = "release", !.rev = headRevision, !.at = now])
  <2>. DEFINE j == [job[w] EXCEPT !.pc = "release", !.rev = headRevision, !.at = now]
  <2>1. job[w] \in JobType /\ now \in Times /\ now \in Nat /\ headRevision \in Nat
    BY Numbers DEF ExecutionInv, ExecutionTypeOK
  <2>2. /\ j \in JobType /\ j.rev = headRevision /\ j.at = now
        /\ j.outcome = job[w].outcome /\ j.pc = "release"
    BY <2>1 DEF JobType, Recovering
  <2>3. OnlyJob /\ Become(w, j) /\ now <= now /\ headRevision <= headRevision
    BY <1>2, <2>1 DEF Recheck
  <2>. HIDE DEF j
  <2>. QED
    BY <2>2, <2>3, WorkerTurns DEF Owning, StandsAt
<1>. QED
  BY <1>1, <1>2 DEF Recheck

LEMMA CrashInv == ASSUME ExecutionInv, NEW w \in Workers, Crash(w) PROVE ExecutionInv'
  BY WorkerRests DEF Crash, OnlyJob, OnlyHead

-----------------------------------------------------------------------------
(* The steps that commit, and those that move the head. *)

\* A worker that goes on outside its attempt, whatever the call did.
LEMMA LeavesFits ==
  ASSUME ExecutionInv, NEW w \in Workers,
         NEW p \in ({"idle"} \cup Claiming \cup Executing \cup Recovering) \ (Owning \cup {"claim", "terminate"}),
         Goto(w, p), UNCHANGED now, headRevision' \in Nat, headRevision <= headRevision',
         p = "finish" => receipt' # NoToken,
         OwnsHead(w)' => StandsAt(p)'
  PROVE  WorkerInv(w)' /\ EntersOwned(w) /\ \E j \in JobType : Become(w, j)
<1>1. /\ job'[w].pc = p /\ job'[w].at = job[w].at
      /\ job'[w].rev = job[w].rev /\ job'[w].outcome = job[w].outcome
      /\ \E j \in JobType : Become(w, j)
  BY GotoFacts DEF ExecutionInv
<1>2. WorkerInv(w) /\ job[w].rev \in Nat /\ headRevision \in Nat
  BY Numbers DEF ExecutionInv
<1>3. NotAhead(w)' /\ ClaimIsNew(w)' /\ ReportIsTrue(w)'
  BY <1>1, <1>2 DEF WorkerInv, NotAhead, At, ClaimIsNew, ReportIsTrue
<1>4. CheckIsFresh(w)' /\ AttemptWasTaken(w)' /\ EntersOwned(w) /\ CheckpointIsKnown(w)'
  BY <1>1 DEF CheckIsFresh, AttemptWasTaken, EntersOwned, CheckpointIsKnown, Owning, StandsAt
<1>. QED
  BY <1>1, <1>3, <1>4 DEF WorkerInv

\* A token that a worker works with is one of the operation's.
LEMMA OwningToken ==
  ASSUME ExecutionInv, NEW w \in Workers, job[w].pc \in Owning
  PROVE  Token(w) \in Tokens /\ Token(w) # NoToken
<1>1. 1 <= job[w].attempt /\ job[w].attempt <= attemptCount
  BY DEF ExecutionInv, WorkerInv, AttemptWasTaken
<1>2. attemptCount <= MaxAttempts /\ attemptCount \in Nat /\ job[w].attempt \in Nat
  BY Numbers DEF ExecutionInv, LifecycleInv, HeadParses
<1>. QED
  BY <1>1, <1>2, ExecutionAssumption, LifecycleAssumption DEF Token

LEMMA CommitProjectionInv ==
  ASSUME ExecutionInv, NEW w \in Workers, CommitProjection(w) PROVE ExecutionInv'
<1>1. /\ UNCHANGED <<terminal, now, route>> /\ KeepHead
      /\ Token(w) \in Tokens /\ Token(w) # NoToken
      /\ receipt \in Tokens \cup {NoToken} /\ terminal \in Outcomes \cup {"none"}
  BY OwningToken DEF CommitProjection, Owning, ExecutionInv, ExecutionTypeOK
<1>2. headRevision' = headRevision /\ headRevision \in Nat
  BY <1>1, Numbers DEF KeepHead, headVars, ExecutionInv
<1>3. receipt' \in Tokens \cup {NoToken} /\ (receipt # NoToken => receipt' # NoToken)
  BY <1>1 DEF CommitProjection
<1>4. MatchesStop(terminal)'
  BY <1>1, HeadSame DEF ExecutionInv, MatchesStop
<1>5. PICK p \in {"finish", "blocked"} : Goto(w, p) /\ (p = "finish" => receipt' # NoToken)
  BY <1>1 DEF CommitProjection
<1>6. p \in ({"idle"} \cup Claiming \cup Executing \cup Recovering) \ (Owning \cup {"claim", "terminate"})
  BY <1>5 DEF Executing, Recovering, Owning
<1>7. StandsAt(p)'
  BY <1>5 DEF StandsAt
<1>8. WorkerInv(w)' /\ EntersOwned(w) /\ \E j \in JobType : Become(w, j)
  BY <1>1, <1>2, <1>5, <1>6, <1>7, LeavesFits
<1>. QED
  BY <1>1, <1>3, <1>4, <1>8, HeadSame, WorkerMoves

\* What is committed is what the worker may report.
LEMMA CommitTerminalInv ==
  ASSUME ExecutionInv, NEW w \in Workers, NEW o \in Outcomes, MatchesStop(o), CommitTerminal(w, o)
  PROVE  ExecutionInv'
<1>1. /\ UNCHANGED <<receipt, now, route>> /\ KeepHead
      /\ terminal' \in {terminal, o}
      /\ receipt \in Tokens \cup {NoToken} /\ terminal \in Outcomes \cup {"none"}
  BY DEF CommitTerminal, ExecutionInv, ExecutionTypeOK
<1>2. headRevision' = headRevision /\ headRevision \in Nat /\ now \in Nat /\ now' = now
  BY <1>1, Numbers DEF KeepHead, headVars, ExecutionInv
<1>3. MatchesStop(terminal)'
  BY <1>1, HeadSame DEF ExecutionInv, MatchesStop
<1>4. WorkerInv(w)' /\ EntersOwned(w) /\ \E j \in JobType : Become(w, j)
  <2>1. CASE GoIdle(w)
    BY <1>2, <2>1, IdleTyped, BecomeFacts, RestFits DEF GoIdle, ExecutionInv
  <2>2. CASE Goto(w, "blocked")
    BY <1>1, <1>2, <2>2, LeavesFits DEF Recovering, Owning, StandsAt
  <2>. QED
    BY <2>1, <2>2 DEF CommitTerminal
<1>. QED
  BY <1>1, <1>3, <1>4, HeadSame, WorkerMoves

LEMMA CommitsInv ==
  ASSUME ExecutionInv, NEW w \in Workers, CommitCompleted(w) \/ CommitStopped(w)
  PROVE  ExecutionInv'
<1>1. CASE CommitCompleted(w)
  BY <1>1, CommitTerminalInv DEF CommitCompleted, Outcomes, MatchesStop
<1>2. CASE CommitStopped(w)
  <2>1. job[w].outcome \in Outcomes /\ MatchesStop(job[w].outcome)
    BY <1>2, Numbers DEF CommitStopped, JobType, ExecutionInv, WorkerInv, ReportIsTrue
  <2>. QED
    BY <1>2, <2>1, CommitTerminalInv DEF CommitStopped
<1>. QED
  BY <1>1, <1>2

\* Any transition, requested with a time that has come.
LEMMA HeadMoves ==
  ASSUME ExecutionInv, NEW at \in Nat, at <= now, TransitionAt(at)
  PROVE  /\ HeadMoved(at) /\ LifecycleInv' /\ updatedAt' <= now
         /\ headRevision' \in Nat /\ headRevision <= headRevision'
         /\ MatchesStop(terminal) /\ \A o : MatchesStop(o) => MatchesStop(o)'
<1>1. HeadMoved(at)
  BY TransitionMoves DEF ExecutionInv
<1>2. LifecycleInv'
  BY InvStep DEF Transition, ExecutionInv
<1>3. stop = NoStop
  BY <1>1 DEF HeadMoved, ExecutionInv, LifecycleInv, LifecycleTypeOK, Statuses, HeadParses, StatusFits
<1>4. \A o : MatchesStop(o) => MatchesStop(o)'
  BY <1>3 DEF MatchesStop, NoStop, CancelReasons
<1>5. headRevision \in Nat
  BY Numbers DEF ExecutionInv
<1>. QED
  BY <1>1, <1>2, <1>4, <1>5 DEF HeadMoved, ExecutionInv

\* Of a head that stays its owner's, the others know what they knew.
LEMMA OthersKeep ==
  ASSUME ExecutionInv, NEW v \in Workers, NEW at \in Nat, HeadMoved(at),
         status' = "claimed" => claim' = claim /\ attemptCount' = attemptCount,
         status' = "claimed" => ~OwnsHead(v) \/ checkpoint' = checkpoint
  PROVE  TokenNamesAttempt' /\ HeadKeeps(v)
<1>1. status' = "claimed" => status = "claimed"
  <2>1. attemptCount \in Nat
    BY Numbers DEF ExecutionInv
  <2>. QED
    BY <2>1 DEF HeadMoved
<1>. QED
  BY <1>1 DEF ExecutionInv, TokenNamesAttempt, HeadKeeps, OwnsHead

-----------------------------------------------------------------------------
(* The transitions that the owner of a claim asks for. *)

OwnerMoves(w) ==
  /\ OwnsHead(w)
  /\ TransitionAt(At(w))
  /\ status' = "claimed" => claim' = claim /\ attemptCount' = attemptCount

LEMMA OwnerMovesWith ==
  ASSUME ExecutionInv, NEW w \in Workers,
         \/ \E next \in Checkpoints : PassCheckpoint(Token(w), next, At(w))
         \/ \E retryAt \in DateOrNull : ReleaseClaim(Token(w), retryAt, At(w))
         \/ CheckCheckpoint(Token(w), At(w))
  PROVE  OwnerMoves(w)
<1>1. OwnsHead(w)
  BY DEF PassCheckpoint, ReleaseClaim, CheckCheckpoint, Owns, LiveClaim, OwnsHead
<1>2. TransitionAt(At(w))
  BY <1>1, OwnsItsAttempt DEF TransitionAt
<1>3. StopsFirst(At(w)) => status' = "stopped"
  BY DEF StopsFirst, Stop
<1>4. status' = "claimed" => claim' = claim /\ attemptCount' = attemptCount
  BY <1>3 DEF PassCheckpoint, ReleaseClaim, CheckCheckpoint, Stop
<1>. QED
  BY <1>1, <1>2, <1>4 DEF OwnerMoves

\* A transition of a worker's that leaves the claim to its owner, or ends it.
LEMMA OwnerMovesFacts ==
  ASSUME ExecutionInv, NEW w \in Workers, TransitionAt(At(w)),
         status' = "claimed" => OwnsHead(w) /\ claim' = claim /\ attemptCount' = attemptCount
  PROVE  /\ HeadMoved(At(w)) /\ LifecycleInv' /\ updatedAt' <= now
         /\ headRevision' \in Nat /\ headRevision < headRevision'
         /\ TokenNamesAttempt' /\ MatchesStop(terminal) /\ \A o : MatchesStop(o) => MatchesStop(o)'
         /\ \A v \in Workers \ {w} : HeadKeeps(v)
<1>1. At(w) \in Nat /\ At(w) <= now /\ headRevision \in Nat /\ WorkerInv(w)
  BY Numbers DEF ExecutionInv, WorkerInv, NotAhead, At
<1>2. /\ HeadMoved(At(w)) /\ LifecycleInv' /\ updatedAt' <= now
      /\ headRevision' \in Nat /\ headRevision <= headRevision'
      /\ MatchesStop(terminal) /\ \A o : MatchesStop(o) => MatchesStop(o)'
  BY <1>1, HeadMoves
<1>3. ASSUME NEW v \in Workers \ {w} PROVE status' = "claimed" => ~OwnsHead(v)
  BY DEF OwnsHead, Token
<1>4. TokenNamesAttempt' /\ \A v \in Workers \ {w} : HeadKeeps(v)
  <2>1. TokenNamesAttempt'
    BY DEF ExecutionInv, TokenNamesAttempt, OwnsHead
  <2>. QED
    BY <1>1, <1>2, <1>3, <2>1, OthersKeep
<1>5. headRevision < headRevision'
  BY <1>1, <1>2 DEF HeadMoved
<1>. QED
  BY <1>2, <1>4, <1>5

\* A worker that moves the head and holds on to nothing of its attempt.
LEMMA MovesAndLeaves ==
  ASSUME ExecutionInv, NEW w \in Workers,
         NEW p \in ({"idle"} \cup Claiming \cup Executing \cup Recovering) \ (Owning \cup {"claim", "terminate", "finish"}),
         Goto(w, p), OnlyHead, TransitionAt(At(w)),
         status' = "claimed" => OwnsHead(w) /\ claim' = claim /\ attemptCount' = attemptCount,
         status' = "claimed" => StandsAt(p)'
  PROVE  ExecutionInv'
<1>1. UNCHANGED <<now, route>> /\ terminal' = terminal /\ receipt' = receipt
  BY DEF OnlyHead, storeVars
<1>2. WorkerInv(w)' /\ EntersOwned(w) /\ \E j \in JobType : Become(w, j)
  <2>1. headRevision' \in Nat /\ headRevision < headRevision' /\ headRevision \in Nat /\ headRevision <= headRevision'
    BY OwnerMovesFacts, Numbers DEF ExecutionInv
  <2>. QED
    BY <1>1, <2>1, LeavesFits DEF OwnsHead
<1>3. terminal' \in Outcomes \cup {"none"} /\ receipt' \in Tokens \cup {NoToken} /\ MatchesStop(terminal)'
  BY <1>1, OwnerMovesFacts DEF ExecutionInv, ExecutionTypeOK, MatchesStop
<1>. QED
  BY <1>1, <1>2, <1>3, OwnerMovesFacts, WorkerMoves

\* A worker that moves its own head and goes on from there.
LEMMA MovesAndGoesOn ==
  ASSUME ExecutionInv, NEW w \in Workers, OwnerMoves(w), OnlyHead,
         NEW p \in (Owning \cup {"finalize"}) \ {"commit"},
         Become(w, [job[w] EXCEPT !.pc = p, !.rev = headRevision']),
         p \in Owning => job[w].pc \in Owning,
         status' = "claimed" => StandsAt(p)',
         p = "persist" => checkpointCheck'.token = Token(w) /\ ~Cancelled'
  PROVE  ExecutionInv'
<1>. DEFINE j == [job[w] EXCEPT !.pc = p, !.rev = headRevision']
<1>1. /\ HeadMoved(At(w)) /\ LifecycleInv' /\ updatedAt' <= now
      /\ headRevision' \in Nat /\ headRevision < headRevision' /\ headRevision' <= headRevision'
      /\ TokenNamesAttempt' /\ MatchesStop(terminal) /\ \A o : MatchesStop(o) => MatchesStop(o)'
      /\ \A v \in Workers \ {w} : HeadKeeps(v)
  BY OwnerMovesFacts DEF OwnerMoves
<1>2. UNCHANGED <<now, route>> /\ terminal' = terminal /\ receipt' = receipt
  BY DEF OnlyHead, storeVars
<1>3. job[w] \in JobType /\ WorkerInv(w)
  BY Numbers DEF ExecutionInv
<1>4. p \in {"idle"} \cup Claiming \cup Executing \cup Recovering
  BY DEF Owning, Executing
<1>5. /\ j \in JobType /\ j.rev = headRevision' /\ j.at = job[w].at
      /\ j.attempt = job[w].attempt /\ j.outcome = job[w].outcome /\ j.pc = p
  BY <1>1, <1>3, <1>4 DEF JobType
<1>6. Become(w, j)
  OBVIOUS
<1>. HIDE DEF j
<1>7. job'[w] = j /\ Token(w)' = Token(w)
  BY <1>5, <1>6, BecomeFacts DEF ExecutionInv, Token
<1>8. NotAhead(w)' /\ ClaimIsNew(w)' /\ ReportIsTrue(w)'
  BY <1>1, <1>2, <1>3, <1>5, <1>7 DEF WorkerInv, NotAhead, At, ClaimIsNew, ReportIsTrue, Owning
<1>9. CheckpointIsKnown(w)' /\ EntersOwned(w)
  BY <1>5, <1>7 DEF CheckpointIsKnown, OwnsHead, EntersOwned, StandsAt
<1>10. CheckIsFresh(w)'
  BY <1>5, <1>7 DEF CheckIsFresh
<1>11. AttemptWasTaken(w)'
  <2>1. job[w].attempt = attemptCount /\ 1 <= attemptCount /\ attemptCount \in Nat
        /\ claim.token = Token(w)
    BY OwnsItsAttempt, Numbers DEF OwnerMoves, ExecutionInv
  <2>. QED
    BY <1>1, <1>5, <1>7, <2>1 DEF AttemptWasTaken, OwnerMoves, HeadMoved, OwnsHead
<1>12. terminal' \in Outcomes \cup {"none"} /\ receipt' \in Tokens \cup {NoToken} /\ MatchesStop(terminal)'
  BY <1>1, <1>2 DEF ExecutionInv, ExecutionTypeOK, MatchesStop
<1>. QED
  BY <1>1, <1>2, <1>5, <1>6, <1>8, <1>9, <1>10, <1>11, <1>12, WorkerMoves DEF WorkerInv

\* A call that is refused, or has no effect, and ends the attempt.
LEMMA KeepsAndLeaves ==
  ASSUME ExecutionInv, NEW w \in Workers, KeepHead, OnlyHead,
         NEW p \in {"blocked", "conclude"}, Goto(w, p)
  PROVE  ExecutionInv'
  BY WorkerGoes DEF OnlyJob, Recovering, Executing, Owning, StandsAt

LEMMA PassHandoffInv == ASSUME ExecutionInv, NEW w \in Workers, PassHandoff(w) PROVE ExecutionInv'
<1>1. CASE KeepHead /\ Goto(w, "blocked")
  BY <1>1, KeepsAndLeaves DEF PassHandoff
<1>2. CASE PassCheckpoint(Token(w), "before-render", At(w))
  <2>1. OwnerMoves(w)
    BY <1>2, OwnerMovesWith DEF Checkpoints
  <2>2. CASE Goto(w, "blocked")
    BY <2>1, <2>2, MovesAndLeaves DEF PassHandoff, OwnerMoves, Recovering, Owning, StandsAt
  <2>3. CASE Become(w, [job[w] EXCEPT !.pc = IF status' = "stopped" THEN "finalize" ELSE "receipt",
                                      !.rev = headRevision'])
    <3>1. status' = "claimed" => checkpoint' = "before-render"
      BY <1>2 DEF PassCheckpoint, StopsFirst, Stop
    <3>2. PICK p \in {"finalize", "receipt"} : Become(w, [job[w] EXCEPT !.pc = p, !.rev = headRevision'])
      BY <2>3
    <3>3. p \in (Owning \cup {"finalize"}) \ {"commit"} /\ p # "persist"
      BY <3>2 DEF Owning
    <3>4. job[w].pc \in Owning /\ OnlyHead
      BY DEF PassHandoff, Owning
    <3>5. status' = "claimed" => StandsAt(p)'
      BY <3>1, <3>2 DEF StandsAt
    <3>. QED
      BY <2>1, <3>2, <3>3, <3>4, <3>5, MovesAndGoesOn
  <2>. QED
    BY <1>2, <2>2, <2>3 DEF PassHandoff
<1>. QED
  BY <1>1, <1>2 DEF PassHandoff

LEMMA PassBeforeRenderInv ==
  ASSUME ExecutionInv, NEW w \in Workers, PassBeforeRender(w) PROVE ExecutionInv'
<1>1. CASE KeepHead /\ Goto(w, "conclude")
  BY <1>1, KeepsAndLeaves DEF PassBeforeRender
<1>2. CASE PassCheckpoint(Token(w), "before-persist", At(w))
  <2>1. OwnerMoves(w)
    BY <1>2, OwnerMovesWith DEF Checkpoints
  <2>2. CASE Goto(w, "conclude")
    BY <2>1, <2>2, MovesAndLeaves DEF PassBeforeRender, OwnerMoves, Executing, Owning, StandsAt
  <2>3. CASE Become(w, [job[w] EXCEPT !.pc = "preflight", !.rev = headRevision'])
    <3>1. status' = "claimed" => StandsAt("preflight")'
      BY <1>2 DEF PassCheckpoint, StopsFirst, Stop, StandsAt
    <3>2. "preflight" \in (Owning \cup {"finalize"}) \ {"commit"} /\ job[w].pc \in Owning /\ OnlyHead
      BY DEF PassBeforeRender, Owning
    <3>. QED
      BY <2>1, <2>3, <3>1, <3>2, MovesAndGoesOn
  <2>. QED
    BY <1>2, <2>2, <2>3 DEF PassBeforeRender
<1>. QED
  BY <1>1, <1>2 DEF PassBeforeRender

\* The check before persistence is a transition that leaves the claim as it is,
\* or stops the export; when it leaves it, it retains the check.
LEMMA CheckMoves ==
  ASSUME ExecutionInv, NEW w \in Workers, CheckTransition(w)
  PROVE  /\ TransitionAt(At(w))
         /\ status' = "claimed" =>
              /\ OwnerMoves(w)
              /\ checkpointCheck'.token = Token(w) /\ ~Cancelled'
<1>1. CASE Late(At(w))
  BY <1>1 DEF CheckTransition, TransitionAt, EnforceDeadline, Stop
<1>2. CASE CheckCheckpoint(Token(w), At(w))
  <2>1. OwnerMoves(w)
    BY <1>2, OwnerMovesWith
  <2>2. claim.token = Token(w)
    BY <1>2 DEF CheckCheckpoint, Owns
  <2>3. status' = "claimed" => checkpointCheck'.token = Token(w) /\ ~Cancelled'
    BY <1>2, <2>2 DEF CheckCheckpoint, StopsFirst, Stop, MayContinue, Cancelled
  <2>. QED
    BY <2>1, <2>3 DEF OwnerMoves
<1>. QED
  BY <1>1, <1>2 DEF CheckTransition

LEMMA CancelRenderingInv ==
  ASSUME ExecutionInv, NEW w \in Workers, CancelRendering(w) PROVE ExecutionInv'
<1>1. CASE KeepHead
  BY <1>1, KeepsAndLeaves DEF CancelRendering
<1>2. CASE CheckTransition(w)
  BY <1>2, CheckMoves, MovesAndLeaves DEF CancelRendering, OwnerMoves, Executing, Owning, StandsAt
<1>. QED
  BY <1>1, <1>2 DEF CancelRendering

LEMMA CheckBeforePersistInv ==
  ASSUME ExecutionInv, NEW w \in Workers, CheckBeforePersist(w) PROVE ExecutionInv'
<1>1. CASE KeepHead /\ Goto(w, "conclude")
  BY <1>1, KeepsAndLeaves DEF CheckBeforePersist
<1>2. CASE CheckTransition(w) /\ Goto(w, "conclude")
  BY <1>2, CheckMoves, MovesAndLeaves DEF CheckBeforePersist, OwnerMoves, Executing, Owning, StandsAt
<1>3. CASE /\ CheckTransition(w) /\ status' = "claimed" /\ checkpoint' = "before-persist"
           /\ Become(w, [job[w] EXCEPT !.pc = "persist", !.rev = headRevision'])
  <2>1. OwnerMoves(w) /\ checkpointCheck'.token = Token(w) /\ ~Cancelled'
    BY <1>3, CheckMoves
  <2>2. "persist" \in (Owning \cup {"finalize"}) \ {"commit"} /\ job[w].pc \in Owning /\ OnlyHead
    BY DEF CheckBeforePersist, Owning
  <2>3. StandsAt("persist")'
    BY <1>3 DEF StandsAt
  <2>. QED
    BY <1>3, <2>1, <2>2, <2>3, MovesAndGoesOn
<1>. QED
  BY <1>1, <1>2, <1>3 DEF CheckBeforePersist

LEMMA ReleaseInv == ASSUME ExecutionInv, NEW w \in Workers, Release(w) PROVE ExecutionInv'
<1>1. CASE KeepHead
  BY <1>1, WorkerRests DEF Release, OnlyJob
<1>2. CASE ReleaseClaim(Token(w), At(w) + RetryDelay, At(w))
  <2>1. At(w) + RetryDelay \in DateOrNull
    BY ExecutionAssumption, Numbers DEF At, DateOrNull, ExecutionInv
  <2>2. OwnerMoves(w)
    BY <1>2, <2>1, OwnerMovesWith
  <2>3. /\ LifecycleInv' /\ updatedAt' <= now /\ headRevision' \in Nat /\ TokenNamesAttempt'
        /\ MatchesStop(terminal) /\ \A o : MatchesStop(o) => MatchesStop(o)'
        /\ \A v \in Workers \ {w} : HeadKeeps(v)
    BY <2>2, OwnerMovesFacts DEF OwnerMoves
  <2>4. UNCHANGED <<now, route>> /\ terminal' = terminal /\ receipt' = receipt /\ GoIdle(w)
    BY DEF Release, OnlyHead, storeVars
  <2>5. terminal' \in Outcomes \cup {"none"} /\ receipt' \in Tokens \cup {NoToken} /\ MatchesStop(terminal)'
    BY <2>3, <2>4 DEF ExecutionInv, ExecutionTypeOK, MatchesStop
  <2>6. WorkerInv(w)' /\ EntersOwned(w)
    BY <2>3, <2>4, Numbers, IdleTyped, BecomeFacts, RestFits DEF GoIdle, ExecutionInv
  <2>. QED
    BY <2>3, <2>4, <2>5, <2>6, IdleTyped, WorkerMoves DEF GoIdle
<1>. QED
  BY <1>1, <1>2 DEF Release

-----------------------------------------------------------------------------
(* The claim: it makes a worker the owner of the attempt it asked for. *)

\* A claim is a transition whatever the attempt asked for: the claim of an
\* attempt beyond the budget stops the export, as that of any other token would.
LEMMA ClaimMoves ==
  ASSUME ExecutionInv, NEW w \in Workers, job[w].pc = "claim", Current(w), ClaimTransition(w)
  PROVE  /\ TransitionAt(At(w))
         /\ status' = "claimed" =>
              /\ claim'.token = Token(w) /\ claim'.attempt = job[w].attempt
              /\ checkpoint' = "before-handoff"
<1>1. CASE Late(At(w))
  BY <1>1 DEF ClaimTransition, TransitionAt, EnforceDeadline, Stop
<1>2. CASE ~Late(At(w))
  <2>. DEFINE expiresAt == MinTime(At(w) + ClaimDuration, Deadline)
  <2>1. Claim(Token(w), expiresAt, At(w))
    BY <1>2 DEF ClaimTransition
  <2>2. At(w) \in Nat /\ attemptCount \in Nat
    BY Numbers DEF At, ExecutionInv
  <2>3. ClaimDuration \in Nat /\ Deadline \in Nat /\ MaxAttempts \in Nat \ {0}
    BY ExecutionAssumption, LifecycleAssumption
  <2>4. expiresAt \in Nat
    BY <2>2, <2>3 DEF MinTime
  <2>5. job[w].attempt = attemptCount + 1
    BY DEF ExecutionInv, WorkerInv, ClaimIsNew
  <2>. HIDE DEF expiresAt
  <2>6. PICK token \in Tokens : Claim(token, expiresAt, At(w))
    <3>1. CASE attemptCount < MaxAttempts
      <4>1. job[w].attempt \in 1 .. MaxAttempts
        BY <2>2, <2>3, <2>5, <3>1
      <4>. QED
        BY <2>1, <4>1, ExecutionAssumption DEF Token
    <3>2. CASE ~(attemptCount < MaxAttempts)
      <4>1. Exhausted
        BY <2>2, <2>3, <3>2 DEF Exhausted
      <4>2. <<w, 1>> \in Tokens
        BY <2>3, ExecutionAssumption
      <4>3. Claim(<<w, 1>>, expiresAt, At(w))
        BY <2>1, <4>1 DEF Claim
      <4>. QED
        BY <4>2, <4>3
    <3>. QED
      BY <3>1, <3>2
  <2>7. TransitionAt(At(w))
    BY <2>4, <2>6 DEF TransitionAt
  <2>8. ASSUME status' = "claimed"
        PROVE  /\ claim'.token = Token(w) /\ claim'.attempt = job[w].attempt
               /\ checkpoint' = "before-handoff"
    <3>1. TakeClaim(Token(w), expiresAt, At(w)) /\ Open(At(w))
      BY <2>1, <2>8 DEF Claim, StopsFirst, Stop
    <3>2. status = "claimed" \/ checkpoint = "before-handoff"
      BY <3>1 DEF Open, ExecutionInv, LifecycleInv, LifecycleTypeOK, Statuses, PendingOnlyByRelease
    <3>. QED
      BY <2>5, <3>1, <3>2 DEF TakeClaim, StartingCheckpoint
  <2>. QED
    BY <2>7, <2>8
<1>. QED
  BY <1>1, <1>2

LEMMA ClaimWorkInv == ASSUME ExecutionInv, NEW w \in Workers, ClaimWork(w) PROVE ExecutionInv'
<1>1. CASE KeepHead /\ Goto(w, "reconcile")
  BY <1>1, WorkerGoes DEF ClaimWork, OnlyJob, Claiming, Owning, StandsAt, ExecutionInv, WorkerInv, ClaimIsNew
<1>2. CASE KeepHead /\ GoIdle(w)
  BY <1>2, WorkerRests DEF ClaimWork, OnlyJob
<1>3. CASE Current(w) /\ ClaimTransition(w) /\ \E p \in {"execute", "reconcile"} : Goto(w, p)
  <2>1. PICK p \in {"execute", "reconcile"} : Goto(w, p)
    BY <1>3
  <2>2. /\ TransitionAt(At(w))
        /\ status' = "claimed" =>
             /\ claim'.token = Token(w) /\ claim'.attempt = job[w].attempt
             /\ checkpoint' = "before-handoff"
    BY <1>3, ClaimMoves DEF ClaimWork
  <2>3. At(w) \in Nat /\ At(w) <= now /\ headRevision \in Nat
    BY Numbers DEF At, ExecutionInv, WorkerInv, NotAhead
  <2>4. /\ HeadMoved(At(w)) /\ LifecycleInv' /\ updatedAt' <= now
        /\ headRevision' \in Nat /\ headRevision <= headRevision'
        /\ MatchesStop(terminal) /\ \A o : MatchesStop(o) => MatchesStop(o)'
    BY <2>2, <2>3, HeadMoves
  <2>5. UNCHANGED <<now, route>> /\ terminal' = terminal /\ receipt' = receipt
    BY DEF ClaimWork, OnlyHead, storeVars
  <2>6. TokenNamesAttempt'
    BY <2>2 DEF TokenNamesAttempt, Token
  <2>7. \A v \in Workers \ {w} : HeadKeeps(v)
    BY <2>2, <2>3, <2>4 DEF HeadKeeps, Token
  <2>8. terminal' \in Outcomes \cup {"none"} /\ receipt' \in Tokens \cup {NoToken} /\ MatchesStop(terminal)'
    BY <2>4, <2>5 DEF ExecutionInv, ExecutionTypeOK, MatchesStop
  <2>9. p \in ({"idle"} \cup Claiming \cup Executing \cup Recovering) \ (Owning \cup {"claim", "terminate"})
        /\ p # "finish"
    BY <2>1 DEF Claiming, Executing, Owning
  <2>10. OwnsHead(w)' => StandsAt(p)'
    BY <2>1, <2>2 DEF OwnsHead, StandsAt
  <2>11. WorkerInv(w)' /\ EntersOwned(w) /\ \E j \in JobType : Become(w, j)
    BY <2>1, <2>4, <2>5, <2>9, <2>10, LeavesFits
  <2>. QED
    BY <2>4, <2>5, <2>6, <2>7, <2>8, <2>11, WorkerMoves
<1>. QED
  BY <1>1, <1>2, <1>3 DEF ClaimWork

-----------------------------------------------------------------------------
(* The environment: the route, a force stop, and time. *)

\* A step that leaves the workers and the stores alone.
LEMMA WorldMoves ==
  ASSUME ExecutionInv, UNCHANGED <<job, storeVars>>,
         now' \in Times, now <= now', updatedAt' <= now',
         route' \in [pc : {"idle", "apply", "done"}, at : Times], route'.at <= now',
         LifecycleInv', TokenNamesAttempt', \A o : MatchesStop(o) => MatchesStop(o)',
         \A v \in Workers : HeadKeeps(v)
  PROVE  ExecutionInv'
<1>1. terminal' = terminal /\ receipt' = receipt /\ job' = job /\ now' \in Nat
  BY TimesAreNat DEF storeVars
<1>2. ExecutionTypeOK'
  BY <1>1 DEF ExecutionInv, ExecutionTypeOK, LifecycleInv
<1>3. AttemptsDisjoint' /\ MatchesStop(terminal)'
  BY <1>1 DEF ExecutionInv, AttemptsDisjoint, MatchesStop
<1>4. \A v \in Workers : WorkerInv(v)'
  BY <1>1, WorkerKept
<1>. QED
  BY <1>2, <1>3, <1>4 DEF ExecutionInv

\* A transition of the route or the host leaves the claim alone, or ends it.
LEMMA OutsideMoves ==
  ASSUME ExecutionInv, NEW at \in Nat, at <= now, TransitionAt(at),
         UNCHANGED <<job, storeVars, now>>,
         route' \in [pc : {"idle", "apply", "done"}, at : Times], route'.at = route.at,
         status' = "claimed" => UNCHANGED <<claim, attemptCount, checkpoint>>
  PROVE  ExecutionInv'
<1>1. HeadMoved(at) /\ LifecycleInv' /\ updatedAt' <= now /\ \A o : MatchesStop(o) => MatchesStop(o)'
  BY HeadMoves
<1>2. now' \in Times /\ now <= now' /\ now' = now /\ route.at <= now /\ attemptCount \in Nat
  BY Numbers DEF ExecutionInv, ExecutionTypeOK
<1>3. TokenNamesAttempt'
  BY <1>1, <1>2 DEF ExecutionInv, TokenNamesAttempt, HeadMoved
<1>4. \A v \in Workers : HeadKeeps(v)
  BY <1>1, OthersKeep
<1>. QED
  BY <1>1, <1>2, <1>3, <1>4, WorldMoves

LEMMA RoutePhases ==
  ASSUME ExecutionInv
  PROVE  /\ route \in [pc : {"idle", "apply", "done"}, at : Times] /\ route.at <= now
         /\ route.at \in Nat /\ now \in Times /\ now \in Nat
  BY TimesAreNat DEF ExecutionInv, ExecutionTypeOK

LEMMA AskCancellationInv == ASSUME ExecutionInv, AskCancellation PROVE ExecutionInv'
<1>1. /\ UNCHANGED <<job, storeVars, now>> /\ KeepHead
      /\ route' = [pc |-> "apply", at |-> now]
  BY DEF AskCancellation
<1>2. /\ now' \in Times /\ now <= now' /\ route'.at <= now'
      /\ route' \in [pc : {"idle", "apply", "done"}, at : Times]
  BY <1>1, RoutePhases
<1>. QED
  BY <1>1, <1>2, HeadSame, WorldMoves

LEMMA ApplyCancellationInv == ASSUME ExecutionInv, ApplyCancellation PROVE ExecutionInv'
<1>1. /\ UNCHANGED <<job, storeVars, now>> /\ route'.at = route.at
      /\ route' \in [pc : {"idle", "apply", "done"}, at : Times]
  BY RoutePhases DEF ApplyCancellation
<1>2. CASE KeepHead
  BY <1>1, <1>2, RoutePhases, HeadSame, WorldMoves
<1>3. CASE RequestCancellation(route.at)
  <2>1. TransitionAt(route.at)
    BY <1>3 DEF TransitionAt
  <2>2. status' = "claimed" => UNCHANGED <<claim, attemptCount, checkpoint>>
    BY <1>3 DEF RequestCancellation, Stop, RetainCancellation
  <2>. QED
    BY <1>1, <2>1, <2>2, RoutePhases, OutsideMoves
<1>. QED
  BY <1>2, <1>3 DEF ApplyCancellation

LEMMA ForceStopInv == ASSUME ExecutionInv, NEW w \in Workers, ForceStop(w) PROVE ExecutionInv'
<1>1. TransitionAt(now) /\ now <= now
  BY RoutePhases DEF ForceStop, TransitionAt
<1>2. status' # "claimed"
  BY DEF ForceStop, ForceShutdown, Stop
<1>3. UNCHANGED <<job, storeVars, now, route>>
  BY DEF ForceStop, storeVars
<1>. QED
  BY <1>1, <1>2, <1>3, RoutePhases, OutsideMoves

LEMMA TickInv == ASSUME ExecutionInv, Tick PROVE ExecutionInv'
<1>1. /\ UNCHANGED <<job, storeVars, route>> /\ KeepHead
      /\ now' = now + 1 /\ now < MaxTime
  BY DEF Tick
<1>2. now' \in Times /\ now <= now' /\ now \in Nat /\ route.at \in Nat /\ updatedAt \in Nat
  BY <1>1, RoutePhases, Numbers, LifecycleAssumption DEF Times, ExecutionInv
<1>3. route'.at <= now' /\ updatedAt' <= now'
  <2>1. updatedAt' <= now /\ route'.at <= now /\ updatedAt' = updatedAt
    BY <1>1, HeadSame, RoutePhases DEF KeepHead, headVars
  <2>. QED
    BY <1>1, <1>2, <2>1
<1>4. route' \in [pc : {"idle", "apply", "done"}, at : Times]
  BY <1>1, RoutePhases
<1>. QED
  BY <1>1, <1>2, <1>3, <1>4, HeadSame, WorldMoves

-----------------------------------------------------------------------------
(* The theorems. *)

LEMMA ExecutionInvInit == ASSUME ExecutionInit PROVE ExecutionInv
<1>1. LifecycleInv /\ headRevision = 0 /\ status = "pending" /\ updatedAt = 0 /\ stop = NoStop
  BY InvInit DEF ExecutionInit, LifecycleInit
<1>2. /\ now = 0 /\ terminal = "none" /\ receipt = NoToken /\ route = [pc |-> "idle", at |-> 0]
      /\ job = [w \in Workers |-> IdleJob]
  BY DEF ExecutionInit
<1>3. 0 \in Times
  BY LifecycleAssumption DEF Times
<1>4. job \in [Workers -> JobType]
  BY <1>2, IdleTyped
<1>5. ExecutionTypeOK
  BY <1>1, <1>2, <1>3, <1>4 DEF ExecutionTypeOK, LifecycleInv, JobType
<1>6. TokenNamesAttempt /\ MatchesStop(terminal) /\ updatedAt <= now /\ route.at <= now
  BY <1>1, <1>2 DEF TokenNamesAttempt, MatchesStop
<1>7. AttemptsDisjoint
  BY <1>2 DEF AttemptsDisjoint, Owning, IdleJob
<1>8. \A w \in Workers : WorkerInv(w)
  BY <1>1, <1>2 DEF WorkerInv, IdleJob, NotAhead, At, ClaimIsNew, AttemptWasTaken, Owning,
                    CheckpointIsKnown, StandsAt, OwnsHead, CheckIsFresh, ReportIsTrue
<1>. QED
  BY <1>1, <1>5, <1>6, <1>7, <1>8 DEF ExecutionInv

LEMMA ExecutionInvStep == ASSUME ExecutionInv, [ExecutionNext]_vars PROVE ExecutionInv'
<1>1. ASSUME NEW w \in Workers, WorkerStep(w) PROVE ExecutionInv'
  BY <1>1, DiscoverInv, ReadHeadInv, ClaimWorkInv, ReconcileClaimInv, ExecuteInv, WorkflowHeadInv,
     PassHandoffInv, FinalizeStoppedInv, PassBeforeRenderInv, ReadSteps, CancelRenderingInv,
     CheckBeforePersistInv, CommitProjectionInv, CommitsInv, ConcludeInv, AfterBlockedInv,
     RecheckInv, ReleaseInv DEF WorkerStep
<1>2. CASE UNCHANGED vars
  <2>1. UNCHANGED <<job, storeVars>> /\ now' = now /\ route' = route /\ KeepHead
    BY <1>2 DEF vars, KeepHead
  <2>2. now' \in Times /\ now <= now' /\ route'.at <= now'
        /\ route' \in [pc : {"idle", "apply", "done"}, at : Times]
    BY <2>1, RoutePhases
  <2>. QED
    BY <2>1, <2>2, HeadSame, WorldMoves
<1>. QED
  BY <1>1, <1>2, CrashInv, ForceStopInv, AskCancellationInv, ApplyCancellationInv, TickInv
     DEF ExecutionNext

\* The inductive invariant holds of every reachable state of the execution.
THEOREM ExecutionInvariant == ExecutionSpec => []ExecutionInv
  BY ExecutionInvInit, ExecutionInvStep, PTL DEF ExecutionSpec

\* The workers, the stores, the route and the head keep their types, whatever
\* the number of workers, the attempt budget and the durations.
THEOREM ExecutionTypeCorrect == ExecutionSpec => []ExecutionTypeOK
<1>1. ExecutionInv => ExecutionTypeOK
  BY DEF ExecutionInv
<1>. QED
  BY <1>1, ExecutionInvariant, PTL

\* No two hosts work in one attempt of an export, whatever claims went
\* unanswered, expired or were taken over (runFlowDocBackendPdfExportLocalDueWorkEntryV1).
THEOREM ExecutionAttemptsDisjoint == ExecutionSpec => []AttemptsDisjoint
<1>1. ExecutionInv => AttemptsDisjoint
  BY DEF ExecutionInv
<1>. QED
  BY <1>1, ExecutionInvariant, PTL

\* A host that still owns the claim finds the head at the checkpoint it believes
\* it to be at, so that no checkpoint is passed twice or skipped
\* (runFlowDocBackendPdfExportRendererAttemptV1).
THEOREM ExecutionOwnerKnowsCheckpoint == ExecutionSpec => []OwnerKnowsCheckpoint
<1>1. ExecutionInv => OwnerKnowsCheckpoint
  BY DEF ExecutionInv, WorkerInv, CheckpointIsKnown, StandsAt, OwnerKnowsCheckpoint
<1>. QED
  BY <1>1, ExecutionInvariant, PTL

\* An artifact is persisted only after a check of its own attempt that no
\* cancellation preceded (persistFlowDocBackendPdfExportArtifactV1).
THEOREM ExecutionCommitStandsOnCheck == ExecutionSpec => []CommitStandsOnCheck
<1>1. ExecutionInv => CommitStandsOnCheck
  BY DEF ExecutionInv, WorkerInv, CheckIsFresh, CommitStandsOnCheck
<1>. QED
  BY <1>1, ExecutionInvariant, PTL

\* The terminal completion that a host commits long after it read the head says
\* what the head says (lifecycleFailure in pdfExportWorkflow.ts).
THEOREM ExecutionTerminalMatchesStop == ExecutionSpec => []TerminalMatchesStop
<1>1. ExecutionInv => TerminalMatchesStop
  BY DEF ExecutionInv, MatchesStop, TerminalMatchesStop
<1>. QED
  BY <1>1, ExecutionInvariant, PTL

-----------------------------------------------------------------------------
(* The promise: every step of the execution is a step of PdfExportPromise or   *)
(* leaves what the client sees as it is.                                       *)

\* What a host reports is true of what the client sees.
LEMMA OutcomeIsTrue ==
  ASSUME ExecutionInv, NEW o, MatchesStop(o)
  PROVE  /\ o = "cancelled" => Cancelled
         /\ o = "deadline-exceeded" => now >= Deadline
<1>1. stop.reason \in CancelReasons => Cancelled
  BY DEF ExecutionInv, LifecycleInv, HeadParses, StopFits, NoStop, CancelReasons
<1>2. stop.reason = "deadline-exceeded" => Late(updatedAt)
  <2>1. stop.reason = "deadline-exceeded" => status = "stopped"
    BY DEF ExecutionInv, LifecycleInv, LifecycleTypeOK, Statuses, HeadParses, StatusFits, NoStop
  <2>. QED
    BY <2>1 DEF ExecutionInv, LifecycleInv, StopReasonHolds
<1>3. Late(updatedAt) => now >= Deadline
  BY Numbers, LifecycleAssumption DEF Late, ExecutionInv
<1>. QED
  BY <1>1, <1>2, <1>3 DEF MatchesStop

\* Only the route asks for a cancellation.
LEMMA WorkersDoNotCancel ==
  ASSUME NEW token, NEW at,
         \/ \E expiresAt : Claim(token, expiresAt, at)
         \/ \E next : PassCheckpoint(token, next, at)
         \/ \E retryAt : ReleaseClaim(token, retryAt, at)
         \/ CheckCheckpoint(token, at)
         \/ EnforceDeadline(at)
         \/ ForceShutdown(at)
  PROVE  UNCHANGED cancelledAt
  BY DEF Claim, TakeClaim, PassCheckpoint, ReleaseClaim, CheckCheckpoint, EnforceDeadline,
         ForceShutdown, StopsFirst

Unseen == UNCHANGED <<terminal, receipt, cancelledAt, now>>

LEMMA UnseenStutters == ASSUME Unseen PROVE UNCHANGED Promise!promiseVars
  BY DEF Unseen, Promise!promiseVars, Cancelled

LEMMA HeadStepsUnseen ==
  ASSUME NEW w \in Workers,
         \/ ClaimWork(w) \/ PassHandoff(w) \/ PassBeforeRender(w) \/ CancelRendering(w)
         \/ CheckBeforePersist(w) \/ Release(w)
  PROVE  Unseen
<1>1. OnlyHead => UNCHANGED <<terminal, receipt, now>>
  BY DEF OnlyHead, storeVars
<1>2. KeepHead => UNCHANGED cancelledAt
  BY DEF KeepHead, headVars
<1>. USE <1>1, <1>2, WorkersDoNotCancel DEF Unseen
<1>3. ClaimWork(w) => Unseen
  BY DEF ClaimWork, ClaimTransition
<1>4. PassHandoff(w) => Unseen
  BY DEF PassHandoff
<1>5. PassBeforeRender(w) => Unseen
  BY DEF PassBeforeRender
<1>6. CheckTransition(w) => UNCHANGED cancelledAt
  BY DEF CheckTransition
<1>7. CancelRendering(w) => Unseen
  BY <1>6 DEF CancelRendering
<1>8. CheckBeforePersist(w) => Unseen
  BY <1>6 DEF CheckBeforePersist
<1>9. Release(w) => Unseen
  BY DEF Release
<1>. QED
  BY <1>3, <1>4, <1>5, <1>7, <1>8, <1>9

LEMMA ReadStepsUnseen ==
  ASSUME NEW w \in Workers,
         \/ Discover(w) \/ ReadHead(w) \/ ReconcileClaim(w) \/ Execute(w) \/ WorkflowHead(w)
         \/ ReadReceipt(w) \/ FinalizeStopped(w) \/ Preflight(w) \/ StopRendering(w)
         \/ EndRendering(w) \/ InspectHead(w) \/ Conclude(w) \/ AfterBlocked(w) \/ Recheck(w)
         \/ Crash(w)
  PROVE  Unseen
<1>1. KeepHead /\ UNCHANGED <<storeVars, now>>
  BY DEF Discover, ReadHead, ReconcileClaim, Execute, WorkflowHead, ReadReceipt, FinalizeStopped,
         Preflight, StopRendering, EndRendering, InspectHead, Conclude, AfterBlocked, Recheck,
         Crash, OnlyJob, OnlyHead
<1>. QED
  BY <1>1 DEF Unseen, KeepHead, headVars, storeVars

LEMMA RetainStep ==
  ASSUME ExecutionInv, NEW w \in Workers, CommitProjection(w)
  PROVE  Unseen \/ Promise!Retain
<1>1. UNCHANGED <<terminal, now, cancelledAt>> /\ Token(w) # NoToken
  BY OwningToken DEF CommitProjection, Owning, KeepHead, headVars
<1>. QED
  BY <1>1 DEF CommitProjection, Unseen, Promise!Retain, Cancelled

LEMMA EndStep ==
  ASSUME ExecutionInv, NEW w \in Workers, NEW o \in Outcomes, MatchesStop(o), CommitTerminal(w, o),
         o = "completed" => receipt # NoToken
  PROVE  Unseen \/ Promise!End(o)
<1>1. UNCHANGED <<receipt, now, cancelledAt>>
  BY DEF CommitTerminal, KeepHead, headVars
<1>. QED
  BY <1>1, OutcomeIsTrue DEF CommitTerminal, Unseen, Promise!End, Cancelled

LEMMA PromiseStep ==
  ASSUME ExecutionInv, [ExecutionNext]_vars
  PROVE  [Promise!PromiseNext]_(Promise!promiseVars)
<1>1. CASE UNCHANGED vars
  BY <1>1, UnseenStutters DEF vars, headVars, storeVars, Unseen
<1>2. ASSUME NEW w \in Workers, CommitProjection(w) PROVE Unseen \/ Promise!PromiseNext
  BY <1>2, RetainStep DEF Promise!PromiseNext
<1>3. ASSUME NEW w \in Workers, CommitCompleted(w) PROVE Unseen \/ Promise!PromiseNext
  <2>1. receipt # NoToken /\ MatchesStop("completed") /\ "completed" \in Outcomes
    BY <1>3 DEF CommitCompleted, ExecutionInv, WorkerInv, ReportIsTrue, MatchesStop, Outcomes
  <2>. QED
    BY <1>3, <2>1, EndStep DEF CommitCompleted, Promise!PromiseNext, Outcomes
<1>4. ASSUME NEW w \in Workers, CommitStopped(w) PROVE Unseen \/ Promise!PromiseNext
  <2>1. /\ job[w].outcome \in Outcomes /\ MatchesStop(job[w].outcome)
        /\ job[w].outcome # "completed"
    BY <1>4, Numbers DEF CommitStopped, JobType, ExecutionInv, WorkerInv, ReportIsTrue
  <2>. QED
    BY <1>4, <2>1, EndStep DEF CommitStopped, Promise!PromiseNext, Outcomes
<1>5. ASSUME NEW w \in Workers, WorkerStep(w) \/ Crash(w) PROVE Unseen \/ Promise!PromiseNext
  BY <1>2, <1>3, <1>4, <1>5, HeadStepsUnseen, ReadStepsUnseen DEF WorkerStep
<1>6. ASSUME NEW w \in Workers, ForceStop(w) PROVE Unseen
  BY <1>6, WorkersDoNotCancel DEF ForceStop, Unseen, storeVars
<1>7. AskCancellation => Unseen
  BY DEF AskCancellation, KeepHead, headVars, storeVars, Unseen
<1>8. ApplyCancellation => Unseen \/ Promise!PromiseNext
  <2>1. CASE RequestCancellation(route.at) /\ UNCHANGED <<storeVars, now>>
    <3>1. ~Cancelled /\ Cancelled'
      BY <2>1, RoutePhases DEF RequestCancellation, Cancelled, NoTime
    <3>. QED
      BY <2>1, <3>1 DEF Promise!PromiseNext, Promise!Ask, Cancelled, storeVars
  <2>. QED
    BY <2>1 DEF ApplyCancellation, KeepHead, headVars, storeVars, Unseen
<1>9. Tick => Promise!PromiseNext
  BY DEF Tick, KeepHead, headVars, storeVars, Promise!PromiseNext, Promise!Pass, Cancelled
<1>. QED
  BY <1>1, <1>5, <1>6, <1>7, <1>8, <1>9, UnseenStutters DEF ExecutionNext

\* Whatever hosts, routes and failures do, the client of an export sees at most
\* one artifact and one outcome, and an outcome that is true: completed only with
\* an artifact, cancelled only after a request, deadline-exceeded only past it.
THEOREM ExecutionKeepsPromise == ExecutionSpec => KeepsPromise
<1>1. ExecutionInit => Promise!PromiseInit
  BY DEF ExecutionInit, LifecycleInit, Promise!PromiseInit, Cancelled
<1>2. ExecutionInv /\ [ExecutionNext]_vars => [Promise!PromiseNext]_(Promise!promiseVars)
  BY PromiseStep
<1>. QED
  BY <1>1, <1>2, ExecutionInvariant, PTL DEF ExecutionSpec, KeepsPromise, Promise!PromiseSpec

-----------------------------------------------------------------------------
(* The head inside the execution. *)

\* Every step of workers, route and host changes the head by one transition of
\* the lifecycle, or not at all.
LEMMA HeadStep == ASSUME ExecutionInv, [ExecutionNext]_vars PROVE [Transition]_headVars
<1>1. KeepHead => UNCHANGED headVars
  BY DEF KeepHead
<1>2. ASSUME NEW w \in Workers, WorkerStep(w) PROVE KeepHead \/ TransitionAt(At(w))
  <2>. USE OwnerMovesWith DEF OwnerMoves, Checkpoints
  <2>1. At(w) + RetryDelay \in DateOrNull
    BY ExecutionAssumption, Numbers DEF At, DateOrNull, ExecutionInv
  <2>2. ClaimWork(w) => KeepHead \/ TransitionAt(At(w))
    BY ClaimMoves DEF ClaimWork
  <2>3. PassHandoff(w) => KeepHead \/ TransitionAt(At(w))
    BY DEF PassHandoff
  <2>4. PassBeforeRender(w) => KeepHead \/ TransitionAt(At(w))
    BY DEF PassBeforeRender
  <2>5. CancelRendering(w) \/ CheckBeforePersist(w) => KeepHead \/ TransitionAt(At(w))
    BY CheckMoves DEF CancelRendering, CheckBeforePersist
  <2>6. Release(w) => KeepHead \/ TransitionAt(At(w))
    BY <2>1 DEF Release
  <2>7. CommitProjection(w) \/ CommitCompleted(w) \/ CommitStopped(w) => KeepHead
    BY DEF CommitProjection, CommitCompleted, CommitStopped, CommitTerminal
  <2>8. \/ Discover(w) \/ ReadHead(w) \/ ReconcileClaim(w) \/ Execute(w) \/ WorkflowHead(w)
        \/ ReadReceipt(w) \/ FinalizeStopped(w) \/ Preflight(w) \/ StopRendering(w)
        \/ EndRendering(w) \/ InspectHead(w) \/ Conclude(w) \/ AfterBlocked(w) \/ Recheck(w)
        => KeepHead
    BY DEF Discover, ReadHead, ReconcileClaim, Execute, WorkflowHead, ReadReceipt,
           FinalizeStopped, Preflight, StopRendering, EndRendering, InspectHead, Conclude,
           AfterBlocked, Recheck, OnlyJob
  <2>. QED
    BY <1>2, <2>2, <2>3, <2>4, <2>5, <2>6, <2>7, <2>8 DEF WorkerStep
<1>3. \A w \in Workers : At(w) \in Nat
  BY Numbers DEF At, ExecutionInv
<1>4. ASSUME NEW w \in Workers, ForceStop(w) PROVE TransitionAt(now) /\ now \in Nat
  BY <1>4, RoutePhases DEF ForceStop, TransitionAt
<1>5. ApplyCancellation => KeepHead \/ (TransitionAt(route.at) /\ route.at \in Nat)
  BY RoutePhases DEF ApplyCancellation, TransitionAt
<1>6. (\E w \in Workers : Crash(w)) \/ AskCancellation \/ Tick => KeepHead
  BY DEF Crash, AskCancellation, Tick
<1>7. UNCHANGED vars => KeepHead
  BY DEF vars, KeepHead
<1>. QED
  BY <1>1, <1>2, <1>3, <1>4, <1>5, <1>6, <1>7 DEF ExecutionNext, Transition

\* What was proved of the head alone holds of the head that workers, route and
\* host share: it parses, a cancelled export only stops, contention leaves a live
\* claim alone, every attempt starts over, and every retry time is honoured.
THEOREM ExecutionHeadKeepsContract ==
  ExecutionSpec => /\ []LifecycleInv
                   /\ CancelledOnlyStops
                   /\ ClaimOutlivesContention
                   /\ AttemptStartsOver
                   /\ BackoffHonoured
<1>1. ExecutionInit => LifecycleInit
  BY DEF ExecutionInit
<1>2. ExecutionInv /\ [ExecutionNext]_vars => [Transition]_headVars
  BY HeadStep
<1>3. ExecutionSpec => TransitionSpec
  BY <1>1, <1>2, ExecutionInvariant, PTL DEF ExecutionSpec, TransitionSpec
<1>. QED
  BY <1>3, TransitionsKeepContract

=============================================================================
