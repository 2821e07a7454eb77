------------------------- MODULE PdfExportLifecycle -------------------------
(***************************************************************************)
(* The lifecycle head of one PDF export operation                          *)
(* (src/pdfExport/pdfExportLifecycle.ts): the record that every worker,    *)
(* route and shutdown handler contends for.  The variables are the head's  *)
(* mutable fields; there is one action per transition kind of              *)
(* applyFlowDocBackendPdfExportLifecycleTransitionV1, with its guards in   *)
(* the order in which the code tries them.                                 *)
(*                                                                         *)
(* Times are the transitionAt of each request, not a shared clock: every   *)
(* caller has a clock of its own, and the head only refuses to go back in  *)
(* time.  A null date is NoTime; a null claim, release, check or stop is   *)
(* NoClaim, NoRelease, NoCheck, NoStop.  Identities that no transition     *)
(* tells apart (scope, fingerprints, worker ids) are left out.             *)
(***************************************************************************)
EXTENDS Integers

CONSTANTS
  Tokens,        \* claim tokens a worker may present
  NoToken,       \* the token of a null claim
  MaxAttempts,   \* admission.lifecycle.maxAttempts
  Deadline,      \* deadlineAt; the operation is accepted at time 0
  MaxClaim,      \* FLOWDOC_BACKEND_PDF_EXPORT_MAX_CLAIM_DURATION_MS
  MaxTime,       \* bound: the latest time a request carries
  MaxRevision    \* bound: revision up to which checks are repeated

ASSUME LifecycleAssumption ==
  /\ NoToken \notin Tokens
  /\ MaxAttempts \in Nat \ {0}
  /\ Deadline \in Nat \ {0}
  /\ MaxClaim \in Nat \ {0}
  /\ MaxTime \in Nat
  /\ MaxRevision \in Nat

VARIABLES
  headRevision, status, checkpoint, attemptCount, retryAfter, claim,
  cancelledAt,   \* cancellation.requestedAt
  lastRelease, checkpointCheck, stop, updatedAt

headVars == <<headRevision, status, checkpoint, attemptCount, retryAfter, claim,
              cancelledAt, lastRelease, checkpointCheck, stop, updatedAt>>

NoTime == -1
Times == 0 .. MaxTime

Statuses == {"pending", "claimed", "stopped"}
Checkpoints == {"before-handoff", "before-render", "before-persist"}

\* cancellationReason: the reason names the checkpoint the export stopped at.
CancellationReason(c) ==
  CASE c = "before-handoff" -> "cancelled-before-handoff"
    [] c = "before-render"  -> "cancelled-before-render"
    [] c = "before-persist" -> "cancelled-before-persist"

CancelReasons ==
  {"cancelled-before-handoff", "cancelled-before-render", "cancelled-before-persist"}
StopReasons == CancelReasons \cup
  {"deadline-exceeded", "attempts-exhausted", "shutdown-forced"}

NoClaim == [token |-> NoToken, attempt |-> 0, claimedAt |-> NoTime, expiresAt |-> NoTime]
NoRelease == [token |-> NoToken, attempt |-> 0, releasedAt |-> NoTime, retryAfter |-> NoTime]
NoCheck == [checkpoint |-> "before-handoff", token |-> NoToken, checkedAt |-> NoTime]
NoStop == [reason |-> "none", checkpoint |-> "before-handoff", stoppedAt |-> NoTime]

LifecycleInit ==
  /\ headRevision = 0
  /\ status = "pending"
  /\ checkpoint = "before-handoff"
  /\ attemptCount = 0
  /\ retryAfter = NoTime
  /\ claim = NoClaim
  /\ cancelledAt = NoTime
  /\ lastRelease = NoRelease
  /\ checkpointCheck = NoCheck
  /\ stop = NoStop
  /\ updatedAt = 0

-----------------------------------------------------------------------------
(* Conditions the transitions test. *)

Late(at) == at >= Deadline
Cancelled == cancelledAt # NoTime

\* Mutation: one attempt more than the budget.
ExhaustedLate == attemptCount > MaxAttempts

Exhausted == attemptCount >= MaxAttempts

\* Mutation: a claim ends one tick before its expiry.
LiveClaimShort(at) == status = "claimed" /\ at + 1 < claim.expiresAt

LiveClaim(at) == status = "claimed" /\ at < claim.expiresAt

Deferred(at) == status = "pending" /\ at < retryAfter

\* An owner transition presents the claim's token before the claim expires.
Owns(token, at) == LiveClaim(at) /\ claim.token = token

\* A stale time and a stopped head block every kind.
Open(at) == updatedAt <= at /\ status # "stopped"

\* Mutation: the cancellation is not looked at.
MayContinueCancelled(at) == ~Late(at)

MayContinue(at) == ~Late(at) /\ ~Cancelled

ClaimWindow(expiresAt, at) ==
  /\ at < expiresAt
  /\ expiresAt <= Deadline
  /\ expiresAt - at <= MaxClaim

RetryWindow(retryAt, at) ==
  retryAt = NoTime \/ (at <= retryAt /\ retryAt < Deadline)

FollowedBy ==
  {<<"before-handoff", "before-render">>, <<"before-render", "before-persist">>}

-----------------------------------------------------------------------------
(* Effects the transitions share. *)

Advance(at) ==
  /\ headRevision' = headRevision + 1
  /\ updatedAt' = at

\* stopFacts
Stop(reason, at) ==
  /\ Advance(at)
  /\ status' = "stopped"
  /\ stop' = [reason |-> reason, checkpoint |-> checkpoint, stoppedAt |-> at]
  /\ retryAfter' = NoTime
  /\ claim' = NoClaim
  /\ checkpointCheck' = NoCheck
  /\ UNCHANGED <<checkpoint, attemptCount>>

\* A request to go on stops the export instead when it comes too late or after
\* a cancellation.
StopsFirst(at) ==
  /\ \/ Late(at) /\ Stop("deadline-exceeded", at)
     \/ ~Late(at) /\ Cancelled /\ Stop(CancellationReason(checkpoint), at)
  /\ UNCHANGED <<cancelledAt, lastRelease>>

ReleaseFacts(retryAt, at) ==
  [token |-> claim.token, attempt |-> claim.attempt,
   releasedAt |-> at, retryAfter |-> retryAt]

-----------------------------------------------------------------------------
(* The transitions. *)

ForceShutdown(at) ==
  /\ Open(at)
  /\ Stop("shutdown-forced", at)
  /\ UNCHANGED <<cancelledAt, lastRelease>>

EnforceDeadline(at) ==
  /\ Open(at)
  /\ Late(at)
  /\ Stop("deadline-exceeded", at)
  /\ UNCHANGED <<cancelledAt, lastRelease>>

RetainCancellation(at) ==
  /\ Advance(at)
  /\ checkpointCheck' = NoCheck
  /\ UNCHANGED <<status, checkpoint, attemptCount, retryAfter, claim, stop>>

\* A pending export stops at once; a claimed one only retains the request, and
\* the next transition of its owner stops it.
RequestCancellation(at) ==
  /\ Open(at)
  /\ ~Cancelled
  /\ cancelledAt' = at
  /\ UNCHANGED lastRelease
  /\ \/ /\ Late(at)
        /\ Stop("deadline-exceeded", at)
     \/ /\ ~Late(at)
        /\ status = "pending"
        /\ Stop(CancellationReason(checkpoint), at)
     \/ /\ ~Late(at)
        /\ status = "claimed"
        /\ RetainCancellation(at)

\* Mutation: a takeover inherits the checkpoint of the expired attempt.
StartingCheckpointKept == checkpoint

\* A claim that takes over an expired one starts again at the first checkpoint;
\* a claim of a pending head keeps the checkpoint it finds.
StartingCheckpoint == IF status = "claimed" THEN "before-handoff" ELSE checkpoint

TakeClaim(token, expiresAt, at) ==
  /\ Advance(at)
  /\ status' = "claimed"
  /\ checkpoint' = StartingCheckpoint
  /\ attemptCount' = attemptCount + 1
  /\ retryAfter' = NoTime
  /\ claim' = [token |-> token, attempt |-> attemptCount + 1,
               claimedAt |-> at, expiresAt |-> expiresAt]
  /\ checkpointCheck' = NoCheck
  /\ UNCHANGED <<cancelledAt, lastRelease, stop>>

Claim(token, expiresAt, at) ==
  /\ Open(at)
  /\ \/ StopsFirst(at)
     \/ /\ MayContinue(at)
        /\ ~LiveClaim(at)
        /\ ~Deferred(at)
        /\ \/ /\ Exhausted
              /\ Stop("attempts-exhausted", at)
              /\ UNCHANGED <<cancelledAt, lastRelease>>
           \/ /\ ~Exhausted
              /\ ClaimWindow(expiresAt, at)
              /\ TakeClaim(token, expiresAt, at)

PassCheckpoint(token, next, at) ==
  /\ Open(at)
  /\ Owns(token, at)
  /\ \/ StopsFirst(at)
     \/ /\ MayContinue(at)
        /\ <<checkpoint, next>> \in FollowedBy
        /\ Advance(at)
        /\ checkpoint' = next
        /\ checkpointCheck' = NoCheck
        /\ UNCHANGED <<status, attemptCount, retryAfter, claim, cancelledAt,
                       lastRelease, stop>>

\* Back to the queue, unless the attempt was the last of the budget.
ReleaseClaim(token, retryAt, at) ==
  /\ Open(at)
  /\ Owns(token, at)
  /\ \/ StopsFirst(at)
     \/ /\ MayContinue(at)
        /\ RetryWindow(retryAt, at)
        /\ lastRelease' = ReleaseFacts(retryAt, at)
        /\ UNCHANGED cancelledAt
        /\ \/ /\ Exhausted
              /\ Stop("attempts-exhausted", at)
           \/ /\ ~Exhausted
              /\ Advance(at)
              /\ status' = "pending"
              /\ checkpoint' = "before-handoff"
              /\ retryAfter' = retryAt
              /\ claim' = NoClaim
              /\ checkpointCheck' = NoCheck
              /\ UNCHANGED <<attemptCount, stop>>

CheckCheckpoint(token, at) ==
  /\ Open(at)
  /\ Owns(token, at)
  /\ \/ StopsFirst(at)
     \/ /\ MayContinue(at)
        /\ headRevision < MaxRevision
        /\ Advance(at)
        /\ checkpointCheck' = [checkpoint |-> checkpoint, token |-> claim.token,
                               checkedAt |-> at]
        /\ UNCHANGED <<status, checkpoint, attemptCount, retryAfter, claim,
                       cancelledAt, lastRelease, stop>>

LifecycleNext ==
  \E at \in Times :
    \/ ForceShutdown(at)
    \/ EnforceDeadline(at)
    \/ RequestCancellation(at)
    \/ \E token \in Tokens :
         \/ \E expiresAt \in Times : Claim(token, expiresAt, at)
         \/ \E next \in Checkpoints : PassCheckpoint(token, next, at)
         \/ \E retryAt \in Times \cup {NoTime} : ReleaseClaim(token, retryAt, at)
         \/ CheckCheckpoint(token, at)

LifecycleSpec == LifecycleInit /\ [][LifecycleNext]_headVars

-----------------------------------------------------------------------------
(* Properties. *)

DateOrNull == Nat \cup {NoTime}
TokenOrNull == Tokens \cup {NoToken}
ClaimType == [token : TokenOrNull, attempt : Nat, claimedAt : DateOrNull, expiresAt : DateOrNull]
ReleaseType == [token : TokenOrNull, attempt : Nat, releasedAt : DateOrNull, retryAfter : DateOrNull]
CheckType == [checkpoint : Checkpoints, token : TokenOrNull, checkedAt : DateOrNull]
StopType == [reason : StopReasons \cup {"none"}, checkpoint : Checkpoints, stoppedAt : DateOrNull]

\* Type invariant of the lifecycle head (the FlowDocBackendPdfExportLifecycleHeadV1 fields).
LifecycleTypeOK ==
  /\ headRevision \in Nat
  /\ status \in Statuses
  /\ checkpoint \in Checkpoints
  /\ attemptCount \in Nat
  /\ retryAfter \in DateOrNull
  /\ claim \in ClaimType
  /\ cancelledAt \in DateOrNull
  /\ lastRelease \in ReleaseType
  /\ checkpointCheck \in CheckType
  /\ stop \in StopType
  /\ updatedAt \in Nat

StatusFits ==
  /\ status = "pending" => claim = NoClaim /\ checkpointCheck = NoCheck /\ stop = NoStop
  /\ status = "claimed" => claim # NoClaim /\ stop = NoStop /\ retryAfter = NoTime
  /\ status = "stopped" =>
       claim = NoClaim /\ checkpointCheck = NoCheck /\ stop # NoStop /\ retryAfter = NoTime

ClaimFits ==
  claim # NoClaim =>
    /\ claim.attempt = attemptCount /\ 1 <= claim.attempt
    /\ 0 <= claim.claimedAt /\ claim.claimedAt <= updatedAt
    /\ ClaimWindow(claim.expiresAt, claim.claimedAt)

ReleaseFits ==
  lastRelease # NoRelease =>
    /\ 1 <= lastRelease.attempt /\ lastRelease.attempt <= attemptCount
    /\ lastRelease.releasedAt <= updatedAt
    /\ RetryWindow(lastRelease.retryAfter, lastRelease.releasedAt)

CheckFits ==
  checkpointCheck # NoCheck =>
    /\ claim # NoClaim
    /\ checkpointCheck =
         [checkpoint |-> checkpoint, token |-> claim.token, checkedAt |-> updatedAt]

StopFits ==
  stop # NoStop =>
    /\ stop.checkpoint = checkpoint
    /\ stop.stoppedAt = updatedAt
    /\ stop.reason \in CancelReasons =>
         stop.reason = CancellationReason(stop.checkpoint) /\ Cancelled

\* Every head a transition writes satisfies the parser that every later reader
\* and transition applies to it (parseFlowDocBackendPdfExportLifecycleHeadV1):
\* otherwise the stored export could be claimed, cancelled or stopped by nobody.
HeadParses ==
  /\ attemptCount <= MaxAttempts
  /\ cancelledAt <= updatedAt
  /\ StatusFits
  /\ ClaimFits
  /\ ReleaseFits
  /\ CheckFits
  /\ StopFits

\* The stop reason of applyFlowDocBackendPdfExportLifecycleTransitionV1 is the
\* truth: the whole attempt budget was used, the deadline had passed, or a
\* cancellation was retained; and no cancellation or exhausted budget is
\* reported of an export that was stopped after its deadline.
StopReasonHolds ==
  status = "stopped" =>
    /\ stop.reason = "attempts-exhausted" =>
         attemptCount = MaxAttempts /\ ~Late(updatedAt) /\ ~Cancelled
    /\ stop.reason = "deadline-exceeded" => Late(updatedAt)
    /\ stop.reason \in CancelReasons => Cancelled /\ ~Late(updatedAt)

\* The checkpoint check is what artifact persistence relies on: while it stands,
\* no cancellation is retained.
CheckExcludesCancellation == checkpointCheck # NoCheck => ~Cancelled

\* Work returns to the queue only by the release of its latest attempt, with
\* that release's retry time, and always at the first checkpoint, although the
\* claim transition itself does not reset the checkpoint of a pending head.
PendingOnlyByRelease ==
  status = "pending" =>
    /\ checkpoint = "before-handoff"
    /\ lastRelease.attempt = attemptCount
    /\ lastRelease.retryAfter = retryAfter

\* The inductive invariant: the head parses, its stop is justified, and the two
\* facts about checks and releases that the argument for both needs.
LifecycleInv ==
  /\ LifecycleTypeOK
  /\ HeadParses
  /\ StopReasonHolds
  /\ CheckExcludesCancellation
  /\ PendingOnlyByRelease

\* A cancelled export does nothing more but stop: no transition after the
\* request claims, passes, checks or releases it.
CancelledOnlyStops ==
  [][Cancelled => status' = "stopped" /\ cancelledAt' = cancelledAt]_headVars

\* A claim changes hands only at or after its expiry: contention, releases and
\* repeated claims never take a live claim from its owner.
ClaimOutlivesContention ==
  [][status = "claimed" /\ status' = "claimed" /\ claim' # claim
       => claim.expiresAt <= updatedAt']_headVars

\* The attempt budget is spent one claim at a time, and every attempt starts
\* over at the first checkpoint: none inherits the progress of another.
AttemptStartsOver ==
  [][attemptCount' # attemptCount =>
       /\ attemptCount' = attemptCount + 1
       /\ status' = "claimed"
       /\ checkpoint' = "before-handoff"
       /\ checkpointCheck' = NoCheck]_headVars

\* A released export is not claimed before the retry time of its release.
BackoffHonoured ==
  [][status = "pending" /\ status' = "claimed"
       => lastRelease.retryAfter <= claim'.claimedAt]_headVars
=============================================================================
