----------------------- MODULE ArtifactJobExecution -----------------------
(***************************************************************************)
(* One artifact job on the file JSON storage: the manifest file, the job   *)
(* file and the byte files under one root directory, and the calls that    *)
(* write them.  A run executes the whole job (artifactJobExecution.ts); a  *)
(* request of the storage route only creates the two records               *)
(* (storageRouteBinding.ts).  A write of a record reads the file, has the  *)
(* core evaluate the request against it and then calls writeFile, which    *)
(* first empties the file: nothing holds the file across these steps, and  *)
(* a crash between the last two leaves a file that does not parse.         *)
(***************************************************************************)
EXTENDS Naturals, FiniteSets

CONSTANTS
  Callers,      \* the asynchronous calls a process can have under way
  RequestKeys,  \* the idempotency keys route clients send
  Digests,      \* the SHA-256 values of what the injected renderer may produce
  NoRecord,     \* ENOENT: there is no such file
  Torn,         \* a file with content that is not one whole record
  MaxInFlight,  \* bound on the calls under way at once
  MaxCalls,     \* bound on the calls ever started
  MaxFaults     \* bound on I/O errors, renderer failures and crashes

ASSUME ArtifactJobAssumption ==
  /\ MaxInFlight \in Nat \ {0} /\ MaxCalls \in Nat /\ MaxFaults \in Nat
  /\ NoRecord # Torn

VARIABLES
  files,    \* what the "manifest" file and the "job" file hold
  bytes,    \* what the byte file of each digest holds
  calls,    \* each caller's call, NoCall between calls
  answers,  \* the answers given so far
  started,  \* calls started
  faults    \* faults so far

vars == <<files, bytes, calls, answers, started, faults>>

NoDigest == "no digest"
NoCall == [stage |-> "idle"]
RunKeys == {"planned", "queued", "rendering", "rendered", "failed"}

Record == [status : {"planned", "queued", "rendering", "rendered", "failed"},
           digest : Digests \cup {NoDigest}, revision : 0..4,
           key : RunKeys \cup RequestKeys]

\* A missing and a torn file are told from every record; the keys of requests,
\* which end in ":manifest" and ":job", are none of the fixed texts of a run.
ASSUME ArtifactRecordAssumption ==
  /\ NoRecord \notin Record /\ Torn \notin Record /\ NoDigest \notin Digests
  /\ RequestKeys \cap (RunKeys \cup {"run"}) = {}

\* The record files of the two kinds and the bytes, before any call.
Init ==
  /\ files = [f \in {"manifest", "job"} |-> NoRecord]
  /\ bytes = [d \in Digests |-> "missing"]
  /\ calls = [c \in Callers |-> NoCall]
  /\ answers = {} /\ started = 0 /\ faults = 0

Answer(c, said) ==
  /\ answers' = answers \cup {said}
  /\ calls' = [calls EXCEPT ![c] = NoCall]

---------------------------------------------------------------------------
(* What each stage of a call writes.  A run's idempotency keys are fixed   *)
(* texts; a request derives its two keys from the client's.  A run expects *)
(* no record where it creates and, where it updates, the revision it read  *)
(* back after its own last write of that file.                             *)

Stages == {"planned", "queued", "rendering", "rendered", "rendered job",
           "failed", "failed job", "request manifest", "request job"}

\* Mutant: the job record is written before the manifest it embeds.
FileOfJobFirst(stage) ==
  IF stage \in {"queued", "rendered", "failed", "request job"} THEN "job" ELSE "manifest"

FileOf(stage) ==
  IF stage \in {"queued", "rendered job", "failed job", "request job"}
    THEN "job" ELSE "manifest"

StatusOf(stage) ==
  CASE stage \in {"rendered", "rendered job"} -> "rendered"
    [] stage \in {"failed", "failed job"} -> "failed"
    [] stage = "request manifest" -> "planned"
    [] stage = "request job" -> "queued"
    [] OTHER -> stage

Creates(stage) == stage \in {"planned", "queued", "request manifest", "request job"}

Expected(call) == IF Creates(call.stage) THEN NoRecord ELSE call.revision[FileOf(call.stage)]

\* Mutant: the route's keys are the execution's fixed texts.
KeyOfStage(call) == StatusOf(call.stage)

KeyOf(call) == IF call.request \in RequestKeys THEN call.request ELSE StatusOf(call.stage)

\* The core's evaluation of a write request against the record on file.
\* It answers a key it accepted last with that record, whatever the content.
Replays(call, onFile) == onFile \notin {NoRecord, Torn} /\ onFile.key = KeyOf(call)

\* Mutant: a create does not look whether there is a record.
AcceptsAnyCreate(call, onFile) ==
  Expected(call) = NoRecord \/ (onFile # NoRecord /\ onFile.revision = Expected(call))

Accepts(call, onFile) ==
  IF onFile = NoRecord THEN Expected(call) = NoRecord
  ELSE Expected(call) # NoRecord /\ onFile.revision = Expected(call)

NextRecord(call, onFile) ==
  [status |-> StatusOf(call.stage), digest |-> call.digest, key |-> KeyOf(call),
   revision |-> IF onFile = NoRecord THEN 0 ELSE onFile.revision + 1]

---------------------------------------------------------------------------
(* The calls begin.                                                        *)

InFlight == {c \in Callers : calls[c] # NoCall}

Begin(c, stage, request) ==
  /\ calls[c] = NoCall
  /\ Cardinality(InFlight) < MaxInFlight
  /\ started < MaxCalls /\ started' = started + 1
  /\ calls' = [calls EXCEPT ![c] =
       [stage |-> stage, phase |-> "look", request |-> request, put |-> NoRecord,
        digest |-> NoDigest, revision |-> [f \in {"manifest", "job"} |-> 0],
        ok |-> TRUE]]
  /\ UNCHANGED <<files, bytes, answers, faults>>

StartRun(c) == Begin(c, "planned", "run")
StartRequest(c, k) == Begin(c, "request manifest", k)

---------------------------------------------------------------------------
(* A write of one record.  A run reads the record back and goes on only if *)
(* both the write and the read succeeded, with the revision it read; a     *)
(* request writes the job record whatever became of the manifest's.        *)

At(c, phase) == calls[c] # NoCall /\ calls[c].stage \in Stages /\ calls[c].phase = phase

Blocked(call) == [by |-> call.request, said |-> "blocked", digest |-> NoDigest]
Finished(call, said) == [by |-> call.request, said |-> said, digest |-> call.digest]

AfterWrite(call) ==
  CASE call.stage = "planned"   -> "queued"
    [] call.stage = "queued"    -> "rendering"
    [] call.stage = "rendering" -> "render"
    [] call.stage = "rendered"  -> "rendered job"
    [] call.stage = "failed"    -> "failed job"

\* A run stops at a write that failed and leaves every record as it is.
Refused(c) ==
  LET call == calls[c] IN
  IF call.stage = "request manifest"
    THEN /\ calls' = [calls EXCEPT ![c].stage = "request job", ![c].phase = "look",
                                   ![c].ok = FALSE]
         /\ UNCHANGED answers
    ELSE Answer(c, Blocked(call))

Written(c) ==
  LET call == calls[c] IN
  CASE call.stage = "request manifest" ->
         /\ calls' = [calls EXCEPT ![c].stage = "request job", ![c].phase = "look"]
         /\ UNCHANGED answers
    [] call.stage = "request job" ->
         Answer(c, IF call.ok THEN Finished(call, "accepted") ELSE Blocked(call))
    [] OTHER ->
         /\ calls' = [calls EXCEPT ![c].phase = "read back"]
         /\ UNCHANGED answers

Look(c) ==
  LET call == calls[c]
      onFile == files[FileOf(call.stage)] IN
  /\ At(c, "look")
  /\ IF onFile = Torn THEN Refused(c)
     ELSE IF Replays(call, onFile) THEN Written(c)
     ELSE IF Accepts(call, onFile)
       THEN /\ calls' = [calls EXCEPT ![c].phase = "empty",
                                      ![c].put = NextRecord(call, onFile)]
            /\ UNCHANGED answers
       ELSE Refused(c)
  /\ UNCHANGED <<files, bytes, started, faults>>

Empty(c) ==
  /\ At(c, "empty")
  /\ files' = [files EXCEPT ![FileOf(calls[c].stage)] = Torn]
  /\ calls' = [calls EXCEPT ![c].phase = "fill"]
  /\ UNCHANGED <<bytes, answers, started, faults>>

\* Where another write filled the file after this one emptied it, the rest of
\* a longer text may stay behind the shorter one.
Fill(c) ==
  LET file == FileOf(calls[c].stage) IN
  /\ At(c, "fill")
  /\ \E left \in {calls[c].put} \cup (IF files[file] = Torn THEN {} ELSE {Torn}) :
       files' = [files EXCEPT ![file] = left]
  /\ Written(c)
  /\ UNCHANGED <<bytes, started, faults>>

WriteFails(c) ==
  /\ At(c, "empty") \/ At(c, "fill")
  /\ faults < MaxFaults /\ faults' = faults + 1
  /\ Refused(c)
  /\ UNCHANGED <<files, bytes, started>>

ReadBack(c) ==
  LET call == calls[c]
      onFile == files[FileOf(call.stage)] IN
  /\ At(c, "read back")
  /\ IF onFile \in {NoRecord, Torn} THEN Answer(c, Blocked(call))
     ELSE IF call.stage \in {"rendered job", "failed job"}
       THEN Answer(c, Finished(call, StatusOf(call.stage)))
       ELSE /\ calls' = [calls EXCEPT ![c].stage = AfterWrite(call), ![c].phase = "look",
                           ![c].revision[FileOf(call.stage)] = onFile.revision]
            /\ UNCHANGED answers
  /\ UNCHANGED <<files, bytes, started, faults>>

---------------------------------------------------------------------------
(* The rendering between the records: the injected renderer answers, the   *)
(* bytes are written under their digest and read back, and the manifest is *)
(* compared with them.  Each failure goes on to the failed records.        *)

Rendering(c, stage) == calls[c] # NoCall /\ calls[c].stage = stage

Goes(c, stage) ==
  calls' = [calls EXCEPT ![c].stage = stage, ![c].phase = "look",
              ![c].digest = IF stage = "failed" THEN NoDigest ELSE @]

Render(c) ==
  /\ Rendering(c, "render")
  /\ \/ \E d \in Digests : calls' = [calls EXCEPT ![c].stage = "bytes", ![c].digest = d]
        /\ UNCHANGED faults
     \/ faults < MaxFaults /\ faults' = faults + 1 /\ Goes(c, "failed")
  /\ UNCHANGED <<files, bytes, answers, started>>

EmptyBytes(c) ==
  /\ Rendering(c, "bytes")
  /\ bytes' = [bytes EXCEPT ![calls[c].digest] = "torn"]
  /\ Goes(c, "fill bytes")
  /\ UNCHANGED <<files, answers, started, faults>>

FillBytes(c) ==
  /\ Rendering(c, "fill bytes")
  /\ \/ bytes' = [bytes EXCEPT ![calls[c].digest] = "whole"]
        /\ Goes(c, "verify") /\ UNCHANGED faults
     \/ faults < MaxFaults /\ faults' = faults + 1
        /\ Goes(c, "failed") /\ UNCHANGED bytes
  /\ UNCHANGED <<files, answers, started>>

Verify(c) ==
  /\ Rendering(c, "verify")
  /\ Goes(c, IF bytes[calls[c].digest] = "whole" THEN "rendered" ELSE "failed")
  /\ UNCHANGED <<files, bytes, answers, started, faults>>

\* The process dies: every call under way is gone, what is on file stays.
Crash ==
  /\ InFlight # {}
  /\ faults < MaxFaults /\ faults' = faults + 1
  /\ calls' = [c \in Callers |-> NoCall]
  /\ UNCHANGED <<files, bytes, answers, started>>

---------------------------------------------------------------------------

Step(c) ==
  \/ Look(c) \/ Empty(c) \/ Fill(c) \/ WriteFails(c) \/ ReadBack(c)
  \/ Render(c) \/ EmptyBytes(c) \/ FillBytes(c) \/ Verify(c)

Next ==
  \/ \E c \in Callers : Step(c) \/ StartRun(c) \/ \E k \in RequestKeys : StartRequest(c, k)
  \/ Crash

Spec == Init /\ [][Next]_vars

---------------------------------------------------------------------------
(* What it is for.                                                         *)

\* What the variables hold.
ArtifactJobTypeOK ==
  /\ files \in [{"manifest", "job"} -> Record \cup {NoRecord, Torn}]
  /\ bytes \in [Digests -> {"missing", "torn", "whole"}]
  /\ \A a \in answers :
       /\ a.said \in {"blocked", "accepted", "rendered", "failed"}
       /\ a.said = "rendered" <=> a.digest \in Digests
  /\ \A c \in InFlight : calls[c].put \in Record \cup {NoRecord}

Says(file, status, digest) ==
  /\ files[file] \notin {NoRecord, Torn}
  /\ files[file].status = status /\ files[file].digest = digest

\* The job record settles last: once a job file says rendered or failed, the
\* manifest file says the same of the same bytes, and the bytes of a rendered
\* job are whole.  The records are written one by one, and a crash or an I/O
\* error may fall between any two steps, of this run or of a later one.
JobSettlesLast ==
  \A status \in {"rendered", "failed"}, d \in Digests \cup {NoDigest} :
    Says("job", status, d) =>
      /\ Says("manifest", status, d)
      /\ d \in Digests => bytes[d] = "whole"

\* What a run reported stays true of both records, whatever later runs and
\* requests of the same job do: they present keys the records have seen.
ReportsStand ==
  \A a \in answers : a.said \in {"rendered", "failed"} =>
    Says("manifest", a.said, a.digest) /\ Says("job", a.said, a.digest)

\* A job created by an accepted request is never executed: a run cannot create
\* its records again and nothing else moves them, so the route's answer 202
\* with a retry delay is followed by a job that stays queued.
RequestsStayQueued ==
  \A a \in answers : a.said = "accepted" =>
    /\ Says("job", "queued", NoDigest) /\ files["job"].key = a.by
    /\ \A b \in answers : b.by = "run" => b.said = "blocked"

\* The storage plan's concurrency rule, one accepted write per revision: a
\* write that went by a revision finds that revision when it replaces the file.
RevisionStillStands ==
  \A c \in InFlight :
    calls[c].stage \in Stages /\ calls[c].phase = "empty" =>
      LET onFile == files[FileOf(calls[c].stage)] IN
      IF onFile = NoRecord THEN calls[c].put.revision = 0
      ELSE onFile # Torn /\ calls[c].put.revision = onFile.revision + 1

=============================================================================
