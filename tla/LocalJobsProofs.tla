--------------------------- MODULE LocalJobsProofs ---------------------------
(***************************************************************************)
(* Theorems about the two runners of jobs in the local process: the host   *)
(* of the PDF export worker, which drains before it stops, and the         *)
(* execution of artifact jobs, whose two records tell the same.            *)
(***************************************************************************)
EXTENDS PdfExportWorkerHost, ArtifactJobExecution, FiniteSetTheorems, TLAPS

-----------------------------------------------------------------------------
(* The worker host. *)

\* What the drain is about: the fields of the loop and of the gate, and that a
\* gate which was stopped by force stays so.
GateInv ==
  /\ DOMAIN host = {"pc", "page", "op", "revision", "at", "steps"}
  /\ gate \in [status : {"accepting", "draining", "stopped"}, active : 0 .. 1,
               reason : {"none", "shutdown-drain-complete", "shutdown-forced"}]
  /\ gate.reason = "shutdown-forced" => gate.status = "stopped"
  /\ DrainWaits

LEMMA InitGate == WorkerHostInit => GateInv
BY DEF WorkerHostInit, GateInv, DrainWaits, Entry

\* Leaving an entry returns its reservation.
LEMMA LeaveKeepsGate == GateInv /\ Leave => GateInv'
BY DEF GateInv, DrainWaits, Entry, Leave, GateAfter

\* Within an entry the gate is not touched, nor where no entry is reserved.
LEMMA StayKeepsGate ==
  ASSUME GateInv, UNCHANGED gate, DOMAIN host' = DOMAIN host,
         host'.pc \in Entry => host.pc \in Entry
  PROVE  GateInv'
BY DEF GateInv, DrainWaits

LEMMA HostStepKeepsGate == GateInv /\ HostStep => GateInv'
<1> SUFFICES ASSUME GateInv, HostStep PROVE GateInv'
  OBVIOUS
<1>0. "pc" \in DOMAIN host
  BY DEF GateInv
<1>1. CASE Scan
  BY <1>0, <1>1, StayKeepsGate DEF Scan, HostAt, OnlyHost, Entry
<1>2. CASE Reserve
  <2>1. /\ gate.status = "accepting" => gate' = [gate EXCEPT !.active = 1]
        /\ gate.status # "accepting" => UNCHANGED gate /\ host'.pc = host.pc
        /\ host.pc = "next" /\ DOMAIN host' = DOMAIN host
    BY <1>0, <1>2 DEF Reserve
  <2> QED BY <2>1, StayKeepsGate DEF GateInv, DrainWaits, Entry
<1>3. CASE EndCycle
  BY <1>0, <1>3, StayKeepsGate DEF EndCycle, HostAt, OnlyHost, Entry
<1>4. CASE ReadEntry
  BY <1>0, <1>4, LeaveKeepsGate, StayKeepsGate DEF ReadEntry, StayInEntry, Entry
<1>5. CASE ClaimEntry
  BY <1>0, <1>5, LeaveKeepsGate, StayKeepsGate DEF ClaimEntry, StayInEntry, Entry
<1>6. CASE ExecuteEntry
  BY <1>0, <1>6, LeaveKeepsGate, StayKeepsGate DEF ExecuteEntry, HostAt, StayInEntry, Entry
<1>7. CASE SettleEntry
  BY <1>0, <1>7, LeaveKeepsGate, StayKeepsGate DEF SettleEntry, StayInEntry, Entry
<1>8. CASE ReleaseEntry
  BY <1>8, LeaveKeepsGate DEF ReleaseEntry
<1> QED BY <1>1, <1>2, <1>3, <1>4, <1>5, <1>6, <1>7, <1>8 DEF HostStep

LEMMA NextKeepsGate == GateInv /\ [WorkerHostNext]_hostVars => GateInv'
<1> SUFFICES ASSUME GateInv, [WorkerHostNext]_hostVars PROVE GateInv'
  OBVIOUS
<1>1. CASE HostStep
  BY <1>1, HostStepKeepsGate
<1>2. CASE BeginDrain
  <2>1. UNCHANGED host /\ gate.status = "accepting"
        /\ \/ /\ gate.active = 0
              /\ gate' = [gate EXCEPT !.status = "stopped", !.reason = "shutdown-drain-complete"]
           \/ gate.active # 0 /\ gate' = [gate EXCEPT !.status = "draining"]
    BY <1>2 DEF BeginDrain, DrainedGate
  <2>2. gate.reason # "shutdown-forced" /\ (host.pc \in Entry => gate.active = 1)
    BY <2>1 DEF GateInv, DrainWaits
  <2>3. /\ gate' \in [status : {"accepting", "draining", "stopped"}, active : 0 .. 1,
                     reason : {"none", "shutdown-drain-complete", "shutdown-forced"}]
        /\ gate'.reason # "shutdown-forced"
        /\ gate.active # 0 => gate'.status = "draining" /\ gate'.active = gate.active
    BY <2>1, <2>2 DEF GateInv
  <2> QED BY <2>1, <2>2, <2>3 DEF GateInv, DrainWaits
<1>3. CASE ForceStop
  BY <1>3 DEF ForceStop, GateInv, DrainWaits
<1>4. CASE ForceStep \/ Tick \/ UNCHANGED hostVars
  BY <1>4, StayKeepsGate DEF ForceStep, ForceReadTerminal, ForceReadHead, ForceApply, Tick, hostVars
<1> QED BY <1>1, <1>2, <1>3, <1>4 DEF WorkerHostNext

\* A drain waits for the running entry: a reserved entry holds a gate that is
\* not stopped, unless the host was stopped by force.
THEOREM DrainAlwaysWaits == WorkerHostSpec => []DrainWaits
<1>1. GateInv => DrainWaits
  BY DEF GateInv
<1> QED BY <1>1, InitGate, NextKeepsGate, PTL DEF WorkerHostSpec

-----------------------------------------------------------------------------
(* Artifact jobs. *)

(* What the two records can be. *)

PlannedOf(key) == [status |-> "planned", digest |-> NoDigest, revision |-> 0, key |-> key]
RenderingManifest ==
  [status |-> "rendering", digest |-> NoDigest, revision |-> 1, key |-> "rendering"]
SettledManifest(status, d) == [status |-> status, digest |-> d, revision |-> 2, key |-> status]
QueuedOf(key) == [status |-> "queued", digest |-> NoDigest, revision |-> 0, key |-> key]
SettledJob(status, d) == [status |-> status, digest |-> d, revision |-> 1, key |-> status]

\* What a run comes to: rendered bytes, or failed without any.
Outcome(status, d) == (status = "rendered" /\ d \in Digests) \/ (status = "failed" /\ d = NoDigest)

IsManifest(m) ==
  \/ m \in {NoRecord, Torn}
  \/ \E k \in RequestKeys \cup {"planned"} : m = PlannedOf(k)
  \/ m = RenderingManifest
  \/ \E status \in {"rendered", "failed"}, d \in Digests \cup {NoDigest} :
       Outcome(status, d) /\ m = SettledManifest(status, d)

IsJob(j) ==
  \/ j \in {NoRecord, Torn}
  \/ \E k \in RequestKeys \cup {"queued"} : j = QueuedOf(k)
  \/ \E status \in {"rendered", "failed"}, d \in Digests \cup {NoDigest} :
       Outcome(status, d) /\ j = SettledJob(status, d)

-----------------------------------------------------------------------------
(* Where a call is, and what it may rely on in the files and the bytes. *)

RenderStages == {"render", "bytes", "fill bytes", "verify"}

CallRecord ==
  [stage : Stages \cup RenderStages, phase : {"look", "empty", "fill", "read back"},
   request : RequestKeys \cup {"run"}, put : Record \cup {NoRecord},
   digest : Digests \cup {NoDigest}, revision : [{"manifest", "job"} -> 0 .. 4], ok : BOOLEAN]

\* The record a stage writes.
Writes(call) ==
  CASE call.stage \in {"planned", "request manifest"} -> PlannedOf(KeyOf(call))
    [] call.stage = "rendering" -> RenderingManifest
    [] call.stage \in {"rendered", "failed"} -> SettledManifest(call.stage, call.digest)
    [] call.stage \in {"queued", "request job"} -> QueuedOf(KeyOf(call))
    [] OTHER -> SettledJob(StatusOf(call.stage), call.digest)

\* The record it replaces.
Replaces(call) ==
  CASE Creates(call.stage) -> NoRecord
    [] call.stage = "rendering" -> PlannedOf("planned")
    [] call.stage \in {"rendered", "failed"} -> RenderingManifest
    [] OTHER -> QueuedOf("queued")

\* What the stage before it left, in the file the stage does not write and in
\* the bytes.
RestsOn(call, fs, bs) ==
  /\ call.stage = "queued" => fs["manifest"] = PlannedOf("planned")
  /\ call.stage \in {"rendering", "rendered", "failed"} \cup RenderStages =>
       fs["job"] = QueuedOf("queued")
  /\ call.stage \in {"rendered job", "failed job"} =>
       fs["manifest"] = SettledManifest(StatusOf(call.stage), call.digest)
  /\ call.stage \in RenderStages => fs["manifest"] = RenderingManifest
  /\ call.stage \in {"rendered", "rendered job"} => bs[call.digest] = "whole"

\* The digest and the revisions that a run has at hand.
HasAtHand(call) ==
  /\ call.stage \in {"bytes", "fill bytes", "verify", "rendered", "rendered job"} <=>
       call.digest \in Digests
  /\ call.stage \in {"queued", "rendering"} => call.revision["manifest"] = 0
  /\ call.stage \in {"rendered", "failed"} \cup RenderStages => call.revision["manifest"] = 1
  /\ call.stage \notin {"planned", "queued", "request manifest", "request job"} =>
       call.revision["job"] = 0

WriteUnderWay(call, fs) ==
  LET onFile == fs[FileOf(call.stage)] IN
  /\ call.phase = "look" => Creates(call.stage) \/ onFile = Replaces(call)
  /\ call.phase = "empty" => onFile = Replaces(call) /\ call.put = Writes(call)
  /\ call.phase = "fill" => onFile = Torn /\ call.put = Writes(call)
  /\ call.phase = "read back" => onFile = Writes(call) /\ call.request = "run"

CallStands(call, fs, bs) ==
  /\ call \in CallRecord
  /\ call.request = "run" <=> call.stage \notin {"request manifest", "request job"}
  /\ RestsOn(call, fs, bs) /\ HasAtHand(call)
  /\ call.stage \in Stages => WriteUnderWay(call, fs)
  /\ call.stage \in RenderStages => call.phase = "look"

CallsStand ==
  /\ DOMAIN calls = Callers
  /\ \A c, d \in InFlight : c = d
  /\ \A c \in InFlight : CallStands(calls[c], files, bytes)

-----------------------------------------------------------------------------
(* What the files, the bytes and the answers have to do with each other. *)

SaysIn(fs, file, status, d) ==
  fs[file] \notin {NoRecord, Torn} /\ fs[file].status = status /\ fs[file].digest = d

SettlesIn(fs, bs) ==
  \A status \in {"rendered", "failed"}, d \in Digests \cup {NoDigest} :
    SaysIn(fs, "job", status, d) =>
      /\ SaysIn(fs, "manifest", status, d)
      /\ d \in Digests => bs[d] = "whole"

AnswerShape(a) ==
  /\ a \in [by : RequestKeys \cup {"run"}, said : {"blocked", "accepted", "rendered", "failed"},
            digest : Digests \cup {NoDigest}]
  /\ a.said = "accepted" => a.by \in RequestKeys
  /\ a.said \in {"rendered", "failed"} => a.by = "run" /\ Outcome(a.said, a.digest)

ReportStands(a, fs) ==
  a.said \in {"rendered", "failed"} =>
    SaysIn(fs, "manifest", a.said, a.digest) /\ SaysIn(fs, "job", a.said, a.digest)

RequestStays(a, fs, given) ==
  a.said = "accepted" =>
    /\ SaysIn(fs, "job", "queued", NoDigest) /\ fs["job"].key = a.by
    /\ \A b \in given : b.by = "run" => b.said = "blocked"

RecordsStand(fs, bs, given) ==
  /\ DOMAIN fs = {"manifest", "job"}
  /\ bs \in [Digests -> {"missing", "torn", "whole"}]
  /\ IsManifest(fs["manifest"]) /\ IsJob(fs["job"])
  /\ SettlesIn(fs, bs)
  /\ \A a \in given : AnswerShape(a) /\ ReportStands(a, fs) /\ RequestStays(a, fs, given)

JobInv == CallsStand /\ RecordsStand(files, bytes, answers)

-----------------------------------------------------------------------------
(* Records. *)

LEMMA KeysApart ==
  /\ NoRecord \notin Record /\ Torn \notin Record /\ NoRecord # Torn /\ NoDigest \notin Digests
  /\ \A k \in RequestKeys : k \notin RunKeys /\ k # "run"
BY ArtifactJobAssumption, ArtifactRecordAssumption

\* Which record a manifest file holds is told by its key, and by its status.
LEMMA ManifestTold ==
  ASSUME NEW m, IsManifest(m), m \notin {NoRecord, Torn}
  PROVE  /\ m \in Record
         /\ m.key \in RequestKeys \cup {"planned"} <=> m.status = "planned"
         /\ m.key \in RequestKeys \cup {"planned"} => m = PlannedOf(m.key)
         /\ m.status \in {"rendered", "failed"} <=> m.key \in {"rendered", "failed"}
         /\ m.status \in {"rendered", "failed"} =>
              Outcome(m.status, m.digest) /\ m = SettledManifest(m.status, m.digest)
<1>1. CASE \E k \in RequestKeys \cup {"planned"} : m = PlannedOf(k)
  BY <1>1, KeysApart DEF PlannedOf, Record, RunKeys
<1>2. CASE m = RenderingManifest
  BY <1>2, KeysApart DEF RenderingManifest, Record, RunKeys
<1>3. CASE \E status \in {"rendered", "failed"}, d \in Digests \cup {NoDigest} :
             Outcome(status, d) /\ m = SettledManifest(status, d)
  BY <1>3, KeysApart DEF SettledManifest, Record, RunKeys, Outcome
<1> QED BY <1>1, <1>2, <1>3 DEF IsManifest

LEMMA JobTold ==
  ASSUME NEW j, IsJob(j), j \notin {NoRecord, Torn}
  PROVE  /\ j \in Record
         /\ j.key \in RequestKeys \cup {"queued"} <=> j.status = "queued"
         /\ j.key \in RequestKeys \cup {"queued"} => j = QueuedOf(j.key)
         /\ j.status \in {"rendered", "failed"} <=> j.key \in {"rendered", "failed"}
         /\ j.status \in {"rendered", "failed"} =>
              Outcome(j.status, j.digest) /\ j = SettledJob(j.status, j.digest)
<1>1. CASE \E k \in RequestKeys \cup {"queued"} : j = QueuedOf(k)
  BY <1>1, KeysApart DEF QueuedOf, Record, RunKeys
<1>2. CASE \E status \in {"rendered", "failed"}, d \in Digests \cup {NoDigest} :
             Outcome(status, d) /\ j = SettledJob(status, d)
  BY <1>2, KeysApart DEF SettledJob, Record, RunKeys, Outcome
<1> QED BY <1>1, <1>2 DEF IsJob

LEMMA PlannedFields ==
  ASSUME NEW k \in RequestKeys \cup {"planned"}
  PROVE  /\ PlannedOf(k) \in Record /\ PlannedOf(k).key = k /\ PlannedOf(k).status = "planned"
         /\ PlannedOf(k).digest = NoDigest /\ PlannedOf(k).revision = 0
BY DEF PlannedOf, Record, RunKeys

LEMMA RenderingFields ==
  /\ RenderingManifest \in Record /\ RenderingManifest.key = "rendering"
  /\ RenderingManifest.status = "rendering" /\ RenderingManifest.digest = NoDigest
  /\ RenderingManifest.revision = 1
BY DEF RenderingManifest, Record, RunKeys

LEMMA QueuedFields ==
  ASSUME NEW k \in RequestKeys \cup {"queued"}
  PROVE  /\ QueuedOf(k) \in Record /\ QueuedOf(k).key = k /\ QueuedOf(k).status = "queued"
         /\ QueuedOf(k).digest = NoDigest /\ QueuedOf(k).revision = 0
BY DEF QueuedOf, Record, RunKeys

LEMMA SettledFields ==
  ASSUME NEW status \in {"rendered", "failed"}, NEW d \in Digests \cup {NoDigest}
  PROVE  /\ SettledManifest(status, d) \in Record /\ SettledManifest(status, d).key = status
         /\ SettledManifest(status, d).status = status /\ SettledManifest(status, d).digest = d
         /\ SettledManifest(status, d).revision = 2
BY DEF SettledManifest, Record, RunKeys

LEMMA SettledJobFields ==
  ASSUME NEW status \in {"rendered", "failed"}, NEW d \in Digests \cup {NoDigest}
  PROVE  /\ SettledJob(status, d) \in Record /\ SettledJob(status, d).key = status
         /\ SettledJob(status, d).status = status /\ SettledJob(status, d).digest = d
         /\ SettledJob(status, d).revision = 1
BY DEF SettledJob, Record, RunKeys

\* A call writes whole records of its file, and replaces none that is settled.
LEMMA WritesTold ==
  ASSUME NEW call \in CallRecord, call.stage \in Stages, HasAtHand(call),
         call.request = "run" <=> call.stage \notin {"request manifest", "request job"}
  PROVE  /\ Writes(call) \in Record /\ Writes(call).key = KeyOf(call)
         /\ Writes(call).status = StatusOf(call.stage) /\ Writes(call).digest = call.digest
         /\ FileOf(call.stage) = "manifest" => IsManifest(Writes(call))
         /\ FileOf(call.stage) = "job" => IsJob(Writes(call))
<1>1. /\ call.request \in RequestKeys \cup {"run"} /\ call.digest \in Digests \cup {NoDigest}
      /\ "run" \notin RequestKeys /\ NoDigest \notin Digests
  BY KeysApart DEF CallRecord
<1>2. CASE call.stage \in {"planned", "request manifest"}
  <2>1. Writes(call) = PlannedOf(KeyOf(call)) /\ FileOf(call.stage) = "manifest"
    BY <1>2 DEF Writes, FileOf
  <2>2. /\ KeyOf(call) \in RequestKeys \cup {"planned"} /\ StatusOf(call.stage) = "planned"
        /\ call.digest = NoDigest
    BY <1>1, <1>2 DEF KeyOf, StatusOf, HasAtHand
  <2> QED BY <2>1, <2>2, PlannedFields DEF IsManifest
<1>3. CASE call.stage = "rendering"
  <2>1. Writes(call) = RenderingManifest /\ FileOf(call.stage) = "manifest"
    BY <1>3 DEF Writes, FileOf
  <2>2. /\ KeyOf(call) = "rendering" /\ StatusOf(call.stage) = "rendering"
        /\ call.digest = NoDigest
    BY <1>1, <1>3 DEF KeyOf, StatusOf, HasAtHand
  <2> QED BY <2>1, <2>2, RenderingFields DEF IsManifest
<1>4. CASE call.stage \in {"rendered", "failed"}
  <2>1. Writes(call) = SettledManifest(call.stage, call.digest) /\ FileOf(call.stage) = "manifest"
    BY <1>4 DEF Writes, FileOf
  <2>2. KeyOf(call) = call.stage /\ StatusOf(call.stage) = call.stage
    BY <1>1, <1>4 DEF KeyOf, StatusOf
  <2>3. Outcome(call.stage, call.digest)
    BY <1>1, <1>4 DEF HasAtHand, Outcome
  <2>4. call.stage \in {"rendered", "failed"} /\ call.digest \in Digests \cup {NoDigest}
    BY <1>1, <1>4
  <2>5. IsManifest(SettledManifest(call.stage, call.digest))
    BY <2>3, <2>4 DEF IsManifest
  <2> DEFINE m == SettledManifest(call.stage, call.digest)
  <2>6. m \in Record /\ m.key = call.stage /\ m.status = call.stage /\ m.digest = call.digest
    BY <2>4, SettledFields
  <2> HIDE DEF m
  <2>7. Writes(call) = m /\ IsManifest(m)
    BY <2>1, <2>5 DEF m
  <2> QED BY <2>1, <2>2, <2>6, <2>7
<1>5. CASE call.stage \in {"queued", "request job"}
  <2>1. Writes(call) = QueuedOf(KeyOf(call)) /\ FileOf(call.stage) = "job"
    BY <1>5 DEF Writes, FileOf
  <2>2. /\ KeyOf(call) \in RequestKeys \cup {"queued"} /\ StatusOf(call.stage) = "queued"
        /\ call.digest = NoDigest
    BY <1>1, <1>5 DEF KeyOf, StatusOf, HasAtHand
  <2> QED BY <2>1, <2>2, QueuedFields DEF IsJob
<1>6. CASE call.stage \in {"rendered job", "failed job"}
  <2>1. PICK status \in {"rendered", "failed"} : status = StatusOf(call.stage)
    BY <1>6 DEF StatusOf
  <2>2. Writes(call) = SettledJob(status, call.digest) /\ FileOf(call.stage) = "job"
    BY <1>6, <2>1 DEF Writes, FileOf
  <2>3. KeyOf(call) = status /\ Outcome(status, call.digest)
    BY <1>1, <1>6, <2>1 DEF HasAtHand, Outcome, StatusOf, KeyOf
  <2>4. PICK d \in Digests \cup {NoDigest} : d = call.digest
    BY <1>1
  <2>5. IsJob(SettledJob(status, d))
    BY <2>3, <2>4 DEF IsJob
  <2>6. /\ SettledJob(status, d) \in Record /\ SettledJob(status, d).key = status
        /\ SettledJob(status, d).status = status /\ SettledJob(status, d).digest = d
    BY SettledJobFields
  <2> QED BY <2>1, <2>2, <2>3, <2>4, <2>5, <2>6
<1> QED BY <1>2, <1>3, <1>4, <1>5, <1>6 DEF Stages

LEMMA ReplacesTold ==
  ASSUME NEW call \in CallRecord, call.stage \in Stages
  PROVE  /\ Creates(call.stage) <=> Replaces(call) = NoRecord
         /\ ~Creates(call.stage) =>
              /\ Replaces(call) \in Record
              /\ Replaces(call).status \in {"planned", "rendering", "queued"}
              /\ Replaces(call).key \in {"planned", "rendering", "queued"}
              /\ Replaces(call).key # StatusOf(call.stage)
<1>2. CASE Creates(call.stage)
  BY <1>2 DEF Replaces, Creates
<1>3. CASE call.stage = "rendering"
  <2>1. Replaces(call) = PlannedOf("planned") /\ StatusOf(call.stage) = "rendering"
    BY <1>3 DEF Replaces, Creates, StatusOf
  <2> QED BY <1>3, <2>1, PlannedFields, KeysApart DEF Creates
<1>4. CASE call.stage \in {"rendered", "failed"}
  <2>1. Replaces(call) = RenderingManifest /\ StatusOf(call.stage) \in {"rendered", "failed"}
    BY <1>4 DEF Replaces, Creates, StatusOf
  <2> QED BY <1>4, <2>1, RenderingFields, KeysApart DEF Creates
<1>5. CASE call.stage \in {"rendered job", "failed job"}
  <2>1. Replaces(call) = QueuedOf("queued") /\ StatusOf(call.stage) \in {"rendered", "failed"}
    BY <1>5 DEF Replaces, Creates, StatusOf
  <2>2. QueuedOf("queued") \in Record /\ QueuedOf("queued").key = "queued"
        /\ QueuedOf("queued").status = "queued"
    BY QueuedFields
  <2> QED BY <1>5, <2>1, <2>2, KeysApart DEF Creates
<1> QED BY <1>2, <1>3, <1>4, <1>5 DEF Stages, Creates

\* The core replays a write only where the record on file is the one the call
\* would write.
LEMMA ReplayedIsWritten ==
  ASSUME NEW call, NEW fs, NEW bs, NEW given,
         CallStands(call, fs, bs), RecordsStand(fs, bs, given),
         call.stage \in Stages, call.phase = "look", Replays(call, fs[FileOf(call.stage)])
  PROVE  fs[FileOf(call.stage)] = Writes(call)
<1> DEFINE onFile == fs[FileOf(call.stage)]
<1>1. /\ call \in CallRecord /\ WriteUnderWay(call, fs)
      /\ call.request = "run" <=> call.stage \notin {"request manifest", "request job"}
      /\ onFile \notin {NoRecord, Torn} /\ onFile.key = KeyOf(call)
      /\ IsManifest(fs["manifest"]) /\ IsJob(fs["job"])
      /\ call.request \in RequestKeys \cup {"run"} /\ "run" \notin RequestKeys
  BY KeysApart DEF CallStands, Replays, RecordsStand, CallRecord
<1>2. CASE call.stage \in {"planned", "request manifest"}
  <2>1. KeyOf(call) \in RequestKeys \cup {"planned"} /\ onFile = fs["manifest"]
    BY <1>1, <1>2 DEF KeyOf, StatusOf, FileOf
  <2>2. onFile = PlannedOf(KeyOf(call))
    BY <1>1, <2>1, ManifestTold
  <2> QED BY <1>2, <2>2 DEF Writes
<1>3. CASE call.stage \in {"queued", "request job"}
  <2>1. KeyOf(call) \in RequestKeys \cup {"queued"} /\ onFile = fs["job"]
    BY <1>1, <1>3 DEF KeyOf, StatusOf, FileOf
  <2>2. onFile = QueuedOf(KeyOf(call))
    BY <1>1, <2>1, JobTold
  <2> QED BY <1>3, <2>2 DEF Writes
<1>4. CASE ~Creates(call.stage)
  <2>1. onFile = Replaces(call) /\ KeyOf(call) = StatusOf(call.stage)
    BY <1>1, <1>4 DEF WriteUnderWay, KeyOf, Creates
  <2> QED BY <1>1, <1>4, <2>1, ReplacesTold
<1> QED BY <1>2, <1>3, <1>4 DEF Creates

-----------------------------------------------------------------------------
(* Answers. *)

LEMMA SaysRecord ==
  ASSUME NEW fs, NEW bs, NEW given, RecordsStand(fs, bs, given), NEW status, NEW d
  PROVE  /\ SaysIn(fs, "job", status, d) /\ status \in {"rendered", "failed"} =>
              fs["job"] = SettledJob(status, d)
         /\ SaysIn(fs, "manifest", status, d) /\ status \in {"rendered", "failed"} =>
              fs["manifest"] = SettledManifest(status, d)
BY JobTold, ManifestTold DEF RecordsStand, SaysIn

\* One more answer stands with the records if it is what they say.
LEMMA AnswerStands ==
  ASSUME NEW fs, NEW bs, NEW given, RecordsStand(fs, bs, given),
         NEW a, AnswerShape(a), ReportStands(a, fs),
         a.said = "accepted" => SaysIn(fs, "job", "queued", NoDigest) /\ fs["job"].key = a.by
  PROVE  RecordsStand(fs, bs, given \cup {a})
<1> DEFINE all == given \cup {a}
<1>1. ASSUME NEW b \in all PROVE AnswerShape(b) /\ ReportStands(b, fs)
  BY DEF RecordsStand
<1>2. ASSUME NEW b \in all, b.said = "accepted"
      PROVE  SaysIn(fs, "job", "queued", NoDigest) /\ fs["job"].key = b.by
  BY <1>2 DEF RecordsStand, RequestStays
<1>3. ASSUME NEW b \in all, NEW e \in all, b.said = "accepted", e.by = "run"
      PROVE  e.said = "blocked"
  <2>1. fs["job"].status = "queued"
    BY <1>2, <1>3 DEF SaysIn
  <2>2. e.said \notin {"rendered", "failed"}
    BY <1>1, <2>1 DEF ReportStands, SaysIn
  <2>3. e.said # "accepted"
    BY <1>1, <1>3, KeysApart DEF AnswerShape
  <2> QED BY <1>1, <2>2, <2>3 DEF AnswerShape
<1>4. \A b \in all : RequestStays(b, fs, all)
  BY <1>2, <1>3 DEF RequestStays
<1> QED BY <1>1, <1>4 DEF RecordsStand

LEMMA CallMoves ==
  ASSUME CallsStand, NEW c \in Callers, InFlight \subseteq {c}, NEW new,
         calls' = [calls EXCEPT ![c] = new],
         new = NoCall \/ CallStands(new, files', bytes')
  PROVE  CallsStand'
<1>1. DOMAIN calls' = Callers /\ calls'[c] = new
  BY DEF CallsStand
<1>2. \A d \in Callers \ {c} : calls'[d] = NoCall
  BY DEF CallsStand, InFlight
<1>3. InFlight' \subseteq {c}
  BY <1>2 DEF InFlight
<1>4. c \in InFlight' => CallStands(calls'[c], files', bytes')
  BY <1>1 DEF InFlight
<1> QED BY <1>1, <1>3, <1>4 DEF CallsStand

LEMMA OnlyCall ==
  ASSUME CallsStand, NEW c \in Callers, calls[c] # NoCall
  PROVE  InFlight \subseteq {c} /\ CallStands(calls[c], files, bytes)
BY DEF CallsStand, InFlight

\* A call that ends gives its answer.
LEMMA AnswerKeeps ==
  ASSUME CallsStand, NEW c \in Callers, InFlight \subseteq {c}, NEW a, Answer(c, a),
         RecordsStand(files', bytes', answers), AnswerShape(a), ReportStands(a, files'),
         a.said = "accepted" => SaysIn(files', "job", "queued", NoDigest) /\ files'["job"].key = a.by
  PROVE  JobInv'
<1>1. CallsStand'
  BY CallMoves DEF Answer
<1>2. RecordsStand(files', bytes', answers \cup {a})
  BY AnswerStands
<1> QED BY <1>1, <1>2 DEF JobInv, Answer

LEMMA BlockedShape ==
  ASSUME NEW call \in CallRecord, NEW fs
  PROVE  /\ AnswerShape(Blocked(call)) /\ ReportStands(Blocked(call), fs)
         /\ Blocked(call).said = "blocked"
BY DEF CallRecord, Blocked, AnswerShape, ReportStands

\* A request goes on to its job record, whatever became of the manifest's.
LEMMA RequestGoesOn ==
  ASSUME NEW call \in CallRecord, call.stage = "request manifest", NEW new, NEW ok \in BOOLEAN,
         new = [call EXCEPT !.stage = "request job", !.phase = "look", !.ok = ok],
         call.request # "run", HasAtHand(call), NEW fs, NEW bs
  PROVE  CallStands(new, fs, bs)
<1>1. /\ new \in CallRecord /\ new.stage = "request job" /\ new.phase = "look"
      /\ new.request = call.request /\ new.digest = call.digest
  BY DEF CallRecord, Stages
<1>2. new.digest \notin Digests
  BY <1>1 DEF HasAtHand
<1> QED BY <1>1, <1>2 DEF CallStands, RestsOn, HasAtHand, WriteUnderWay, Stages, RenderStages, Creates

LEMMA RefusedKeeps ==
  ASSUME JobInv, NEW c \in Callers, calls[c] # NoCall, calls[c].stage \in Stages,
         Refused(c), UNCHANGED <<files, bytes>>
  PROVE  JobInv'
<1> DEFINE call == calls[c]
<1>1. /\ InFlight \subseteq {c} /\ call \in CallRecord /\ HasAtHand(call)
      /\ call.request = "run" <=> call.stage \notin {"request manifest", "request job"}
  BY OnlyCall DEF JobInv, CallStands
<1>2. CASE call.stage = "request manifest"
  <2> DEFINE new == [call EXCEPT !.stage = "request job", !.phase = "look", !.ok = FALSE]
  <2>1. calls' = [calls EXCEPT ![c] = new] /\ UNCHANGED answers
    BY <1>2 DEF Refused
  <2>2. CallStands(new, files', bytes')
    BY <1>1, <1>2, RequestGoesOn
  <2> HIDE DEF new
  <2> QED BY <1>1, <2>1, <2>2, CallMoves DEF JobInv
<1>3. CASE call.stage # "request manifest"
  <2>1. Answer(c, Blocked(call))
    BY <1>3 DEF Refused
  <2> QED BY <1>1, <2>1, BlockedShape, AnswerKeeps DEF JobInv
<1> QED BY <1>2, <1>3

LEMMA WrittenKeeps ==
  ASSUME CallsStand, NEW c \in Callers, calls[c] # NoCall, calls[c].stage \in Stages,
         RestsOn(calls[c], files', bytes'), files'[FileOf(calls[c].stage)] = Writes(calls[c]),
         RecordsStand(files', bytes', answers), Written(c)
  PROVE  JobInv'
<1> DEFINE call == calls[c]
<1>1. /\ InFlight \subseteq {c} /\ call \in CallRecord /\ HasAtHand(call)
      /\ call.request = "run" <=> call.stage \notin {"request manifest", "request job"}
  BY OnlyCall DEF CallStands
<1>2. CASE call.stage = "request manifest"
  <2> DEFINE new == [call EXCEPT !.stage = "request job", !.phase = "look", !.ok = call.ok]
  <2>1. calls' = [calls EXCEPT ![c] = new] /\ UNCHANGED answers
    <3>1. new = [call EXCEPT !.stage = "request job", !.phase = "look"]
      BY <1>1 DEF CallRecord
    <3> QED BY <1>2, <3>1 DEF Written
  <2>2. CallStands(new, files', bytes')
    <3>1. call.ok \in BOOLEAN
      BY <1>1 DEF CallRecord
    <3> QED BY <1>1, <1>2, <3>1, RequestGoesOn
  <2> HIDE DEF new
  <2> QED BY <1>1, <2>1, <2>2, CallMoves DEF JobInv
<1>3. CASE call.stage = "request job"
  <2>1. call.request \in RequestKeys /\ call.digest \in Digests \cup {NoDigest}
    BY <1>1, <1>3 DEF CallRecord
  <2>2. Answer(c, Finished(call, "accepted")) \/ Answer(c, Blocked(call))
    BY <1>3 DEF Written
  <2>3. CASE Answer(c, Finished(call, "accepted"))
    <3>1. /\ AnswerShape(Finished(call, "accepted"))
          /\ ReportStands(Finished(call, "accepted"), files')
          /\ Finished(call, "accepted").by = call.request
      BY <2>1 DEF Finished, AnswerShape, ReportStands
    <3>2. files'["job"] = QueuedOf(call.request)
      BY <1>3, <2>1 DEF Writes, FileOf, KeyOf
    <3>3. SaysIn(files', "job", "queued", NoDigest) /\ files'["job"].key = call.request
      BY <2>1, <3>2, QueuedFields, KeysApart DEF SaysIn
    <3> QED BY <1>1, <2>3, <3>1, <3>3, AnswerKeeps
  <2>4. CASE Answer(c, Blocked(call))
    BY <1>1, <2>4, BlockedShape, AnswerKeeps
  <2> QED BY <2>2, <2>3, <2>4
<1>4. CASE call.stage \notin {"request manifest", "request job"}
  <2> DEFINE new == [call EXCEPT !.phase = "read back"]
  <2>1. calls' = [calls EXCEPT ![c] = new] /\ UNCHANGED answers
    BY <1>4 DEF Written
  <2>2. /\ new \in CallRecord /\ new.stage = call.stage /\ new.phase = "read back"
        /\ new.request = call.request /\ new.digest = call.digest /\ new.revision = call.revision
    BY <1>1 DEF CallRecord
  <2>3. RestsOn(new, files', bytes') /\ HasAtHand(new)
    BY <1>1, <2>2 DEF RestsOn, HasAtHand
  <2>4. Writes(new) = Writes(call)
    BY <2>2 DEF Writes, KeyOf
  <2>5. CallStands(new, files', bytes')
    BY <1>1, <1>4, <2>2, <2>3, <2>4 DEF CallStands, WriteUnderWay, Stages, RenderStages
  <2> HIDE DEF new
  <2> QED BY <1>1, <2>1, <2>5, CallMoves DEF JobInv
<1> QED BY <1>2, <1>3, <1>4

-----------------------------------------------------------------------------
(* The steps of a write. *)

LEMMA LookKeeps ==
  ASSUME JobInv, NEW c \in Callers, Look(c)
  PROVE  JobInv'
<1> DEFINE call == calls[c]
           onFile == files[FileOf(call.stage)]
<1>1. /\ call # NoCall /\ call.stage \in Stages /\ call.phase = "look"
      /\ UNCHANGED <<files, bytes>>
  BY DEF Look, At
<1>2. /\ InFlight \subseteq {c} /\ CallStands(call, files, bytes)
      /\ RecordsStand(files, bytes, answers) /\ CallsStand
  BY <1>1, OnlyCall DEF JobInv
<1>3. CASE Refused(c)
  BY <1>1, <1>3, RefusedKeeps
<1>4. CASE Replays(call, onFile) /\ Written(c)
  <2>1. onFile = Writes(call)
    BY <1>1, <1>2, <1>4, ReplayedIsWritten
  <2>2. RestsOn(call, files, bytes)
    BY <1>2 DEF CallStands
  <2> QED BY <1>1, <1>2, <1>4, <2>1, <2>2, WrittenKeeps
<1>5. CASE /\ Accepts(call, onFile) /\ onFile # Torn
           /\ calls' = [calls EXCEPT ![c].phase = "empty", ![c].put = NextRecord(call, onFile)]
           /\ UNCHANGED answers
  <2> DEFINE new == [call EXCEPT !.phase = "empty", !.put = NextRecord(call, onFile)]
  <2>0. /\ call \in CallRecord /\ HasAtHand(call) /\ RestsOn(call, files, bytes)
        /\ call.request = "run" <=> call.stage \notin {"request manifest", "request job"}
        /\ ~Creates(call.stage) => onFile = Replaces(call)
    BY <1>1, <1>2 DEF CallStands, WriteUnderWay
  <2>1. onFile = Replaces(call)
    BY <1>1, <1>5, <2>0, ReplacesTold DEF Accepts, Expected
  <2>2. NextRecord(call, onFile) = Writes(call)
    <3>1. call.digest \in Digests \cup {NoDigest} /\ "run" \notin RequestKeys
      BY <2>0, KeysApart DEF CallRecord
    <3>2. CASE call.stage \in {"planned", "request manifest"}
      BY <2>0, <2>1, <3>1, <3>2
      DEF NextRecord, Writes, Replaces, Creates, PlannedOf, StatusOf, HasAtHand
    <3>3. CASE call.stage \in {"queued", "request job"}
      BY <2>0, <2>1, <3>1, <3>3
      DEF NextRecord, Writes, Replaces, Creates, QueuedOf, StatusOf, HasAtHand
    <3>4. CASE call.stage = "rendering"
      <4>1. onFile = PlannedOf("planned") /\ onFile # NoRecord /\ onFile.revision = 0
        BY <2>1, <3>4, PlannedFields, KeysApart DEF Replaces, Creates
      <4>2. Writes(call) = RenderingManifest /\ StatusOf(call.stage) = "rendering"
            /\ KeyOf(call) = "rendering" /\ call.digest = NoDigest
        BY <2>0, <3>1, <3>4 DEF Writes, StatusOf, KeyOf, HasAtHand
      <4> QED BY <4>1, <4>2 DEF NextRecord, RenderingManifest
    <3>5. CASE call.stage \in {"rendered", "failed"}
      <4>1. onFile = RenderingManifest /\ onFile # NoRecord /\ onFile.revision = 1
        BY <2>1, <3>5, RenderingFields, KeysApart DEF Replaces, Creates
      <4>2. /\ Writes(call) = SettledManifest(call.stage, call.digest)
            /\ StatusOf(call.stage) = call.stage /\ KeyOf(call) = call.stage
        BY <2>0, <3>1, <3>5 DEF Writes, StatusOf, KeyOf
      <4> QED BY <4>1, <4>2 DEF NextRecord, SettledManifest
    <3>6. CASE call.stage \in {"rendered job", "failed job"}
      <4>1. onFile = QueuedOf("queued") /\ onFile # NoRecord /\ onFile.revision = 0
        <5>1. Replaces(call) = QueuedOf("queued")
          BY <3>6 DEF Replaces, Creates
        <5>2. QueuedOf("queued") \in Record /\ QueuedOf("queued").revision = 0
          BY QueuedFields
        <5> QED BY <2>1, <5>1, <5>2, KeysApart
      <4>2. /\ Writes(call) = SettledJob(StatusOf(call.stage), call.digest)
            /\ KeyOf(call) = StatusOf(call.stage)
        BY <2>0, <3>1, <3>6 DEF Writes, KeyOf
      <4> QED BY <4>1, <4>2 DEF NextRecord, SettledJob
    <3> QED BY <1>1, <3>2, <3>3, <3>4, <3>5, <3>6 DEF Stages
  <2>3. Writes(call) \in Record
    BY <1>1, <2>0, WritesTold
  <2>4. /\ new \in CallRecord /\ new.stage = call.stage /\ new.phase = "empty"
        /\ new.request = call.request /\ new.digest = call.digest
        /\ new.revision = call.revision /\ new.put = Writes(call)
    BY <2>0, <2>2, <2>3 DEF CallRecord
  <2>5. RestsOn(new, files, bytes) /\ HasAtHand(new)
    BY <2>0, <2>4 DEF RestsOn, HasAtHand
  <2>6. Writes(new) = Writes(call) /\ Replaces(new) = Replaces(call)
    <3>1. KeyOf(new) = KeyOf(call)
      BY <2>4 DEF KeyOf
    <3> HIDE DEF new
    <3>2. Writes(new) = Writes(call)
      BY <2>4, <3>1 DEF Writes
    <3>3. Replaces(new) = Replaces(call)
      BY <2>4 DEF Replaces
    <3> QED BY <3>2, <3>3
  <2>7. CallStands(new, files', bytes')
    BY <1>1, <2>0, <2>1, <2>4, <2>5, <2>6
    DEF CallStands, WriteUnderWay, Stages, RenderStages
  <2>8. calls' = [calls EXCEPT ![c] = new]
    BY <1>5
  <2> HIDE DEF new
  <2> QED BY <1>1, <1>2, <1>5, <2>7, <2>8, CallMoves DEF JobInv
<1> QED BY <1>3, <1>4, <1>5 DEF Look

LEMMA EmptyKeeps ==
  ASSUME JobInv, NEW c \in Callers, Empty(c)
  PROVE  JobInv'
<1> DEFINE call == calls[c]
           file == FileOf(call.stage)
           new == [call EXCEPT !.phase = "fill"]
<1>1. /\ call # NoCall /\ call.stage \in Stages /\ call.phase = "empty"
      /\ files' = [files EXCEPT ![file] = Torn] /\ calls' = [calls EXCEPT ![c] = new]
      /\ UNCHANGED <<bytes, answers>>
  BY DEF Empty, At
<1>2. /\ InFlight \subseteq {c} /\ CallStands(call, files, bytes)
      /\ RecordsStand(files, bytes, answers) /\ CallsStand
  BY <1>1, OnlyCall DEF JobInv
<1>3. /\ call \in CallRecord /\ HasAtHand(call) /\ RestsOn(call, files, bytes)
      /\ call.request = "run" <=> call.stage \notin {"request manifest", "request job"}
      /\ files[file] = Replaces(call) /\ call.put = Writes(call)
  BY <1>1, <1>2 DEF CallStands, WriteUnderWay
<1>4. /\ DOMAIN files' = {"manifest", "job"} /\ files'[file] = Torn
      /\ \A other \in {"manifest", "job"} : other # file => files'[other] = files[other]
      /\ file \in {"manifest", "job"}
  BY <1>1, <1>2 DEF RecordsStand, FileOf
<1>5. /\ new \in CallRecord /\ new.stage = call.stage /\ new.phase = "fill"
      /\ new.request = call.request /\ new.digest = call.digest
      /\ new.revision = call.revision /\ new.put = call.put
  BY <1>3 DEF CallRecord
<1>6. RestsOn(new, files', bytes') /\ HasAtHand(new)
  <2>1. HasAtHand(new)
    BY <1>3, <1>5 DEF HasAtHand
  <2>2. RestsOn(new, files', bytes')
    BY <1>1, <1>3, <1>4, <1>5 DEF RestsOn, FileOf, Stages, RenderStages
  <2> QED BY <2>1, <2>2
<1>7. Writes(new) = Writes(call)
  BY <1>5 DEF Writes, KeyOf
<1>8. CallStands(new, files', bytes')
  BY <1>1, <1>3, <1>4, <1>5, <1>6, <1>7 DEF CallStands, WriteUnderWay, Stages, RenderStages
<1>9. CallsStand'
  <2> HIDE DEF new
  <2> QED BY <1>1, <1>2, <1>8, CallMoves
<1>10. RecordsStand(files', bytes', answers)
  <2>0. \/ files[file] = NoRecord
        \/ files[file].status \in {"planned", "rendering", "queued"}
           /\ files[file].key \in {"planned", "rendering", "queued"}
    BY <1>1, <1>3, ReplacesTold
  <2>1. IsManifest(files'["manifest"]) /\ IsJob(files'["job"])
    BY <1>2, <1>4 DEF RecordsStand, IsManifest, IsJob
  <2>2. ASSUME NEW status \in {"rendered", "failed"}, NEW d, SaysIn(files, "job", status, d),
               SaysIn(files, "manifest", status, d)
        PROVE  FALSE
    BY <1>4, <2>0, <2>2 DEF SaysIn
  <2>3. ASSUME NEW status, NEW d, NEW f \in {"manifest", "job"}, SaysIn(files', f, status, d)
        PROVE  SaysIn(files, f, status, d) /\ f # file
    BY <1>4, <2>3 DEF SaysIn
  <2>4. SettlesIn(files', bytes')
    BY <1>2, <2>2, <2>3 DEF RecordsStand, SettlesIn
  <2>5. ASSUME NEW a \in answers
        PROVE  AnswerShape(a) /\ ReportStands(a, files') /\ RequestStays(a, files', answers)
    <3>1. AnswerShape(a) /\ ReportStands(a, files) /\ RequestStays(a, files, answers)
      BY <1>2 DEF RecordsStand
    <3>2. ReportStands(a, files')
      BY <2>2, <3>1 DEF ReportStands
    <3>3. ASSUME a.said = "accepted" PROVE file # "job"
      <4>1. /\ files["job"] # NoRecord /\ files["job"].key \in RequestKeys
        BY <3>1, <3>3 DEF RequestStays, SaysIn, AnswerShape
      <4> QED BY <2>0, <4>1, KeysApart DEF RunKeys
    <3>4. RequestStays(a, files', answers)
      BY <1>4, <3>1, <3>3 DEF RequestStays, SaysIn
    <3> QED BY <3>1, <3>2, <3>4
  <2> QED BY <1>1, <1>2, <1>4, <2>1, <2>4, <2>5 DEF RecordsStand
<1> QED BY <1>1, <1>9, <1>10 DEF JobInv

LEMMA FillKeeps ==
  ASSUME JobInv, NEW c \in Callers, Fill(c)
  PROVE  JobInv'
<1> DEFINE call == calls[c]
           file == FileOf(call.stage)
<1>1. /\ call # NoCall /\ call.stage \in Stages /\ call.phase = "fill"
      /\ Written(c) /\ UNCHANGED bytes
  BY DEF Fill, At
<1>2. /\ InFlight \subseteq {c} /\ CallStands(call, files, bytes)
      /\ RecordsStand(files, bytes, answers) /\ CallsStand
  BY <1>1, OnlyCall DEF JobInv
<1>3. /\ call \in CallRecord /\ HasAtHand(call) /\ RestsOn(call, files, bytes)
      /\ call.request = "run" <=> call.stage \notin {"request manifest", "request job"}
      /\ files[file] = Torn /\ call.put = Writes(call)
  BY <1>1, <1>2 DEF CallStands, WriteUnderWay
<1>4. files' = [files EXCEPT ![file] = call.put]
  BY <1>3 DEF Fill
<1>5. /\ DOMAIN files' = {"manifest", "job"} /\ files'[file] = Writes(call)
      /\ \A other \in {"manifest", "job"} : other # file => files'[other] = files[other]
      /\ file \in {"manifest", "job"}
  BY <1>2, <1>3, <1>4 DEF RecordsStand, FileOf
<1>6. RestsOn(call, files', bytes')
  BY <1>1, <1>3, <1>5 DEF RestsOn, FileOf, Stages, RenderStages
<1>7. /\ file = "manifest" => IsManifest(Writes(call))
      /\ file = "job" => IsJob(Writes(call))
      /\ Writes(call).status = StatusOf(call.stage) /\ Writes(call).digest = call.digest
      /\ Writes(call) \in Record
  BY <1>1, <1>3, WritesTold
<1>8. RecordsStand(files', bytes', answers)
  <2>1. IsManifest(files'["manifest"]) /\ IsJob(files'["job"])
    BY <1>2, <1>5, <1>7 DEF RecordsStand
  <2>2. ASSUME NEW status \in {"rendered", "failed"}, NEW d \in Digests \cup {NoDigest},
               SaysIn(files', "job", status, d)
        PROVE  SaysIn(files', "manifest", status, d) /\ (d \in Digests => bytes'[d] = "whole")
    <3>1. CASE file = "manifest"
      <4>1. SaysIn(files, "job", status, d)
        BY <1>5, <2>2, <3>1 DEF SaysIn
      <4>2. SaysIn(files, "manifest", status, d)
        BY <1>2, <4>1 DEF RecordsStand, SettlesIn
      <4> QED BY <1>3, <3>1, <4>2 DEF SaysIn
    <3>2. CASE file = "job"
      <4>1. StatusOf(call.stage) = status /\ call.digest = d
        BY <1>5, <1>7, <2>2, <3>2 DEF SaysIn
      <4>2. call.stage \in {"rendered job", "failed job"}
        BY <1>1, <3>2, <4>1 DEF StatusOf, FileOf, Stages
      <4>3. files'["manifest"] = SettledManifest(status, d)
        BY <1>6, <4>1, <4>2 DEF RestsOn
      <4>4. SaysIn(files', "manifest", status, d)
        BY <4>3, SettledFields, KeysApart DEF SaysIn
      <4>5. d \in Digests => bytes'[d] = "whole"
        BY <1>3, <1>6, <4>1, <4>2 DEF RestsOn, HasAtHand
      <4> QED BY <4>4, <4>5
    <3> QED BY <1>5, <3>1, <3>2
  <2>3. ASSUME NEW a \in answers
        PROVE  AnswerShape(a) /\ ReportStands(a, files') /\ RequestStays(a, files', answers)
    <3>1. AnswerShape(a) /\ ReportStands(a, files) /\ RequestStays(a, files, answers)
      BY <1>2 DEF RecordsStand
    <3>2. a.said \notin {"rendered", "failed"}
      BY <1>3, <1>5, <3>1 DEF ReportStands, SaysIn
    <3>3. ASSUME a.said = "accepted" PROVE file # "job"
      BY <1>3, <3>1, <3>3 DEF RequestStays, SaysIn
    <3>4. RequestStays(a, files', answers)
      BY <1>5, <3>1, <3>3 DEF RequestStays, SaysIn
    <3> QED BY <3>1, <3>2, <3>4 DEF ReportStands
  <2>4. SettlesIn(files', bytes')
    BY <2>2 DEF SettlesIn
  <2> QED BY <1>1, <1>2, <1>5, <2>1, <2>3, <2>4 DEF RecordsStand
<1> QED BY <1>1, <1>2, <1>5, <1>6, <1>8, WrittenKeeps

LEMMA ReadBackKeeps ==
  ASSUME JobInv, NEW c \in Callers, ReadBack(c)
  PROVE  JobInv'
<1> DEFINE call == calls[c]
           file == FileOf(call.stage)
           onFile == files[file]
<1>1. /\ call # NoCall /\ call.stage \in Stages /\ call.phase = "read back"
      /\ UNCHANGED <<files, bytes>>
  BY DEF ReadBack, At
<1>2. /\ InFlight \subseteq {c} /\ CallStands(call, files, bytes)
      /\ RecordsStand(files, bytes, answers) /\ CallsStand
  BY <1>1, OnlyCall DEF JobInv
<1>3. /\ call \in CallRecord /\ HasAtHand(call) /\ RestsOn(call, files, bytes)
      /\ call.request = "run" /\ call.stage \notin {"request manifest", "request job"}
      /\ onFile = Writes(call) /\ Writes(call) \in Record
  BY <1>1, <1>2, WritesTold DEF CallStands, WriteUnderWay
<1>4. onFile \notin {NoRecord, Torn}
  BY <1>3, KeysApart
<1>5. CASE call.stage \in {"rendered job", "failed job"}
  <2>1. PICK status \in {"rendered", "failed"} : status = StatusOf(call.stage)
    BY <1>5 DEF StatusOf
  <2>2. PICK d \in Digests \cup {NoDigest} : d = call.digest
    BY <1>3 DEF CallRecord
  <2> DEFINE a == Finished(call, status)
  <2>3. Answer(c, a)
    BY <1>4, <1>5, <2>1 DEF ReadBack
  <2>4. files["manifest"] = SettledManifest(status, d) /\ files["job"] = SettledJob(status, d)
    BY <1>3, <1>5, <2>1, <2>2 DEF RestsOn, Writes, FileOf
  <2>5. SaysIn(files, "manifest", status, d) /\ SaysIn(files, "job", status, d)
    <3>1. /\ SettledManifest(status, d) \in Record /\ SettledManifest(status, d).status = status
          /\ SettledManifest(status, d).digest = d
      BY SettledFields
    <3>2. /\ SettledJob(status, d) \in Record /\ SettledJob(status, d).status = status
          /\ SettledJob(status, d).digest = d
      BY SettledJobFields
    <3> QED BY <2>4, <3>1, <3>2, KeysApart DEF SaysIn
  <2>6. Outcome(status, d)
    BY <1>3, <1>5, <2>1, <2>2 DEF Outcome, HasAtHand, StatusOf
  <2>7. a.by = "run" /\ a.said = status /\ a.digest = d
        /\ a \in [by : RequestKeys \cup {"run"},
                  said : {"blocked", "accepted", "rendered", "failed"},
                  digest : Digests \cup {NoDigest}]
    BY <1>3, <2>2 DEF Finished
  <2>8. AnswerShape(a) /\ ReportStands(a, files') /\ a.said # "accepted"
    BY <1>1, <2>5, <2>6, <2>7 DEF AnswerShape, ReportStands
  <2> HIDE DEF a
  <2> QED BY <1>1, <1>2, <2>3, <2>8, AnswerKeeps
<1>6. CASE call.stage \notin {"rendered job", "failed job"}
  <2> DEFINE new == [call EXCEPT !.stage = AfterWrite(call), !.phase = "look",
                                 !.revision[file] = onFile.revision]
  <2>1. calls' = [calls EXCEPT ![c] = new] /\ UNCHANGED answers
    BY <1>4, <1>6 DEF ReadBack
  <2>2. /\ AfterWrite(call) \in {"queued", "rendering", "render", "rendered job", "failed job"}
        /\ onFile.revision \in 0 .. 4 /\ file \in {"manifest", "job"}
    BY <1>1, <1>3, <1>6 DEF AfterWrite, Stages, Record, FileOf
  <2>3. /\ new \in CallRecord /\ new.stage = AfterWrite(call) /\ new.phase = "look"
        /\ new.request = "run" /\ new.digest = call.digest
        /\ new.revision[file] = onFile.revision
        /\ \A other \in {"manifest", "job"} \ {file} : new.revision[other] = call.revision[other]
    BY <1>3, <2>2 DEF CallRecord, Stages, RenderStages
  <2> HIDE DEF new
  <2>8. CallStands(new, files', bytes') => JobInv'
    BY <1>1, <1>2, <2>1, CallMoves DEF JobInv
  <2>4. CASE call.stage = "planned"
    <3>1. new.stage = "queued" /\ file = "manifest" /\ onFile = PlannedOf("planned")
      BY <1>3, <2>3, <2>4, KeysApart DEF AfterWrite, FileOf, Writes, KeyOf, StatusOf
    <3>2. onFile.revision = 0
      BY <3>1, PlannedFields
    <3>9. CallStands(new, files', bytes')
      BY <1>1, <1>3, <2>3, <2>4, <3>1, <3>2
      DEF CallStands, RestsOn, HasAtHand, WriteUnderWay, Creates, Stages, RenderStages
    <3> QED BY <2>8, <3>9
  <2>5. CASE call.stage = "queued"
    <3>1. new.stage = "rendering" /\ file = "job" /\ onFile = QueuedOf("queued")
      BY <1>3, <2>3, <2>5, KeysApart DEF AfterWrite, FileOf, Writes, KeyOf, StatusOf
    <3>2. onFile.revision = 0 /\ FileOf("rendering") = "manifest"
      BY <3>1, QueuedFields DEF FileOf
    <3>3. Replaces(new) = files["manifest"]
      BY <1>3, <2>5, <3>1 DEF Replaces, RestsOn, Creates
    <3>9. CallStands(new, files', bytes')
      BY <1>1, <1>3, <2>3, <2>5, <3>1, <3>2, <3>3
      DEF CallStands, RestsOn, HasAtHand, WriteUnderWay, Stages, RenderStages
    <3> QED BY <2>8, <3>9
  <2>6. CASE call.stage = "rendering"
    <3>1. new.stage = "render" /\ file = "manifest" /\ onFile = RenderingManifest
      BY <1>3, <2>3, <2>6 DEF AfterWrite, FileOf, Writes
    <3>2. onFile.revision = 1
      BY <3>1, RenderingFields
    <3>9. CallStands(new, files', bytes')
      BY <1>1, <1>3, <2>3, <2>6, <3>1, <3>2
      DEF CallStands, RestsOn, HasAtHand, WriteUnderWay, Stages, RenderStages
    <3> QED BY <2>8, <3>9
  <2>7. CASE call.stage \in {"rendered", "failed"}
    <3>1. /\ new.stage = IF call.stage = "rendered" THEN "rendered job" ELSE "failed job"
          /\ file = "manifest" /\ onFile = SettledManifest(call.stage, call.digest)
          /\ StatusOf(new.stage) = call.stage /\ FileOf(new.stage) = "job"
      BY <1>3, <2>3, <2>7 DEF AfterWrite, FileOf, Writes, StatusOf
    <3>2. Replaces(new) = files["job"]
      BY <1>3, <2>7, <3>1 DEF Replaces, RestsOn, Creates
    <3>9. CallStands(new, files', bytes')
      BY <1>1, <1>3, <2>3, <2>7, <3>1, <3>2
      DEF CallStands, RestsOn, HasAtHand, WriteUnderWay, Stages, RenderStages
    <3> QED BY <2>8, <3>9
  <2> QED BY <1>1, <1>3, <1>6, <2>4, <2>5, <2>6, <2>7 DEF Stages
<1> QED BY <1>5, <1>6

-----------------------------------------------------------------------------
(* The rendering. *)

LEMMA RenderingKeeps ==
  ASSUME JobInv, NEW c \in Callers, Render(c) \/ EmptyBytes(c) \/ FillBytes(c) \/ Verify(c)
  PROVE  JobInv'
<1> DEFINE call == calls[c]
<1>1. call # NoCall /\ call.stage \in RenderStages /\ UNCHANGED <<files, answers>>
  BY DEF Render, EmptyBytes, FillBytes, Verify, Rendering, RenderStages
<1>2. /\ InFlight \subseteq {c} /\ CallStands(call, files, bytes)
      /\ RecordsStand(files, bytes, answers) /\ CallsStand
  BY <1>1, OnlyCall DEF JobInv
<1>3. /\ call \in CallRecord /\ HasAtHand(call) /\ call.phase = "look"
      /\ call.request = "run" /\ call.revision["manifest"] = 1 /\ call.revision["job"] = 0
      /\ files["job"] = QueuedOf("queued") /\ files["manifest"] = RenderingManifest
      /\ call.stage # "render" => call.digest \in Digests
  BY <1>1, <1>2 DEF CallStands, RestsOn, HasAtHand, RenderStages
<1>4. RecordsStand(files, bytes', answers)
  <2>1. bytes' \in [Digests -> {"missing", "torn", "whole"}]
    <3>1. bytes \in [Digests -> {"missing", "torn", "whole"}]
      BY <1>2 DEF RecordsStand
    <3> QED BY <1>3, <3>1 DEF Render, EmptyBytes, FillBytes, Verify, Rendering
  <2>2. SettlesIn(files, bytes')
    BY <1>3, QueuedFields DEF SettlesIn, SaysIn
  <2> QED BY <1>2, <2>1, <2>2 DEF RecordsStand
<1>5. ASSUME NEW stage \in {"bytes", "fill bytes", "verify", "rendered"}, NEW d \in Digests,
             stage = "rendered" => bytes'[d] = "whole",
             calls' = [calls EXCEPT ![c] = [call EXCEPT !.stage = stage, !.phase = "look",
                                                        !.digest = d]]
      PROVE  JobInv'
  <2> DEFINE new == [call EXCEPT !.stage = stage, !.phase = "look", !.digest = d]
  <2>1. /\ new \in CallRecord /\ new.stage = stage /\ new.phase = "look" /\ new.digest = d
        /\ new.request = "run" /\ new.revision = call.revision
    BY <1>3 DEF CallRecord, Stages, RenderStages
  <2> HIDE DEF new
  <2>2. stage = "rendered" => Replaces(new) = RenderingManifest /\ FileOf(new.stage) = "manifest"
    BY <2>1 DEF Replaces, FileOf, Creates
  <2>3. CallStands(new, files', bytes')
    BY <1>1, <1>3, <1>5, <2>1, <2>2
    DEF CallStands, RestsOn, HasAtHand, WriteUnderWay, Stages, RenderStages
  <2>4. CallsStand'
    BY <1>2, <1>5, <2>3, CallMoves DEF new
  <2> QED BY <1>1, <1>4, <2>4 DEF JobInv
<1>6. ASSUME calls' = [calls EXCEPT ![c] = [call EXCEPT !.stage = "failed", !.phase = "look",
                                                        !.digest = NoDigest]]
      PROVE  JobInv'
  <2> DEFINE new == [call EXCEPT !.stage = "failed", !.phase = "look", !.digest = NoDigest]
  <2>1. /\ new \in CallRecord /\ new.stage = "failed" /\ new.phase = "look"
        /\ new.digest = NoDigest /\ new.request = "run" /\ new.revision = call.revision
    BY <1>3 DEF CallRecord, Stages, RenderStages
  <2> HIDE DEF new
  <2>2. Replaces(new) = RenderingManifest /\ FileOf(new.stage) = "manifest"
    BY <2>1 DEF Replaces, FileOf, Creates
  <2>3. CallStands(new, files', bytes')
    BY <1>1, <1>3, <2>1, <2>2, KeysApart
    DEF CallStands, RestsOn, HasAtHand, WriteUnderWay, Stages, RenderStages
  <2>4. CallsStand'
    BY <1>2, <1>6, <2>3, CallMoves DEF new
  <2> QED BY <1>1, <1>4, <2>4 DEF JobInv
<1>7. ASSUME Goes(c, "failed") PROVE JobInv'
  <2>1. calls' = [calls EXCEPT ![c] = [call EXCEPT !.stage = "failed", !.phase = "look",
                                                   !.digest = NoDigest]]
    BY <1>7 DEF Goes
  <2> QED BY <1>6, <2>1
<1>8. ASSUME NEW stage \in {"fill bytes", "verify", "rendered"}, Goes(c, stage),
             call.stage # "render", stage = "rendered" => bytes'[call.digest] = "whole"
      PROVE  JobInv'
  <2>1. calls' = [calls EXCEPT ![c] = [call EXCEPT !.stage = stage, !.phase = "look",
                                                   !.digest = call.digest]]
    BY <1>8 DEF Goes
  <2> QED BY <1>3, <1>5, <1>8, <2>1
<1>9. CASE Render(c)
  <2>1. CASE \E d \in Digests : calls' = [calls EXCEPT ![c].stage = "bytes", ![c].digest = d]
    <3>1. PICK d \in Digests : calls' = [calls EXCEPT ![c].stage = "bytes", ![c].digest = d]
      BY <2>1
    <3>2. [call EXCEPT !.stage = "bytes", !.digest = d]
            = [call EXCEPT !.stage = "bytes", !.phase = "look", !.digest = d]
      BY <1>3 DEF CallRecord
    <3>3. calls' = [calls EXCEPT ![c] = [call EXCEPT !.stage = "bytes", !.phase = "look",
                                                     !.digest = d]]
      BY <3>1, <3>2
    <3> QED BY <1>5, <3>3
  <2> QED BY <1>7, <1>9, <2>1 DEF Render
<1>10. CASE EmptyBytes(c)
  BY <1>8, <1>10 DEF EmptyBytes, Rendering
<1>11. CASE FillBytes(c)
  BY <1>7, <1>8, <1>11 DEF FillBytes, Rendering
<1>12. CASE Verify(c)
  BY <1>7, <1>8, <1>12 DEF Verify, Rendering
<1> QED BY <1>9, <1>10, <1>11, <1>12

-----------------------------------------------------------------------------
(* The calls begin and are lost. *)

LEMMA InitJob == Init => JobInv
<1> SUFFICES ASSUME Init PROVE JobInv
  OBVIOUS
<1>1. CallsStand
  BY DEF Init, CallsStand, InFlight
<1>2. RecordsStand(files, bytes, answers)
  BY DEF Init, RecordsStand, IsManifest, IsJob, SettlesIn, SaysIn
<1> QED BY <1>1, <1>2 DEF JobInv

\* The call that begins.
FirstCall(stage, request) ==
  [stage |-> stage, phase |-> "look", request |-> request, put |-> NoRecord, digest |-> NoDigest,
   revision |-> [f \in {"manifest", "job"} |-> 0], ok |-> TRUE]

LEMMA NoRevisionsYet == [f \in {"manifest", "job"} |-> 0] \in [{"manifest", "job"} -> 0 .. 4]
  OBVIOUS

LEMMA FirstCallShape ==
  ASSUME NEW first \in Stages, NEW by \in RequestKeys \cup {"run"}
  PROVE  LET new == FirstCall(first, by) IN
         /\ new \in CallRecord /\ new.stage = first /\ new.phase = "look"
         /\ new.request = by /\ new.digest = NoDigest
<1>1. PICK zeros \in [{"manifest", "job"} -> 0 .. 4] :
        FirstCall(first, by) =
          [stage |-> first, phase |-> "look", request |-> by, put |-> NoRecord,
           digest |-> NoDigest, revision |-> zeros, ok |-> TRUE]
  BY NoRevisionsYet, Zenon DEF FirstCall
<1> QED BY <1>1 DEF CallRecord

LEMMA FirstCallStands ==
  ASSUME NEW first, NEW by \in RequestKeys \cup {"run"}, NEW fs, NEW bs,
         (first = "planned" /\ by = "run") \/ (first = "request manifest" /\ by # "run")
  PROVE  CallStands(FirstCall(first, by), fs, bs)
<1>1. PICK new : new = FirstCall(first, by)
  OBVIOUS
<1>2. first \in Stages
  BY DEF Stages
<1>3. /\ new \in CallRecord /\ new.stage = first /\ new.phase = "look"
      /\ new.request = by /\ new.digest = NoDigest
  BY <1>1, <1>2, FirstCallShape
<1>4. CallStands(new, fs, bs)
  BY <1>3, KeysApart
  DEF CallStands, RestsOn, HasAtHand, WriteUnderWay, Creates, Stages, RenderStages
<1> QED BY <1>1, <1>4

\* Where one call is under way at most, one begins when none is.
LEMMA NoneUnderWay ==
  ASSUME MaxInFlight = 1, CallsStand, Cardinality(InFlight) < MaxInFlight
  PROVE  InFlight = {}
<1>1. ASSUME NEW d \in InFlight PROVE FALSE
  <2>1. InFlight = {d}
    BY <1>1 DEF CallsStand
  <2>2. Cardinality(InFlight) = 1
    BY <2>1, FS_Singleton
  <2> QED BY <2>2
<1> QED BY <1>1

LEMMA BeginKeeps ==
  ASSUME MaxInFlight = 1, JobInv, NEW c \in Callers,
         NEW first, NEW by \in RequestKeys \cup {"run"},
         (first = "planned" /\ by = "run") \/ (first = "request manifest" /\ by # "run"),
         Begin(c, first, by)
  PROVE  JobInv'
<1>1. InFlight = {}
  BY NoneUnderWay DEF Begin, JobInv
<1>2. calls' = [calls EXCEPT ![c] = FirstCall(first, by)] /\ UNCHANGED <<files, bytes, answers>>
  BY Zenon DEF Begin, FirstCall
<1>3. CallStands(FirstCall(first, by), files', bytes')
  BY FirstCallStands
<1> QED BY <1>1, <1>2, <1>3, CallMoves DEF JobInv

LEMMA NextKeepsJob ==
  ASSUME MaxInFlight = 1, JobInv, [Next]_vars
  PROVE  JobInv'
<1>1. ASSUME NEW c \in Callers, Step(c) PROVE JobInv'
  <2>1. CASE WriteFails(c)
    BY <2>1, RefusedKeeps DEF WriteFails, At
  <2> QED BY <1>1, <2>1, LookKeeps, EmptyKeeps, FillKeeps, ReadBackKeeps, RenderingKeeps DEF Step
<1>2. ASSUME NEW c \in Callers, StartRun(c) \/ \E k \in RequestKeys : StartRequest(c, k)
      PROVE  JobInv'
  <2>1. CASE StartRun(c)
    BY <2>1, BeginKeeps DEF StartRun
  <2>2. ASSUME NEW k \in RequestKeys, StartRequest(c, k) PROVE JobInv'
    BY <2>2, BeginKeeps, KeysApart DEF StartRequest
  <2> QED BY <1>2, <2>1, <2>2
<1>3. CASE Crash
  <2>1. CallsStand'
    BY <1>3 DEF Crash, CallsStand, InFlight
  <2> QED BY <1>3, <2>1 DEF Crash, JobInv
<1>4. CASE UNCHANGED vars
  BY <1>4 DEF vars, JobInv, CallsStand, InFlight
<1> QED BY <1>1, <1>2, <1>3, <1>4 DEF Next

LEMMA JobInvGives ==
  JobInv => JobSettlesLast /\ ReportsStand /\ RequestsStayQueued
<1>1. \A file, status, d : Says(file, status, d) <=> SaysIn(files, file, status, d)
  BY DEF Says, SaysIn
<1> SUFFICES ASSUME JobInv PROVE JobSettlesLast /\ ReportsStand /\ RequestsStayQueued
  OBVIOUS
<1>2. RecordsStand(files, bytes, answers)
  BY DEF JobInv
<1>3. JobSettlesLast
  BY <1>1, <1>2 DEF RecordsStand, SettlesIn, JobSettlesLast
<1>4. ReportsStand
  BY <1>1, <1>2 DEF RecordsStand, ReportStands, ReportsStand
<1>5. RequestsStayQueued
  BY <1>1, <1>2 DEF RecordsStand, RequestStays, RequestsStayQueued
<1> QED BY <1>3, <1>4, <1>5

\* Every call knows where it is in its two records, and the records stand
\* together with what runs have reported.
THEOREM JobInvariant == MaxInFlight = 1 => (Spec => []JobInv)
<1> SUFFICES ASSUME MaxInFlight = 1 PROVE Spec => []JobInv
  OBVIOUS
<1>1. JobInv /\ [Next]_vars => JobInv'
  BY NextKeepsJob
<1> QED BY <1>1, InitJob, PTL DEF Spec

\* Of calls that come one at a time, the job record settles last: whatever
\* crash or I/O error falls between the writes of this run or a later one, a
\* job file that says rendered or failed has a manifest that says the same, and
\* the bytes of a rendered job are whole.
THEOREM JobAlwaysSettlesLast == MaxInFlight = 1 => (Spec => []JobSettlesLast)
BY JobInvGives, JobInvariant, PTL

\* What a run reported stays true of both records for good.
THEOREM ReportsAlwaysStand == MaxInFlight = 1 => (Spec => []ReportsStand)
BY JobInvGives, JobInvariant, PTL

\* A job created by an accepted request stays queued for good, and no run of it
\* ever gets further than its blocked answer.
THEOREM RequestsAlwaysStayQueued == MaxInFlight = 1 => (Spec => []RequestsStayQueued)
BY JobInvGives, JobInvariant, PTL
=============================================================================
