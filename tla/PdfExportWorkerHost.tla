------------------------- MODULE PdfExportWorkerHost -------------------------
(***************************************************************************)
(* One worker host (pdfExportLocalWorkerHost.ts) over many operations: the *)
(* cycle that lists a page of due work and runs its entries in order, the  *)
(* shutdown gate it reserves every entry with (pdfExportShutdownDrain.ts), *)
(* a graceful drain, and a force stop.                                     *)
(*                                                                         *)
(* What PdfExportExecution tells apart within one execution is here one    *)
(* step of its owner: of a head remain the status, the time it is due, the *)
(* attempts and the revision.  An operation in Broken is one whose         *)
(* execution always throws, such as one whose request can no longer be     *)
(* reconstructed from its document.                                        *)
(***************************************************************************)
EXTENDS Integers, FiniteSets, Sequences

CONSTANTS
  Operations,     \* operation ids, in the order of the listing
  Broken,         \* operations whose execution throws
  MaxBatch,       \* maxBatchCount
  MaxAttempts,
  Lifetime,       \* deadlineAt - acceptedAt
  ClaimDuration,
  RetryDelay,
  OwnerSteps,     \* lifecycle transitions of one execution after its claim
  LastAccepted,   \* bound: the latest acceptedAt
  MaxTime,        \* bound: end of the clock
  MayDrain,       \* bound: whether the host is drained
  MayForce        \* bound: whether the host is stopped by force

ASSUME WorkerHostAssumption ==
  /\ Operations \subseteq Nat /\ IsFiniteSet(Operations)
  /\ Broken \subseteq Operations
  /\ {MaxBatch, MaxAttempts, Lifetime, ClaimDuration, RetryDelay} \subseteq Nat \ {0}
  /\ {OwnerSteps, LastAccepted, MaxTime} \subseteq Nat
  /\ MayDrain \in BOOLEAN /\ MayForce \in BOOLEAN

VARIABLES
  now,
  head,      \* of each operation: status, due, attempts, revision
  accepted,  \* acceptedAt of each operation
  terminal,  \* operations with a terminal completion
  gate,      \* status, active reservations and stopReason
  host,      \* the host's loop
  force      \* its force stop

hostVars == <<now, head, accepted, terminal, gate, host, force>>

NoOp == -1
Entry == {"entry", "claim", "execute", "settle", "release"}   \* while an entry is reserved

WorkerHostInit ==
  /\ now = 0
  /\ accepted \in [Operations -> 0 .. LastAccepted]
  /\ head = [o \in Operations |->
       [status |-> "pending", due |-> accepted[o], attempts |-> 0, revision |-> 0]]
  /\ terminal = {}
  /\ gate = [status |-> "accepting", active |-> 0, reason |-> "none"]
  /\ host = [pc |-> "scan", page |-> <<>>, op |-> NoOp, revision |-> 0, at |-> 0, steps |-> 0]
  /\ force = [pc |-> "idle", op |-> NoOp, revision |-> 0, tries |-> 0]

Deadline(o) == accepted[o] + Lifetime
MinOf(a, b) == IF a < b THEN a ELSE b

\* A transition of an operation's head.
Put(o, status, due, attempts) ==
  head' = [head EXCEPT ![o] = [status |-> status, due |-> due, attempts |-> attempts,
                               revision |-> @.revision + 1]]

Current(o) == head[o].revision = host.revision
KeepHeads == UNCHANGED <<head, accepted, terminal>>
OnlyHost == UNCHANGED <<now, gate, force>> /\ KeepHeads
HostAt(pc) == host' = [host EXCEPT !.pc = pc]

-----------------------------------------------------------------------------
(* The due page: listDueWork with a null cursor. *)

Before(p, q) == head[p].due < head[q].due \/ (head[p].due = head[q].due /\ p < q)

DueNow == {o \in Operations \ terminal : head[o].due <= now}

RankOf(o) == Cardinality({p \in DueNow : Before(p, o)}) + 1

\* Mutation: the page leaves out the row that was read to find its end.
DuePageShort == [i \in 1 .. MinOf(MaxBatch - 1, Cardinality(DueNow)) |->
                   CHOOSE o \in DueNow : RankOf(o) = i]

DuePage == [i \in 1 .. MinOf(MaxBatch, Cardinality(DueNow)) |->
              CHOOSE o \in DueNow : RankOf(o) = i]

\* A closed gate ends the loop; otherwise the page is listed afresh.
Scan ==
  /\ host.pc = "scan"
  /\ \/ gate.status # "accepting" /\ HostAt("ended")
     \/ /\ gate.status = "accepting"
        /\ host' = [host EXCEPT !.pc = "next", !.page = DuePage]
  /\ OnlyHost

\* reserveClaim: a closed gate breaks off the page.
Reserve ==
  /\ host.pc = "next"
  /\ host.page # <<>>
  /\ UNCHANGED <<now, force>> /\ KeepHeads
  /\ \/ /\ gate.status = "accepting"
        /\ gate' = [gate EXCEPT !.active = 1]
        /\ host' = [host EXCEPT !.pc = "entry", !.page = Tail(@), !.op = Head(host.page),
                                !.at = now, !.steps = 0]
     \/ /\ gate.status # "accepting"
        /\ host' = [host EXCEPT !.page = <<>>]
        /\ UNCHANGED gate

\* The page is done: the host sleeps until its next poll, and a drain wakes it.
EndCycle ==
  /\ host.pc = "next"
  /\ host.page = <<>>
  /\ HostAt("scan")
  /\ OnlyHost

-----------------------------------------------------------------------------
(* One entry: runFlowDocBackendPdfExportLocalDueWorkEntryV1. *)

\* Mutation: the end of a drained entry leaves the gate draining.
GateAfterOpen == [gate EXCEPT !.active = 0]

\* releaseClaim: the last reservation of a drain stops the gate; a reservation
\* that a force stop has taken away is gone already.
GateAfter ==
  IF gate.status = "draining"
  THEN [status |-> "stopped", active |-> 0, reason |-> "shutdown-drain-complete"]
  ELSE [gate EXCEPT !.active = 0]

Leave ==
  /\ host' = [host EXCEPT !.pc = "next", !.op = NoOp]
  /\ gate' = GateAfter
  /\ UNCHANGED <<now, force>>

StayInEntry == UNCHANGED <<now, gate, force>>

ReadEntry ==
  /\ host.pc = "entry"
  /\ KeepHeads
  /\ LET h == head[host.op] IN
     \/ /\ \/ host.op \in terminal
           \/ h.status # "stopped" /\ h.due > host.at
        /\ Leave
     \/ /\ host.op \notin terminal
        /\ h.status = "stopped"
        /\ host' = [host EXCEPT !.pc = "execute", !.revision = h.revision]
        /\ StayInEntry
     \/ /\ host.op \notin terminal
        /\ h.status # "stopped" /\ h.due <= host.at
        /\ host' = [host EXCEPT !.pc = "claim", !.revision = h.revision]
        /\ StayInEntry

Claimable(o) == host.at < Deadline(o) /\ head[o].attempts < MaxAttempts

\* Late or exhausted work is stopped instead of claimed, and then finalized.
ClaimEntry ==
  /\ host.pc = "claim"
  /\ UNCHANGED <<accepted, terminal>>
  /\ LET o == host.op
         h == head[host.op] IN
     \/ /\ ~Current(o) \/ h.status = "stopped"
        /\ Leave /\ UNCHANGED head
     \/ /\ Current(o)
        /\ StayInEntry
        /\ \/ /\ ~Claimable(o)
              /\ Put(o, "stopped", host.at, h.attempts)
           \/ /\ Claimable(o)
              /\ Put(o, "claimed", MinOf(host.at + ClaimDuration, Deadline(o)), h.attempts + 1)
        /\ host' = [host EXCEPT !.pc = "execute", !.revision = @ + 1]

\* The execution moves the head of its own claim on and ends the operation; one
\* whose head was moved by others may also end blocked, and that of a broken
\* operation throws before its first call.
ExecuteEntry ==
  /\ host.pc = "execute"
  /\ LET o == host.op
         h == head[host.op] IN
     \/ /\ o \in Broken \/ ~Current(o)
        /\ HostAt("settle") /\ KeepHeads /\ StayInEntry
     \/ /\ o \notin Broken
        /\ h.status = "claimed" /\ Current(o) /\ host.steps < OwnerSteps
        /\ Put(o, "claimed", h.due, h.attempts)
        /\ host' = [host EXCEPT !.revision = @ + 1, !.steps = @ + 1]
        /\ UNCHANGED <<accepted, terminal>> /\ StayInEntry
     \/ /\ o \notin Broken
        /\ terminal' = terminal \cup {o}
        /\ Leave /\ UNCHANGED <<head, accepted>>

\* After an execution that threw: only a claim that is its own is released.
SettleEntry ==
  /\ host.pc = "settle"
  /\ KeepHeads
  /\ LET o == host.op
         mine == head[o].status = "claimed" /\ Current(o)
         inTime == now < head[o].due /\ now + RetryDelay < Deadline(o) IN
     \/ ~(mine /\ inTime) /\ Leave
     \/ /\ mine /\ inTime
        /\ host' = [host EXCEPT !.pc = "release", !.at = now]
        /\ StayInEntry

ReleaseEntry ==
  /\ host.pc = "release"
  /\ Leave
  /\ UNCHANGED <<accepted, terminal>>
  /\ LET o == host.op
         h == head[host.op] IN
     \/ /\ Current(o) /\ h.attempts < MaxAttempts
        /\ Put(o, "pending", host.at + RetryDelay, h.attempts)
     \/ /\ Current(o) /\ h.attempts >= MaxAttempts
        /\ Put(o, "stopped", host.at, h.attempts)
     \/ /\ ~Current(o)
        /\ UNCHANGED head

-----------------------------------------------------------------------------
(* Shutdown. *)

\* Mutation: the drain does not wait for the reservation.
DrainedGateAtOnce == [gate EXCEPT !.status = "stopped", !.reason = "shutdown-drain-complete"]

DrainedGate ==
  IF gate.active = 0
  THEN [gate EXCEPT !.status = "stopped", !.reason = "shutdown-drain-complete"]
  ELSE [gate EXCEPT !.status = "draining"]

BeginDrain ==
  /\ MayDrain
  /\ gate.status = "accepting"
  /\ gate' = DrainedGate
  /\ UNCHANGED <<now, host, force>> /\ KeepHeads

\* The gate stops and forgets the reservation; its operation is stopped next.
ForceStop ==
  /\ MayForce
  /\ force.pc = "idle"
  /\ gate.status # "stopped"
  /\ gate' = [status |-> "stopped", active |-> 0, reason |-> "shutdown-forced"]
  /\ force' = [force EXCEPT !.pc = IF host.op = NoOp THEN "done" ELSE "terminal", !.op = host.op]
  /\ UNCHANGED <<now, host>> /\ KeepHeads

ForceAt(pc) == force' = [force EXCEPT !.pc = pc]

ForceReadTerminal ==
  /\ force.pc = "terminal"
  /\ ForceAt(IF force.op \in terminal THEN "done" ELSE "read")
  /\ UNCHANGED <<now, gate, host>> /\ KeepHeads

ForceReadHead ==
  /\ force.pc = "read"
  /\ \/ head[force.op].status = "stopped" /\ ForceAt("done")
     \/ /\ head[force.op].status # "stopped"
        /\ force' = [force EXCEPT !.pc = "apply", !.revision = head[force.op].revision]
  /\ UNCHANGED <<now, gate, host>> /\ KeepHeads

\* A stale answer is tried once more.
MayRetryForce == force.tries = 0

ForceApply ==
  /\ force.pc = "apply"
  /\ UNCHANGED <<now, gate, host, accepted, terminal>>
  /\ LET h == head[force.op] IN
     \/ /\ h.revision = force.revision
        /\ Put(force.op, "stopped", now, h.attempts)
        /\ ForceAt("done")
     \/ /\ h.revision # force.revision
        /\ force' = [force EXCEPT !.pc = IF MayRetryForce THEN "read" ELSE "done", !.tries = @ + 1]
        /\ UNCHANGED head

Tick ==
  /\ now < MaxTime
  /\ now' = now + 1
  /\ UNCHANGED <<gate, host, force>> /\ KeepHeads

HostStep ==
  \/ Scan \/ Reserve \/ EndCycle
  \/ ReadEntry \/ ClaimEntry \/ ExecuteEntry \/ SettleEntry \/ ReleaseEntry

ForceStep == ForceReadTerminal \/ ForceReadHead \/ ForceApply

WorkerHostNext == HostStep \/ BeginDrain \/ ForceStop \/ ForceStep \/ Tick

WorkerHostSpec == WorkerHostInit /\ [][WorkerHostNext]_hostVars

\* The loop polls for ever, calls return, and time passes.
FairWorkerHostSpec ==
  /\ WorkerHostSpec
  /\ WF_hostVars(Tick) /\ WF_hostVars(HostStep) /\ WF_hostVars(ForceStep)

-----------------------------------------------------------------------------
(* Properties. *)

WorkerHostTypeOK ==
  /\ now \in 0 .. MaxTime
  /\ head \in [Operations -> [status : {"pending", "claimed", "stopped"}, due : Nat,
                              attempts : 0 .. MaxAttempts, revision : Nat]]
  /\ terminal \subseteq Operations
  /\ gate \in [status : {"accepting", "draining", "stopped"}, active : 0 .. 1,
               reason : {"none", "shutdown-drain-complete", "shutdown-forced"}]
  /\ host.pc \in Entry \cup {"scan", "next", "ended"}
  /\ host.op \in Operations \cup {NoOp}
  /\ force.pc \in {"idle", "terminal", "read", "apply", "done"}

\* Only a force stop takes the gate away from a running entry: a drained gate is
\* stopped when nothing runs, and nothing runs on a gate that was stopped so.
DrainWaits ==
  host.pc \in Entry =>
    \/ gate.active = 1 /\ gate.status # "stopped"
    \/ gate.reason = "shutdown-forced"

\* A drain comes to its end, and the loop with it.
DrainEnds ==
  gate.status = "draining" ~> (gate.status = "stopped" /\ host.pc = "ended")

\* A host that keeps running ends every operation it can execute, whatever
\* becomes of the entries listed before it, while those that always fail are
\* fewer than a page holds.
EverythingEnds ==
  Cardinality(Broken) < MaxBatch =>
    \A o \in Operations \ Broken : <>(o \in terminal \/ gate.status # "accepting")

-----------------------------------------------------------------------------
(* What the documentation says, and the program does not do. *)

\* docs/PDF_EXPORT_LOCAL_DURABLE_WORKER.md:73-74: fresh scans are intentional,
\* processed entries move out of the due set.  So the entries behind them have
\* their turn.
NoEntryStarved ==
  \A o \in Operations \ Broken : <>(o \in terminal \/ gate.status # "accepting")
=============================================================================
