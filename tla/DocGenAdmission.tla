-------------------------- MODULE DocGenAdmission --------------------------
(***************************************************************************)
(* DocGen admission under one caller key: services (docGenLocalAdmission.ts)*)
(* of several processes over one durable repository                        *)
(* (docGenLocalAdmissionSqliteRepository.ts).  A service lets concurrent   *)
(* calls with one request share one execution (inFlight); between          *)
(* processes only the insert transaction decides.  A step goes from one    *)
(* await to the next.                                                      *)
(***************************************************************************)
EXTENDS Naturals

CONSTANTS
  Callers,    \* the calls of admit that can be under way
  Services,   \* processes with an admission service
  Requests,   \* request fingerprints
  Unbound,    \* the key has no record
  Nobody,     \* no execution is in flight
  MaxFaults   \* bound on failed calls and crashes

ASSUME AdmissionAssumption ==
  Unbound \notin Requests /\ Nobody \notin Callers /\ MaxFaults \in Nat

VARIABLES
  record,     \* the request of the protected admission record
  calls,      \* each caller's call of admit
  inFlight,   \* each service's execution for the key, by its caller
  told,       \* the requests whose receipts were told
  creations,  \* how often one was told as created
  faults      \* faults so far

vars == <<record, calls, inFlight, told, creations, faults>>

NoCall == [pc |-> "idle"]

Init ==
  /\ record = Unbound
  /\ calls = [c \in Callers |-> NoCall]
  /\ inFlight = [s \in Services |-> Nobody]
  /\ told = {} /\ creations = 0 /\ faults = 0

At(c, pc) == calls[c].pc = pc
Goto(c, pc) == calls' = [calls EXCEPT ![c].pc = pc]
ServiceOf(c) == calls[c].service
RequestOf(c) == calls[c].request
Fault == faults < MaxFaults /\ faults' = faults + 1
NoFault == UNCHANGED faults
TellNobody == UNCHANGED <<told, creations>>

Results == {"created", "replayed", "conflict", "failed"}

\* The receipt of a call's own request is what it is told.
Tell(c, result) ==
  /\ told' = IF result \in {"created", "replayed"} THEN told \cup {RequestOf(c)} ELSE told
  /\ creations' = IF result = "created" THEN creations + 1 ELSE creations

Answer(c, result) ==
  /\ calls' = [calls EXCEPT ![c] = NoCall]
  /\ Tell(c, result)

---------------------------------------------------------------------------
(* admit *)

Admit(c, s, r) ==
  /\ At(c, "idle")
  /\ calls' = [calls EXCEPT ![c] = [pc |-> "read", service |-> s, request |-> r]]
  /\ NoFault /\ TellNobody
  /\ UNCHANGED <<record, inFlight>>

\* readByIdempotency: a record decides, without one the call goes on.
Read(c) ==
  /\ At(c, "read")
  /\ \/ record = Unbound /\ Goto(c, "join") /\ NoFault /\ TellNobody
     \/ record = RequestOf(c) /\ Answer(c, "replayed") /\ NoFault
     \/ record \notin {Unbound, RequestOf(c)} /\ Answer(c, "conflict") /\ NoFault
     \/ Answer(c, "failed") /\ Fault
  /\ UNCHANGED <<record, inFlight>>

Leads(c) ==
  /\ inFlight[ServiceOf(c)] = Nobody
  /\ inFlight' = [inFlight EXCEPT ![ServiceOf(c)] = c]
  /\ Goto(c, "verify")

\* A call with the request under way awaits its promise, which may be settled
\* already.
Follows(c) ==
  LET leader == inFlight[ServiceOf(c)] IN
  /\ leader # Nobody
  /\ RequestOf(leader) = RequestOf(c)
  /\ calls' = [calls EXCEPT ![c] =
       IF At(leader, "settled")
         THEN [pc |-> "woken", service |-> ServiceOf(c), request |-> RequestOf(c),
               result |-> calls[leader].result]
         ELSE [@ EXCEPT !.pc = "wait"]]
  /\ UNCHANGED inFlight

\* Another request under way is a conflict, whatever becomes of it.
Join(c) ==
  /\ At(c, "join")
  /\ \/ (Leads(c) \/ Follows(c)) /\ TellNobody
     \/ /\ inFlight[ServiceOf(c)] # Nobody
        /\ RequestOf(inFlight[ServiceOf(c)]) # RequestOf(c)
        /\ Answer(c, "conflict")
        /\ UNCHANGED inFlight
  /\ NoFault
  /\ UNCHANGED record

---------------------------------------------------------------------------
(* execute *)

Waiters(c) == {d \in Callers : At(d, "wait") /\ inFlight[ServiceOf(d)] = c}

\* Mutation: the followers are not told of a failure.
SettleSuccess(c, result) ==
  /\ calls' = [d \in Callers |->
       IF d = c \/ (d \in Waiters(c) /\ result # "failed")
         THEN [pc |-> IF d = c THEN "settled" ELSE "woken", service |-> ServiceOf(d),
               request |-> RequestOf(d), result |-> result]
         ELSE calls[d]]
  /\ TellNobody

\* The promise settles: its caller and the followers go on with its result.
Settle(c, result) ==
  /\ calls' = [d \in Callers |->
       IF d \in {c} \cup Waiters(c)
         THEN [pc |-> IF d = c THEN "settled" ELSE "woken", service |-> ServiceOf(d),
               request |-> RequestOf(d), result |-> result]
         ELSE calls[d]]
  /\ TellNobody

\* Structure, assets and generation runtime: blocked and unavailable admit
\* nothing.
Verify(c) ==
  /\ At(c, "verify")
  /\ \/ Goto(c, "insert") /\ NoFault /\ TellNobody
     \/ Settle(c, "failed") /\ Fault
  /\ UNCHANGED <<record, inFlight>>

\* insert: one transaction; an error may come before or after its commit.
Insert(c) ==
  /\ At(c, "insert")
  /\ \/ /\ record = Unbound
        /\ record' = RequestOf(c)
        /\ \/ Settle(c, "created") /\ NoFault
           \/ Settle(c, "failed") /\ Fault
     \/ record # Unbound /\ Goto(c, "reread") /\ NoFault /\ TellNobody /\ UNCHANGED record
     \/ Settle(c, "failed") /\ Fault /\ UNCHANGED record
  /\ UNCHANGED inFlight

\* Already exists: the stored record decides.
Reread(c) ==
  /\ At(c, "reread")
  /\ \/ Settle(c, IF record = RequestOf(c) THEN "replayed" ELSE "conflict") /\ NoFault
     \/ Settle(c, "failed") /\ Fault
  /\ UNCHANGED <<record, inFlight>>

\* The caller of the execution clears inFlight and answers.
Finish(c) ==
  /\ At(c, "settled")
  /\ inFlight' = [inFlight EXCEPT ![ServiceOf(c)] = Nobody]
  /\ Answer(c, calls[c].result)
  /\ NoFault
  /\ UNCHANGED record

\* Mutation: a follower repeats what the leader was told.
HeardAsIs(result) == result

\* What was created for another call is a replay for this one.
Heard(result) == IF result = "created" THEN "replayed" ELSE result

Wake(c) ==
  /\ At(c, "woken")
  /\ Answer(c, Heard(calls[c].result))
  /\ NoFault
  /\ UNCHANGED <<record, inFlight>>

\* A process dies with its calls and starts again.
Crash(s) ==
  /\ Fault
  /\ calls' = [c \in Callers |->
       IF calls[c] # NoCall /\ ServiceOf(c) = s THEN NoCall ELSE calls[c]]
  /\ inFlight' = [inFlight EXCEPT ![s] = Nobody]
  /\ TellNobody
  /\ UNCHANGED record

CallStep(c) ==
  Read(c) \/ Join(c) \/ Verify(c) \/ Insert(c) \/ Reread(c) \/ Finish(c) \/ Wake(c)

Next ==
  \/ \E c \in Callers : CallStep(c) \/ \E s \in Services, r \in Requests : Admit(c, s, r)
  \/ \E s \in Services : Crash(s)

Spec == Init /\ [][Next]_vars

\* Every await returns; nobody has to call.
FairSpec == Spec /\ \A c \in Callers : WF_vars(CallStep(c))

---------------------------------------------------------------------------
(* Properties. *)

Executing == {"verify", "insert", "reread", "settled"}

\* Types, and who shares an execution: inFlight names a call that executes, every
\* executing call is named, and a waiting call awaits one with its own request.
AdmissionTypeOK ==
  /\ record \in Requests \cup {Unbound}
  /\ calls \in [Callers ->
       {NoCall}
       \cup [pc : {"read", "join", "wait", "verify", "insert", "reread"},
             service : Services, request : Requests]
       \cup [pc : {"settled", "woken"}, service : Services, request : Requests,
             result : Results]]
  /\ inFlight \in [Services -> Callers \cup {Nobody}]
  /\ told \subseteq Requests /\ creations \in 0..1
  /\ \A s \in Services : inFlight[s] # Nobody =>
       calls[inFlight[s]].pc \in Executing /\ ServiceOf(inFlight[s]) = s
  /\ \A c \in Callers :
       /\ calls[c].pc \in Executing => inFlight[ServiceOf(c)] = c
       /\ At(c, "wait") => /\ inFlight[ServiceOf(c)] # Nobody
                           /\ RequestOf(inFlight[ServiceOf(c)]) = RequestOf(c)

\* The key is bound once, every receipt is that of the bound request, and one
\* call is told that it created it: through calls that share an execution, races
\* of two processes, unanswered commits and crashes.
Key == INSTANCE KeyPromise WITH Values <- Requests, bound <- record
KeepsKeyPromise == Key!PromiseSpec

\* Every call is answered: no follower is left on a promise that never settles,
\* whether its execution fails, conflicts or creates.
CallsEnd == \A c \in Callers : calls[c].pc # "idle" ~> calls[c].pc = "idle"

---------------------------------------------------------------------------
(* What a message of the program says, and it does not hold. *)

\* docGenLocalAdmission.ts:755, "idempotency key is already bound to a different
\* strict request": a conflict is answered only when a record has bound the key.
ConflictMeansBound ==
  [][\A c \in Callers :
       At(c, "join") /\ calls'[c] = NoCall /\ faults' = faults => record # Unbound]_vars
=============================================================================
