-------------------------- MODULE LocalStoresProofs --------------------------
(***************************************************************************)
(* Theorems about what the local stores keep.  DocGen admission under one  *)
(* caller key, for any callers, processes and requests: who shares an      *)
(* execution, and what the key promises.  The artifacts of PDF exports,    *)
(* for any operations, contents and hosts: that calls under way know what  *)
(* they are about, and, where one host sweeps, that the grace period       *)
(* protects a prompt receipt.                                              *)
(***************************************************************************)
EXTENDS DocGenAdmission, PdfExportArtifactStore, WellFoundedInduction, FiniteSetTheorems, TLAPS

-----------------------------------------------------------------------------
(* Admission: the inductive invariant. *)

UnderWay == [pc : {"read", "join", "wait", "verify", "insert", "reread"},
             service : Services, request : Requests]
Concluded == [pc : {"settled", "woken"}, service : Services, request : Requests,
              result : Results]

\* Whoever executes is named by its service; a follower waits for a leader with
\* its own request that has not settled; a receipt is of the bound request; and
\* nobody was told of a creation before its creator answers.
Stands(d) ==
  LET leader == inFlight[ServiceOf(d)] IN
  /\ calls[d].pc \in Executing => leader = d
  /\ At(d, "wait") => /\ leader \in Callers
                      /\ calls[leader].pc \in {"verify", "insert", "reread"}
                      /\ RequestOf(leader) = RequestOf(d)
  /\ calls[d].pc \in {"settled", "woken"} /\ calls[d].result \in {"created", "replayed"}
       => record = RequestOf(d)
  /\ At(d, "settled") /\ calls[d].result = "created" => creations = 0

InFlightExecutes ==
  \A s \in Services : inFlight[s] # Nobody =>
    calls[inFlight[s]].pc \in Executing /\ ServiceOf(inFlight[s]) = s

OneCreates ==
  \A c, d \in Callers :
    /\ At(c, "settled") /\ calls[c].result = "created"
    /\ At(d, "settled") /\ calls[d].result = "created"
    => c = d

AdmissionInv ==
  /\ record \in Requests \cup {Unbound}
  /\ calls \in [Callers -> {NoCall} \cup UnderWay \cup Concluded]
  /\ inFlight \in [Services -> Callers \cup {Nobody}]
  /\ told \subseteq Requests \cap {record} /\ creations \in 0..1
  /\ record = Unbound => creations = 0
  /\ InFlightExecutes
  /\ \A d \in Callers : Stands(d)
  /\ OneCreates

-----------------------------------------------------------------------------
(* How the invariant is put together again after a step. *)

AnyCall == {NoCall} \cup UnderWay \cup Concluded
Leading == {"verify", "insert", "reread"}

LEMMA CallKinds ==
  ASSUME AdmissionInv, NEW d \in Callers
  PROVE  /\ calls[d] \in AnyCall
         /\ calls[d].pc \in {"read", "join", "wait"} \cup Leading => calls[d] \in UnderWay
         /\ calls[d].pc \in {"settled", "woken"} => calls[d] \in Concluded
         /\ calls[d] # NoCall => RequestOf(d) \in Requests /\ ServiceOf(d) \in Services
         /\ calls[d] # NoCall <=> calls[d].pc # "idle"
  BY DEF AdmissionInv, AnyCall, NoCall, UnderWay, Concluded, Leading, RequestOf, ServiceOf

\* Only a call that executes is named by a service.
LEMMA NamedExecutes ==
  ASSUME AdmissionInv, NEW s \in Services, inFlight[s] # Nobody
  PROVE  /\ inFlight[s] \in Callers
         /\ calls[inFlight[s]].pc \in Executing /\ ServiceOf(inFlight[s]) = s
  BY DEF AdmissionInv, InFlightExecutes

\* A call that does not execute goes on to where it does not either.
LEMMA CallTurns ==
  ASSUME AdmissionInv, NEW c \in Callers, NEW v \in AnyCall,
         calls' = [calls EXCEPT ![c] = v], UNCHANGED <<record, inFlight, creations>>,
         told' \subseteq Requests \cap {record},
         calls[c].pc \notin Executing, v.pc \notin Executing, Stands(c)'
  PROVE  AdmissionInv'
<1>1. calls' \in [Callers -> AnyCall] /\ calls'[c] = v
  BY DEF AdmissionInv, AnyCall
<1>2. \A d \in Callers \ {c} : calls'[d] = calls[d]
  BY DEF AdmissionInv
<1>3. \A s \in Services : inFlight[s] # c
  BY NamedExecutes, AdmissionAssumption
<1>4. InFlightExecutes'
  BY <1>2, <1>3, NamedExecutes DEF AdmissionInv, InFlightExecutes, ServiceOf
<1>5. ASSUME NEW d \in Callers \ {c} PROVE Stands(d)'
  <2>1. Stands(d) /\ calls'[d] = calls[d]
    BY <1>2 DEF AdmissionInv
  <2>2. At(d, "wait") => inFlight[ServiceOf(d)] # c
    BY <1>3, CallKinds DEF At, NoCall
  <2>. QED
    BY <1>2, <2>1, <2>2 DEF Stands, At, RequestOf, ServiceOf
<1>6. OneCreates'
  BY <1>1, <1>2 DEF AdmissionInv, OneCreates, At, Executing
<1>. QED
  BY <1>1, <1>4, <1>5, <1>6 DEF AdmissionInv, AnyCall

\* An execution goes on: whoever waits for it goes on waiting.
LEMMA ExecutionTurns ==
  ASSUME AdmissionInv, NEW c \in Callers, NEW to \in Leading, calls[c].pc \in Leading,
         Goto(c, to), UNCHANGED <<record, inFlight, told, creations>>
  PROVE  AdmissionInv'
<1>1. calls' \in [Callers -> AnyCall] /\ calls'[c] = [calls[c] EXCEPT !.pc = to]
  BY CallKinds DEF AdmissionInv, AnyCall, UnderWay, Goto, Leading
<1>2. \A d \in Callers \ {c} : calls'[d] = calls[d]
  BY DEF AdmissionInv, Goto
<1>3. calls'[c].pc = to /\ calls'[c].service = calls[c].service /\ calls'[c].request = calls[c].request
  BY <1>1, CallKinds DEF UnderWay
<1>4. \A d \in Callers : /\ RequestOf(d)' = RequestOf(d) /\ ServiceOf(d)' = ServiceOf(d)
                         /\ calls'[d].pc \in Executing <=> calls[d].pc \in Executing
                         /\ calls'[d].pc \in Leading <=> calls[d].pc \in Leading
                         /\ calls'[d].pc \notin Leading => calls'[d] = calls[d]
  BY <1>2, <1>3 DEF RequestOf, ServiceOf, Executing, Leading
<1>5. InFlightExecutes'
  BY <1>4, NamedExecutes DEF AdmissionInv, InFlightExecutes
<1>6. ASSUME NEW d \in Callers PROVE Stands(d)'
  BY <1>4 DEF AdmissionInv, Stands, At, Leading
<1>7. OneCreates'
  BY <1>4 DEF AdmissionInv, OneCreates, At, Leading
<1>. QED
  BY <1>1, <1>5, <1>6, <1>7 DEF AdmissionInv, AnyCall

\* An execution settles, and takes its followers along.
LEMMA ExecutionSettles ==
  ASSUME AdmissionInv, NEW c \in Callers, NEW result \in Results, calls[c].pc \in Leading,
         Settle(c, result), UNCHANGED inFlight,
         record' = record \/ (record = Unbound /\ record' = RequestOf(c)),
         result \in {"created", "replayed"} => record' = RequestOf(c),
         result = "created" => record = Unbound
  PROVE  AdmissionInv'
<1>1. UNCHANGED <<told, creations>> /\ \A d \in Waiters(c) : d # c /\ d \in Callers /\ At(d, "wait")
  BY DEF Settle, TellNobody, Waiters, At, Leading
<1>2. calls[c] \in UnderWay /\ inFlight[ServiceOf(c)] = c
  BY CallKinds DEF AdmissionInv, Stands, Executing, Leading
<1>3. \A d \in Waiters(c) : calls[d] \in UnderWay /\ calls[d].pc = "wait" /\ RequestOf(d) = RequestOf(c)
  BY <1>1, CallKinds DEF AdmissionInv, Stands, Waiters, At
<1>4. ASSUME NEW d \in Waiters(c)
      PROVE  /\ calls'[d] \in Concluded /\ calls'[d].pc = "woken" /\ calls'[d].result = result
             /\ calls'[d].service = calls[d].service /\ calls'[d].request = calls[d].request
  <2>1. calls'[d] = [pc |-> "woken", service |-> ServiceOf(d), request |-> RequestOf(d),
                     result |-> result]
    BY <1>1 DEF Settle
  <2>. QED
    BY <1>3, <2>1 DEF UnderWay, Concluded, ServiceOf, RequestOf
<1>5. calls'[c] = [pc |-> "settled", service |-> ServiceOf(c), request |-> RequestOf(c),
                   result |-> result]
  BY DEF Settle
<1>6. \A d \in Callers : d # c /\ d \notin Waiters(c) => calls'[d] = calls[d]
  BY DEF Settle
<1>7. calls' \in [Callers -> AnyCall]
  <2>1. calls'[c] \in AnyCall
    BY <1>2, <1>5 DEF AnyCall, UnderWay, Concluded, ServiceOf, RequestOf
  <2>2. \A d \in Waiters(c) : calls'[d] \in AnyCall
    BY <1>4 DEF AnyCall
  <2>3. \A d \in Callers : calls'[d] \in AnyCall
    <3>1. \A d \in Callers : calls[d] \in AnyCall
      BY CallKinds
    <3>. QED
      BY <1>6, <2>1, <2>2, <3>1
  <2>4. calls' = [d \in Callers |-> calls'[d]]
    BY DEF Settle
  <2>. QED
    BY <2>3, <2>4
<1>8. ASSUME NEW d \in Callers
      PROVE  /\ d # c => (calls'[d].pc \in Executing <=> calls[d].pc \in Executing)
             /\ d # c => (calls'[d].pc \in Leading <=> calls[d].pc \in Leading)
             /\ calls'[d].service = calls[d].service /\ calls'[d].request = calls[d].request
  <2>1. CASE d = c
    BY <1>5, <2>1 DEF ServiceOf, RequestOf
  <2>2. CASE d \in Waiters(c)
    BY <1>3, <1>4, <2>2 DEF Executing, Leading
  <2>3. CASE d # c /\ d \notin Waiters(c)
    BY <1>6, <2>3
  <2>. QED
    BY <2>1, <2>2, <2>3
<1>9. InFlightExecutes'
  <2>. SUFFICES ASSUME NEW s \in Services, inFlight[s] # Nobody
                PROVE  calls'[inFlight[s]].pc \in Executing /\ ServiceOf(inFlight[s])' = s
    BY DEF InFlightExecutes, ServiceOf
  <2>1. CASE inFlight[s] = c
    BY <1>5, <1>8, <2>1, NamedExecutes DEF Executing, ServiceOf
  <2>. QED
    BY <1>8, <2>1, NamedExecutes DEF ServiceOf
<1>10. record = Unbound => \A d \in Callers : ~(/\ calls[d].pc \in {"settled", "woken"}
                                                /\ calls[d].result \in {"created", "replayed"})
  BY CallKinds, AdmissionAssumption DEF AdmissionInv, Stands, NoCall
<1>11. record = Unbound => creations = 0 /\ told = {}
  BY AdmissionAssumption DEF AdmissionInv
<1>12. ASSUME NEW d \in Callers PROVE Stands(d)'
  <2>1. CASE d = c
    BY <1>1, <1>2, <1>5, <1>11, <2>1 DEF Stands, At, Executing, ServiceOf, RequestOf
  <2>2. CASE d \in Waiters(c)
    BY <1>3, <1>4, <2>2 DEF Stands, At, Executing, RequestOf
  <2>3. CASE d # c /\ d \notin Waiters(c)
    <3>1. calls'[d] = calls[d] /\ Stands(d)
      BY <1>6, <2>3 DEF AdmissionInv
    <3>2. At(d, "wait") => inFlight[ServiceOf(d)] # c
      BY <2>3 DEF Waiters
    <3>. QED
      BY <1>1, <1>8, <1>10, <3>1, <3>2 DEF Stands, At, RequestOf, ServiceOf, Leading
  <2>. QED
    BY <2>1, <2>2, <2>3
<1>13. OneCreates'
  <2>1. \A d \in Callers : d # c /\ At(d, "settled")' => calls'[d] = calls[d]
    BY <1>4, <1>6 DEF At
  <2>. QED
    BY <1>5, <1>10, <2>1 DEF AdmissionInv, OneCreates, At
<1>14. /\ record' \in Requests \cup {Unbound} /\ told' \subseteq Requests \cap {record'}
       /\ creations' \in 0..1 /\ (record' = Unbound => creations' = 0)
  BY <1>1, <1>2, <1>11, CallKinds DEF AdmissionInv, UnderWay, RequestOf
<1>. QED
  BY <1>7, <1>9, <1>12, <1>13, <1>14 DEF AdmissionInv, AnyCall

\* A call that finds nobody under way leads an execution.
LEMMA CallLeads ==
  ASSUME AdmissionInv, NEW c \in Callers, At(c, "join"), Leads(c),
         UNCHANGED <<record, told, creations>>
  PROVE  AdmissionInv'
<1>0. calls[c] \in UnderWay /\ ServiceOf(c) \in Services
  BY CallKinds DEF At, NoCall
<1>1. /\ calls' \in [Callers -> AnyCall]
      /\ calls'[c].pc = "verify" /\ calls'[c].service = ServiceOf(c) /\ calls'[c].request = RequestOf(c)
  <2>1. calls' \in [Callers -> AnyCall] /\ calls'[c] = [calls[c] EXCEPT !.pc = "verify"]
    BY <1>0, CallKinds DEF AdmissionInv, AnyCall, UnderWay, Leads, Goto
  <2>. QED
    BY <1>0, <2>1 DEF UnderWay, ServiceOf, RequestOf
<1>2. \A d \in Callers \ {c} : calls'[d] = calls[d]
  BY DEF AdmissionInv, Leads, Goto
<1>3. /\ inFlight' \in [Services -> Callers \cup {Nobody}] /\ inFlight'[ServiceOf(c)] = c
      /\ \A s \in Services \ {ServiceOf(c)} : inFlight'[s] = inFlight[s]
      /\ inFlight[ServiceOf(c)] = Nobody
  BY <1>0 DEF AdmissionInv, Leads
<1>4. \A s \in Services : inFlight[s] # c
  BY NamedExecutes, AdmissionAssumption DEF At, Executing
<1>5. InFlightExecutes'
  <2>. SUFFICES ASSUME NEW s \in Services, inFlight'[s] # Nobody
                PROVE  calls'[inFlight'[s]].pc \in Executing /\ calls'[inFlight'[s]].service = s
    BY DEF InFlightExecutes, ServiceOf
  <2>1. CASE s = ServiceOf(c)
    BY <1>1, <1>3, <2>1 DEF Executing
  <2>2. CASE s # ServiceOf(c)
    BY <1>2, <1>3, <1>4, <2>2, NamedExecutes DEF ServiceOf
  <2>. QED
    BY <2>1, <2>2
<1>6. ASSUME NEW d \in Callers \ {c} PROVE Stands(d)'
  <2>1. Stands(d) /\ calls'[d] = calls[d] /\ ServiceOf(d)' = ServiceOf(d) /\ RequestOf(d)' = RequestOf(d)
    BY <1>2 DEF AdmissionInv, ServiceOf, RequestOf
  <2>2. calls[d].pc \in Executing \/ At(d, "wait") =>
          /\ ServiceOf(d) \in Services /\ inFlight'[ServiceOf(d)] = inFlight[ServiceOf(d)]
          /\ inFlight[ServiceOf(d)] # c
    <3>1. calls[d].pc \in Executing \/ At(d, "wait") => ServiceOf(d) \in Services
      BY CallKinds DEF At, Executing, NoCall
    <3>2. calls[d].pc \in Executing \/ At(d, "wait") => inFlight[ServiceOf(d)] \in Callers
      BY <2>1 DEF Stands
    <3>. QED
      BY <1>3, <1>4, <3>1, <3>2, AdmissionAssumption
  <2>3. At(d, "wait") => LET leader == inFlight[ServiceOf(d)] IN
          calls'[leader] = calls[leader] /\ RequestOf(leader)' = RequestOf(leader)
    BY <1>2, <2>1, <2>2 DEF Stands, RequestOf
  <2>. QED
    BY <2>1, <2>2, <2>3 DEF Stands, At
<1>7. Stands(c)'
  BY <1>1, <1>3 DEF Stands, At, ServiceOf
<1>8. OneCreates'
  BY <1>1, <1>2 DEF AdmissionInv, OneCreates, At
<1>. QED
  BY <1>1, <1>3, <1>5, <1>6, <1>7, <1>8 DEF AdmissionInv, AnyCall

\* Calls end, and with them the executions of theirs: nobody waits for those.
LEMMA CallsLeave ==
  ASSUME AdmissionInv, NEW gone \in SUBSET Callers,
         calls' = [c \in Callers |-> IF c \in gone THEN NoCall ELSE calls[c]],
         inFlight' = [s \in Services |-> IF inFlight[s] \in gone THEN Nobody ELSE inFlight[s]],
         \A c \in Callers : At(c, "wait") /\ inFlight[ServiceOf(c)] \in gone => c \in gone,
         record' = record, told' \subseteq Requests \cap {record},
         \/ creations' = creations
         \/ creations' = 1 /\ \E c \in gone : At(c, "settled") /\ calls[c].result = "created"
  PROVE  AdmissionInv'
<1>1. calls' \in [Callers -> AnyCall] /\ inFlight' \in [Services -> Callers \cup {Nobody}]
  BY DEF AdmissionInv, AnyCall
<1>2. InFlightExecutes'
  BY AdmissionAssumption, NamedExecutes DEF AdmissionInv, InFlightExecutes, ServiceOf
<1>3. \A c \in gone : At(c, "settled") /\ calls[c].result = "created" =>
        record # Unbound /\ \A d \in Callers \ gone : ~(At(d, "settled") /\ calls[d].result = "created")
  <2>1. \A c \in gone : At(c, "settled") /\ calls[c].result = "created" =>
          record = RequestOf(c) /\ RequestOf(c) \in Requests
    BY CallKinds DEF AdmissionInv, Stands, At, NoCall
  <2>. QED
    BY <2>1, AdmissionAssumption DEF AdmissionInv, OneCreates
<1>4. /\ creations' \in 0..1 /\ (record' = Unbound => creations' = 0)
      /\ \A d \in Callers \ gone : At(d, "settled") /\ calls[d].result = "created" => creations' = 0
  BY <1>3 DEF AdmissionInv, Stands
<1>5. ASSUME NEW d \in Callers PROVE Stands(d)'
  <2>1. CASE d \in gone
    BY <2>1 DEF Stands, At, NoCall, Executing
  <2>2. CASE d \notin gone
    <3>1. Stands(d) /\ calls'[d] = calls[d] /\ ServiceOf(d)' = ServiceOf(d) /\ RequestOf(d)' = RequestOf(d)
      BY <2>2 DEF AdmissionInv, ServiceOf, RequestOf
    <3>2. calls[d].pc \in Executing \/ At(d, "wait") => ServiceOf(d) \in Services
      BY CallKinds DEF At, Executing, NoCall
    <3>3. calls[d].pc \in Executing => inFlight'[ServiceOf(d)] = d
      BY <2>2, <3>1, <3>2 DEF Stands
    <3>4. At(d, "wait") => LET leader == inFlight[ServiceOf(d)] IN
            /\ inFlight'[ServiceOf(d)] = leader
            /\ calls'[leader] = calls[leader] /\ RequestOf(leader)' = RequestOf(leader)
      BY <2>2, <3>1, <3>2 DEF Stands, RequestOf
    <3>. QED
      BY <1>4, <2>2, <3>1, <3>3, <3>4 DEF Stands, At
  <2>. QED
    BY <2>1, <2>2
<1>6. OneCreates'
  BY DEF AdmissionInv, OneCreates, At, NoCall
<1>. QED
  BY <1>1, <1>2, <1>4, <1>5, <1>6 DEF AdmissionInv, AnyCall

-----------------------------------------------------------------------------
(* The steps. *)

\* A call that does not execute is answered.
LEMMA CallAnswered ==
  ASSUME AdmissionInv, NEW c \in Callers, NEW result, calls[c].pc \notin Executing,
         Answer(c, result), UNCHANGED <<record, inFlight>>, result # "created",
         result = "replayed" => record = RequestOf(c) /\ RequestOf(c) \in Requests
  PROVE  AdmissionInv'
<1>1. creations' = creations /\ told' \subseteq Requests \cap {record}
  BY DEF Answer, Tell, AdmissionInv
<1>2. calls' = [calls EXCEPT ![c] = NoCall] /\ NoCall \in AnyCall
  BY DEF Answer, AnyCall
<1>3. NoCall.pc \notin Executing /\ Stands(c)'
  BY <1>2 DEF NoCall, Executing, Stands, At, AdmissionInv
<1>. QED
  BY <1>1, <1>2, <1>3, CallTurns

\* A call goes on by itself.
LEMMA CallGoes ==
  ASSUME AdmissionInv, NEW c \in Callers, calls[c].pc \in {"read", "join"},
         NEW to \in {"join", "wait"}, calls' = [calls EXCEPT ![c].pc = to],
         UNCHANGED <<record, inFlight, told, creations>>,
         to = "wait" => LET leader == inFlight[ServiceOf(c)] IN
           /\ leader \in Callers /\ calls[leader].pc \in Leading
           /\ RequestOf(leader) = RequestOf(c)
  PROVE  AdmissionInv'
<1>1. calls[c] \in UnderWay
  BY CallKinds
<1>. DEFINE v == [calls[c] EXCEPT !.pc = to]
<1>2. /\ v \in UnderWay /\ v.pc = to
      /\ v.service = ServiceOf(c) /\ v.request = RequestOf(c)
  BY <1>1 DEF UnderWay, ServiceOf, RequestOf
<1>3. calls' = [calls EXCEPT ![c] = v] /\ calls'[c] = v
  BY DEF AdmissionInv
<1>. HIDE DEF v
<1>4. Stands(c)'
  <2>1. to = "wait" => inFlight[ServiceOf(c)] # c
    BY DEF Leading
  <2>2. \A d \in Callers \ {c} : calls'[d] = calls[d]
    BY <1>3 DEF AdmissionInv
  <2>. QED
    BY <1>2, <1>3, <2>1, <2>2 DEF Stands, At, Executing, Leading, ServiceOf, RequestOf
<1>5. calls[c].pc \notin Executing /\ v.pc \notin Executing /\ v \in AnyCall
  BY <1>2 DEF Executing, AnyCall
<1>6. told' \subseteq Requests \cap {record}
  BY DEF AdmissionInv
<1>. QED
  BY <1>3, <1>4, <1>5, <1>6, CallTurns

LEMMA AdmitStep ==
  ASSUME AdmissionInv, NEW c \in Callers, NEW s \in Services, NEW r \in Requests, Admit(c, s, r)
  PROVE  AdmissionInv'
<1>. DEFINE v == [pc |-> "read", service |-> s, request |-> r]
<1>1. calls' = [calls EXCEPT ![c] = v] /\ v \in AnyCall /\ calls[c].pc \notin Executing
  BY DEF Admit, AnyCall, UnderWay, At, Executing
<1>2. v.pc \notin Executing /\ Stands(c)'
  <2>1. calls'[c].pc = "read"
    BY <1>1 DEF AdmissionInv
  <2>. QED
    BY <2>1 DEF Stands, At, Executing
<1>3. UNCHANGED <<record, inFlight, creations>> /\ told' \subseteq Requests \cap {record}
  BY DEF Admit, TellNobody, AdmissionInv
<1>. QED
  BY <1>1, <1>2, <1>3, CallTurns

LEMMA ReadStep == ASSUME AdmissionInv, NEW c \in Callers, Read(c) PROVE AdmissionInv'
<1>1. calls[c].pc = "read" /\ UNCHANGED <<record, inFlight>> /\ RequestOf(c) \in Requests
  BY CallKinds DEF Read, At
<1>2. CASE Goto(c, "join") /\ TellNobody
  BY <1>1, <1>2, CallGoes DEF Goto, TellNobody
<1>3. ASSUME NEW result \in {"replayed", "conflict", "failed"}, Answer(c, result),
             result = "replayed" => record = RequestOf(c)
      PROVE  AdmissionInv'
  BY <1>1, <1>3, CallAnswered DEF Executing
<1>. QED
  BY <1>2, <1>3 DEF Read

LEMMA JoinStep == ASSUME AdmissionInv, NEW c \in Callers, Join(c) PROVE AdmissionInv'
<1>. DEFINE leader == inFlight[ServiceOf(c)]
<1>1. /\ calls[c].pc = "join" /\ UNCHANGED record
      /\ calls[c] \in UnderWay /\ ServiceOf(c) \in Services /\ RequestOf(c) \in Requests
  BY CallKinds DEF Join, At
<1>2. CASE Leads(c) /\ TellNobody
  BY <1>1, <1>2, CallLeads DEF TellNobody, At
<1>3. CASE Follows(c) /\ TellNobody
  <2>1. /\ leader \in Callers /\ calls[leader].pc \in Executing /\ RequestOf(leader) = RequestOf(c)
        /\ UNCHANGED <<record, inFlight, told, creations>>
    BY <1>1, <1>3, NamedExecutes DEF Follows, TellNobody
  <2>2. CASE At(leader, "settled")
    <3>. DEFINE v == [pc |-> "woken", service |-> ServiceOf(c), request |-> RequestOf(c),
                      result |-> calls[leader].result]
    <3>1. calls' = [calls EXCEPT ![c] = v]
      BY <1>3, <2>2 DEF Follows
    <3>2. calls[leader] \in Concluded /\ Stands(leader)
      BY <2>1, <2>2, CallKinds DEF At, AdmissionInv
    <3>3. v \in AnyCall /\ calls'[c] = v
      BY <1>1, <3>1, <3>2 DEF AnyCall, Concluded, AdmissionInv
    <3>4. Stands(c)'
      BY <2>1, <2>2, <3>2, <3>3 DEF Stands, At, Executing, RequestOf
    <3>5. calls[c].pc \notin Executing /\ v.pc \notin Executing
          /\ told' \subseteq Requests \cap {record}
      BY <1>1, <2>1 DEF Executing, AdmissionInv
    <3>. QED
      BY <2>1, <3>1, <3>3, <3>4, <3>5, CallTurns
  <2>3. CASE ~At(leader, "settled")
    <3>1. calls' = [calls EXCEPT ![c].pc = "wait"]
      BY <1>3, <2>3 DEF Follows
    <3>2. calls[leader].pc \in Leading
      BY <2>1, <2>3 DEF At, Executing, Leading
    <3>. QED
      BY <1>1, <2>1, <3>1, <3>2, CallGoes
  <2>. QED
    BY <2>2, <2>3
<1>4. CASE Answer(c, "conflict") /\ UNCHANGED inFlight
  BY <1>1, <1>4, CallAnswered DEF Executing
<1>. QED
  BY <1>2, <1>3, <1>4 DEF Join

LEMMA ExecuteStep ==
  ASSUME AdmissionInv, NEW c \in Callers, Verify(c) \/ Insert(c) \/ Reread(c) PROVE AdmissionInv'
<1>1. calls[c].pc \in Leading /\ RequestOf(c) \in Requests /\ UNCHANGED inFlight
  BY CallKinds DEF Verify, Insert, Reread, At, Leading
<1>2. ASSUME NEW to \in Leading, Goto(c, to), TellNobody, UNCHANGED record PROVE AdmissionInv'
  BY <1>1, <1>2, ExecutionTurns DEF TellNobody
<1>3. ASSUME Settle(c, "failed"),
             record' = record \/ (record = Unbound /\ record' = RequestOf(c))
      PROVE  AdmissionInv'
  BY <1>1, <1>3, ExecutionSettles DEF Results
<1>4. CASE Verify(c)
  BY <1>2, <1>3, <1>4 DEF Verify, Leading
<1>5. CASE Insert(c)
  <2>1. CASE record = Unbound /\ record' = RequestOf(c) /\ Settle(c, "created")
    BY <1>1, <2>1, ExecutionSettles DEF Results
  <2>2. CASE Goto(c, "reread") /\ TellNobody /\ UNCHANGED record
    BY <1>2, <2>2 DEF Leading
  <2>. QED
    BY <1>3, <1>5, <2>1, <2>2 DEF Insert
<1>6. CASE Reread(c)
  <2>1. CASE record = RequestOf(c) /\ Settle(c, "replayed") /\ UNCHANGED record
    BY <1>1, <2>1, ExecutionSettles DEF Results
  <2>2. CASE Settle(c, "conflict") /\ UNCHANGED record
    BY <1>1, <2>2, ExecutionSettles DEF Results
  <2>. QED
    BY <1>3, <1>6, <2>1, <2>2 DEF Reread
<1>. QED
  BY <1>4, <1>5, <1>6

LEMMA FinishStep == ASSUME AdmissionInv, NEW c \in Callers, Finish(c) PROVE AdmissionInv'
<1>1. /\ calls[c].pc = "settled" /\ inFlight[ServiceOf(c)] = c /\ Stands(c)
      /\ ServiceOf(c) \in Services /\ RequestOf(c) \in Requests
  BY CallKinds DEF Finish, At, AdmissionInv, Stands, Executing
<1>2. calls' = [d \in Callers |-> IF d \in {c} THEN NoCall ELSE calls[d]]
  BY DEF Finish, Answer, AdmissionInv
<1>3. \A s \in Services : inFlight[s] = c <=> s = ServiceOf(c)
  BY <1>1, NamedExecutes, AdmissionAssumption
<1>4. inFlight' = [s \in Services |-> IF inFlight[s] \in {c} THEN Nobody ELSE inFlight[s]]
  BY <1>3 DEF Finish, AdmissionInv
<1>5. \A d \in Callers : At(d, "wait") => inFlight[ServiceOf(d)] # c
  BY <1>1 DEF AdmissionInv, Stands
<1>6. told' \subseteq Requests \cap {record} /\ record' = record
  BY <1>1 DEF Finish, Answer, Tell, AdmissionInv, Stands
<1>7. \/ creations' = creations
      \/ creations' = 1 /\ At(c, "settled") /\ calls[c].result = "created"
  <2>1. At(c, "settled") /\ calls[c].result = "created" => creations = 0
    BY <1>1 DEF Stands
  <2>. QED
    BY <1>1, <2>1 DEF Finish, Answer, Tell, At
<1>. QED
  BY <1>2, <1>4, <1>5, <1>6, <1>7, CallsLeave

LEMMA WakeStep == ASSUME AdmissionInv, NEW c \in Callers, Wake(c) PROVE AdmissionInv'
<1>1. /\ calls[c].pc = "woken" /\ Stands(c) /\ RequestOf(c) \in Requests
      /\ calls[c].result \in Results
  BY CallKinds DEF Wake, At, AdmissionInv, Concluded
<1>2. Heard(calls[c].result) # "created"
  BY DEF Heard
<1>3. Heard(calls[c].result) = "replayed" => record = RequestOf(c)
  BY <1>1 DEF Heard, Stands
<1>. QED
  BY <1>1, <1>2, <1>3, CallAnswered DEF Wake, Executing

LEMMA CrashStep == ASSUME AdmissionInv, NEW s \in Services, Crash(s) PROVE AdmissionInv'
<1>. DEFINE gone == {c \in Callers : calls[c] # NoCall /\ ServiceOf(c) = s}
<1>1. calls' = [c \in Callers |-> IF c \in gone THEN NoCall ELSE calls[c]]
  BY DEF Crash
<1>2. \A t \in Services : inFlight[t] \in gone <=> t = s /\ inFlight[t] # Nobody
  BY NamedExecutes, AdmissionAssumption DEF Executing, NoCall
<1>3. inFlight' = [t \in Services |-> IF inFlight[t] \in gone THEN Nobody ELSE inFlight[t]]
  BY <1>2 DEF Crash, AdmissionInv
<1>4. \A c \in Callers : At(c, "wait") /\ inFlight[ServiceOf(c)] \in gone => c \in gone
  BY <1>2, CallKinds DEF At, NoCall
<1>5. record' = record /\ creations' = creations /\ told' \subseteq Requests \cap {record}
  BY DEF Crash, TellNobody, AdmissionInv
<1>. HIDE DEF gone
<1>6. gone \in SUBSET Callers
  BY DEF gone
<1>. QED
  BY <1>1, <1>3, <1>4, <1>5, <1>6, CallsLeave

LEMMA AdmissionInvNext == ASSUME AdmissionInv, [Next]_vars PROVE AdmissionInv'
<1>1. CASE UNCHANGED vars
  BY <1>1 DEF vars, AdmissionInv, InFlightExecutes, Stands, OneCreates, At, ServiceOf, RequestOf
<1>. QED
  BY <1>1, AdmitStep, ReadStep, JoinStep, ExecuteStep, FinishStep, WakeStep, CrashStep
     DEF Next, CallStep

LEMMA AdmissionInvInit == Init => AdmissionInv
  BY AdmissionAssumption
     DEF Init, AdmissionInv, InFlightExecutes, Stands, OneCreates, At, NoCall, Executing

\* The inductive invariant holds of every reachable state.
THEOREM AdmissionInvariant == Spec => []AdmissionInv
  BY AdmissionInvInit, AdmissionInvNext, PTL DEF Spec

\* Types, and who shares an execution: a follower waits for an execution of its
\* own request that its service names, and for nobody else's
\* (docGenLocalAdmission.ts, inFlight).
THEOREM AdmissionTypeCorrect == Spec => []AdmissionTypeOK
<1>1. ASSUME AdmissionInv PROVE AdmissionTypeOK
  <2>1. \A c \in Callers : At(c, "wait") => inFlight[ServiceOf(c)] # Nobody
    BY <1>1, AdmissionAssumption DEF AdmissionInv, Stands
  <2>. QED
    BY <1>1, <2>1
       DEF AdmissionInv, AdmissionTypeOK, InFlightExecutes, Stands, UnderWay, Concluded
<1>. QED
  BY <1>1, AdmissionInvariant, PTL

-----------------------------------------------------------------------------
(* Every step is a step of KeyPromise, or leaves what it speaks of as it is. *)

Unheard == UNCHANGED <<record, told, creations>>

LEMMA TellsBound ==
  ASSUME AdmissionInv, NEW c \in Callers, NEW result, Tell(c, result), UNCHANGED record,
         result \in {"created", "replayed"} => record = RequestOf(c) /\ RequestOf(c) \in Requests,
         result = "created" => creations = 0
  PROVE  [Key!PromiseNext]_(Key!promiseVars)
<1>1. CASE result \notin {"created", "replayed"}
  BY <1>1 DEF Tell, Key!promiseVars
<1>2. CASE result \in {"created", "replayed"}
  <2>1. record # Unbound
    BY <1>2, AdmissionAssumption
  <2>2. CASE result = "created"
    BY <2>1, <2>2 DEF Tell, Key!PromiseNext, Key!TellCreated
  <2>3. CASE result = "replayed"
    BY <2>1, <2>3 DEF Tell, Key!PromiseNext, Key!TellReplayed
  <2>. QED
    BY <1>2, <2>2, <2>3
<1>. QED
  BY <1>1, <1>2

LEMMA KeyStep == ASSUME AdmissionInv, [Next]_vars PROVE [Key!PromiseNext]_(Key!promiseVars)
<1>1. ASSUME NEW c \in Callers, Read(c) PROVE [Key!PromiseNext]_(Key!promiseVars)
  <2>1. UNCHANGED record /\ RequestOf(c) \in Requests
    BY <1>1, CallKinds DEF Read, At
  <2>2. CASE TellNobody
    BY <2>1, <2>2 DEF TellNobody, Key!promiseVars
  <2>3. ASSUME NEW result \in {"replayed", "conflict", "failed"}, Tell(c, result),
               result = "replayed" => record = RequestOf(c)
        PROVE  [Key!PromiseNext]_(Key!promiseVars)
    BY <2>1, <2>3, TellsBound
  <2>. QED
    BY <1>1, <2>2, <2>3 DEF Read, Answer
<1>2. ASSUME NEW c \in Callers, Join(c) PROVE Unheard
  BY <1>2 DEF Join, Unheard, TellNobody, Answer, Tell
<1>3. ASSUME NEW c \in Callers, Verify(c) \/ Reread(c) PROVE Unheard
  BY <1>3 DEF Verify, Reread, Settle, Unheard, TellNobody
<1>4. ASSUME NEW c \in Callers, Insert(c) PROVE [Key!PromiseNext]_(Key!promiseVars)
  <2>1. UNCHANGED <<told, creations>> /\ RequestOf(c) \in Requests
        /\ (record' = record \/ (record = Unbound /\ record' = RequestOf(c)))
    BY <1>4, CallKinds DEF Insert, Settle, TellNobody, At
  <2>. QED
    BY <2>1 DEF Key!PromiseNext, Key!Bind, Key!promiseVars
<1>5. ASSUME NEW c \in Callers, Finish(c) PROVE [Key!PromiseNext]_(Key!promiseVars)
  <2>1. /\ Tell(c, calls[c].result) /\ UNCHANGED record /\ RequestOf(c) \in Requests
        /\ calls[c].pc = "settled" /\ Stands(c)
    BY <1>5, CallKinds DEF Finish, Answer, At, AdmissionInv
  <2>. QED
    BY <2>1, TellsBound DEF Stands, At
<1>6. ASSUME NEW c \in Callers, Wake(c) PROVE [Key!PromiseNext]_(Key!promiseVars)
  <2>1. /\ Tell(c, Heard(calls[c].result)) /\ UNCHANGED record /\ RequestOf(c) \in Requests
        /\ calls[c].pc = "woken" /\ Stands(c) /\ Heard(calls[c].result) # "created"
    BY <1>6, CallKinds DEF Wake, Answer, At, AdmissionInv, Heard
  <2>2. Heard(calls[c].result) = "replayed" => record = RequestOf(c)
    BY <2>1 DEF Heard, Stands
  <2>. QED
    BY <2>1, <2>2, TellsBound
<1>7. ASSUME NEW c \in Callers, NEW s \in Services, NEW r \in Requests, Admit(c, s, r)
      PROVE  Unheard
  BY <1>7 DEF Admit, TellNobody, Unheard
<1>8. ASSUME NEW s \in Services, Crash(s) PROVE Unheard
  BY <1>8 DEF Crash, TellNobody, Unheard
<1>9. UNCHANGED vars => Unheard
  BY DEF vars, Unheard
<1>10. Unheard => UNCHANGED Key!promiseVars
  BY DEF Unheard, Key!promiseVars
<1>. QED
  BY <1>1, <1>2, <1>3, <1>4, <1>5, <1>6, <1>7, <1>8, <1>9, <1>10 DEF Next, CallStep

\* The key is bound once, every receipt is that of the bound request, and one
\* call is told that it created it: whichever calls share an execution, whichever
\* processes race to insert, and whatever fails or dies on the way.
THEOREM AdmissionKeepsKeyPromise == Spec => KeepsKeyPromise
<1>1. Init => Key!PromiseInit
  BY DEF Init, Key!PromiseInit
<1>2. AdmissionInv /\ [Next]_vars => [Key!PromiseNext]_(Key!promiseVars)
  BY KeyStep
<1>. QED
  BY <1>1, <1>2, AdmissionInvariant, PTL DEF Spec, KeepsKeyPromise, Key!PromiseSpec

-----------------------------------------------------------------------------
(* Artifacts: the inductive invariant. *)

\* A call that is under way knows what it is about: a writer has its digest, a
\* sweep that is about to delete has its candidate and room below the limit.
CallsHaveDigests ==
  /\ \A o \in Operations : writer[o].pc # "idle" => writer[o].digest \in Digests
  /\ \A h \in Hosts : sweep[h].pc \in {"recheck", "delete"} =>
       sweep[h].todo # {} /\ sweep[h].deleted < MaxDelete

ArtifactStoreInv == ArtifactStoreTypeOK /\ CallsHaveDigests

\* What a sweep has listed is still there, and as old.
ListedStaysOld ==
  \A h \in Hosts : \A d \in sweep[h].todo : age[d] > Grace /\ object[d] # "absent"

\* What a writer has read back is there still, or was old enough to be deleted.
ReadBackStaysOrAges ==
  \A o \in Operations : writer[o].pc = "commit" =>
    object[writer[o].digest] # "absent" \/ age[writer[o].digest] > Grace

\* Between the second look at the references and the deletion, no receipt is
\* committed in time over what is deleted.
NothingPromptDeleted ==
  \A h \in Hosts : sweep[h].pc = "delete" =>
    \A o \in Operations : prompt[o] => receipt[o] # Candidate(h)

PromptHasReceipt == \A o \in Operations : prompt[o] => receipt[o] \in Digests

OneSweepInv ==
  /\ ListedStaysOld
  /\ ReadBackStaysOrAges
  /\ NothingPromptDeleted
  /\ PromptHasReceipt
  /\ PromptCommitKept

-----------------------------------------------------------------------------
(* Least and greatest elements: what Candidate and Last choose. *)

Lesser == {pair \in Nat \X Nat : pair[1] < pair[2]}

LEMMA LesserWellFounded == IsWellFoundedOn(Lesser, Nat)
  BY NatLessThanWellFounded DEF OpToRel, Lesser

\* A set of natural numbers that is not empty has a least element.
LEMMA LeastNatural ==
  ASSUME NEW S, S \subseteq Nat, S # {}
  PROVE  \E n \in S : \A m \in S : n <= m
<1>1. PICK n \in S : \A m \in S : ~ (<<m, n>> \in Lesser)
  BY LesserWellFounded, WFMin, Zenon
<1>2. \A m \in S : ~ (m < n)
  BY <1>1 DEF Lesser
<1> QED BY <1>2

\* The candidate of a sweep is the first of what is left of its page.
LEMMA CandidateListed ==
  ASSUME NEW h \in Hosts, sweep[h].todo \subseteq Digests, sweep[h].todo # {}
  PROVE  Candidate(h) \in sweep[h].todo
<1> DEFINE todo == sweep[h].todo
<1>1. todo \subseteq Nat
  BY ArtifactStoreAssumption DEF Digests
<1>2. \E d \in todo : \A e \in todo : d <= e
  BY <1>1, LeastNatural
<1> QED BY <1>2, Zenon DEF Candidate

\* A set of digests that is not empty has a greatest element: as the least of
\* the distances to the last digest.
LEMMA LastIsDigest ==
  ASSUME NEW page, page \subseteq Digests, page # {}
  PROVE  Last(page) \in page
<1> DEFINE away == {Contents - d : d \in page}
<1>1. page \subseteq Nat /\ \A d \in page : d <= Contents
  BY ArtifactStoreAssumption DEF Digests
<1>2. away \subseteq Nat /\ away # {}
  <2>1. \A d \in page : Contents - d \in Nat
    BY <1>1, ArtifactStoreAssumption
  <2>2. \E d \in page : Contents - d \in away
    OBVIOUS
  <2> QED BY <2>1, <2>2
<1>3. PICK n \in away : \A m \in away : n <= m
  BY <1>2, LeastNatural
<1>4. PICK d \in page : n = Contents - d
  BY <1>3
<1>5. \A e \in page : Contents - d <= Contents - e
  BY <1>3, <1>4
<1>6. \A e \in page : e <= d
  BY <1>1, <1>4, <1>5, ArtifactStoreAssumption
<1> QED BY <1>6, Zenon DEF Last

\* A page holds at least the first of what can be listed, so a cursor that is
\* not the end names a digest.
LEMMA NextCursorTyped ==
  ASSUME NEW cursor \in Digests \cup {None}
  PROVE  NextCursor(cursor) \in Digests \cup {None} /\ Page(cursor) \subseteq Digests
<1> DEFINE listable == Listable(cursor)
<1>1. listable \subseteq Digests /\ Page(cursor) \subseteq listable
  BY Zenon DEF Page, Listable
<1>2. CASE Page(cursor) = listable
  BY <1>1, <1>2 DEF NextCursor
<1>3. CASE Page(cursor) # listable
  <2>1. listable # {}
    BY <1>1, <1>3
  <2>2. listable \subseteq Nat
    BY <1>1, ArtifactStoreAssumption DEF Digests
  <2>3. PICK d \in listable : \A e \in listable : d <= e
    BY <2>1, <2>2, LeastNatural
  <2>4. {e \in listable : e <= d} = {d}
    BY <2>2, <2>3
  <2>5. Cardinality({e \in listable : e <= d}) = 1
    BY <2>4, FS_Singleton
  <2>6. Cardinality({e \in Listable(cursor) : e <= d}) <= MaxScan
    BY <2>5, ArtifactStoreAssumption
  <2>7. d \in Page(cursor)
    BY <2>6, <2>3, Zenon DEF Page
  <2>8. Last(Page(cursor)) \in Digests
    BY <1>1, <2>7, LastIsDigest
  <2> QED BY <1>1, <1>3, <2>8 DEF NextCursor
<1> QED BY <1>2, <1>3

-----------------------------------------------------------------------------
(* Types. *)

WriterRecord ==
  [pc : {"idle", "write", "publish", "published", "readback", "commit"},
   digest : Digests \cup {None}, tries : 0 .. MaxTries]

SweepRecord ==
  [pc : {"idle", "inspect", "recheck", "delete"}, cursor : Digests \cup {None},
   next : Digests \cup {None}, todo : SUBSET Digests, deleted : 0 .. MaxDelete,
   issue : BOOLEAN, since : 0 .. Longest, delay : 0 .. Longest]

\* A sweep that knows what it is about to delete.
SweepKnows(s) == s.pc \in {"recheck", "delete"} => s.todo # {} /\ s.deleted < MaxDelete
WriterKnows(w) == w.pc # "idle" => w.digest \in Digests

StoreTypes ==
  /\ object \in [Digests -> {"absent", "intact", "corrupt"}]
  /\ age \in [Digests -> 0 .. Grace + 1]
  /\ receipt \in [Operations -> Digests \cup {None}]
  /\ prompt \in [Operations -> BOOLEAN]

LEMMA InvSplit ==
  ArtifactStoreInv <=>
    /\ StoreTypes
    /\ writer \in [Operations -> WriterRecord] /\ \A o \in Operations : WriterKnows(writer[o])
    /\ sweep \in [Hosts -> SweepRecord] /\ \A h \in Hosts : SweepKnows(sweep[h])
BY Zenon DEF ArtifactStoreInv, ArtifactStoreTypeOK, CallsHaveDigests, StoreTypes, WriterRecord,
  SweepRecord, SweepKnows, WriterKnows

LEMMA InvSplitNext ==
  ArtifactStoreInv' <=>
    /\ StoreTypes'
    /\ writer' \in [Operations -> WriterRecord] /\ \A o \in Operations : WriterKnows(writer'[o])
    /\ sweep' \in [Hosts -> SweepRecord] /\ \A h \in Hosts : SweepKnows(sweep'[h])
BY Zenon DEF ArtifactStoreInv, ArtifactStoreTypeOK, CallsHaveDigests, StoreTypes, WriterRecord,
  SweepRecord, SweepKnows, WriterKnows

LEMMA Bounds ==
  /\ Longest \in Nat /\ Interval \in 0 .. Longest /\ Backoff \in 0 .. Longest
  /\ 0 \in 0 .. Longest /\ MaxDelete \in Nat /\ 0 \in 0 .. MaxDelete /\ 0 \in 0 .. MaxTries
  /\ MaxTries \in Nat /\ Grace \in Nat
BY ArtifactStoreAssumption DEF Longest

\* What one writer does leaves the others as they are.
LEMMA WriterPut ==
  ASSUME ArtifactStoreInv, NEW o \in Operations, NEW w \in WriterRecord, WriterKnows(w),
         writer' = [writer EXCEPT ![o] = w], UNCHANGED sweep, StoreTypes'
  PROVE  ArtifactStoreInv'
<1>1. writer' \in [Operations -> WriterRecord] /\ \A p \in Operations : WriterKnows(writer'[p])
  BY InvSplit, Zenon
<1> QED BY <1>1, InvSplit, InvSplitNext, Zenon

LEMMA SweepPut ==
  ASSUME ArtifactStoreInv, NEW h \in Hosts, NEW s \in SweepRecord, SweepKnows(s),
         sweep' = [sweep EXCEPT ![h] = s], UNCHANGED writer, StoreTypes'
  PROVE  ArtifactStoreInv'
<1>1. sweep' \in [Hosts -> SweepRecord] /\ \A g \in Hosts : SweepKnows(sweep'[g])
  BY InvSplit, Zenon
<1> QED BY <1>1, InvSplit, InvSplitNext, Zenon

LEMMA MoveKeepsInv ==
  ASSUME ArtifactStoreInv, NEW o \in Operations,
         NEW to \in {"idle", "publish", "published", "readback", "commit"},
         writer[o].pc # "idle", Move(o, to), UNCHANGED sweep, StoreTypes'
  PROVE  ArtifactStoreInv'
<1> DEFINE w == [writer[o] EXCEPT !.pc = to, !.digest = IF to = "idle" THEN None ELSE @]
<1>1. writer[o] \in WriterRecord /\ writer[o].digest \in Digests
  BY InvSplit DEF WriterKnows
<1>2. w \in WriterRecord /\ WriterKnows(w)
  BY <1>1 DEF WriterRecord, WriterKnows
<1>3. writer' = [writer EXCEPT ![o] = w]
  BY DEF Move
<1> QED BY <1>2, <1>3, WriterPut

LEMMA KeepTypes == StoreTypes /\ KeepStore /\ KeepReceipts => StoreTypes'
  BY DEF StoreTypes, KeepStore, KeepReceipts

LEMMA InitInv == ArtifactStoreInit => ArtifactStoreInv
<1> SUFFICES ASSUME ArtifactStoreInit PROVE ArtifactStoreInv
  OBVIOUS
<1>1. StoreTypes
  BY ArtifactStoreAssumption DEF ArtifactStoreInit, StoreTypes
<1>2. IdleWriter \in WriterRecord /\ WriterKnows(IdleWriter)
  BY Bounds DEF IdleWriter, WriterRecord, WriterKnows
<1>3. FirstSweep \in SweepRecord /\ SweepKnows(FirstSweep)
  BY Bounds DEF FirstSweep, SweepRecord, SweepKnows
<1> QED BY <1>1, <1>2, <1>3, InvSplit DEF ArtifactStoreInit

LEMMA WriterStepKeepsInv ==
  ASSUME ArtifactStoreInv, NEW o \in Operations, WriterStep(o)
  PROVE  ArtifactStoreInv'
<1>0. /\ StoreTypes /\ writer[o] \in WriterRecord /\ WriterKnows(writer[o])
  BY InvSplit
<1>1. CASE \E d \in Digests : Begin(o, d)
  <2>1. PICK d \in Digests : Begin(o, d)
    BY <1>1
  <2> DEFINE w == [pc |-> "write", digest |-> d, tries |-> writer[o].tries + 1]
  <2>2. w \in WriterRecord /\ WriterKnows(w)
    BY <2>1, <1>0, Bounds DEF Begin, WriterRecord, WriterKnows
  <2>3. writer' = [writer EXCEPT ![o] = w]
    BY <2>1 DEF Begin
  <2>4. StoreTypes' /\ UNCHANGED sweep
    BY <2>1, <1>0, KeepTypes DEF Begin
  <2> QED BY <2>2, <2>3, <2>4, WriterPut
<1>2. CASE FindExisting(o)
  BY <1>2, <1>0, KeepTypes, MoveKeepsInv DEF FindExisting, Writing
<1>3. CASE Publish(o)
  <2>1. StoreTypes'
    <3>1. writer[o].digest \in Digests /\ KeepReceipts
      BY <1>3, <1>0 DEF Publish, Writing, WriterKnows
    <3>2. 0 \in 0 .. Grace + 1
      BY Bounds
    <3> QED BY <1>3, <1>0, <3>1, <3>2 DEF Publish, StoreTypes, KeepStore, KeepReceipts
  <2> QED BY <1>3, <2>1, MoveKeepsInv DEF Publish, Writing
<1>4. CASE VerifyPublished(o)
  BY <1>4, <1>0, KeepTypes, MoveKeepsInv DEF VerifyPublished, Writing
<1>5. CASE Readback(o)
  BY <1>5, <1>0, KeepTypes, MoveKeepsInv DEF Readback, Writing
<1>6. CASE CommitReceipt(o)
  <2>1. writer[o].digest \in Digests /\ (age[writer[o].digest] <= Grace) \in BOOLEAN
    BY <1>6, <1>0 DEF CommitReceipt, WriterKnows
  <2>2. StoreTypes'
    BY <1>6, <1>0, <2>1 DEF CommitReceipt, StoreTypes, KeepStore
  <2> QED BY <1>6, <2>2, MoveKeepsInv DEF CommitReceipt
<1>7. CASE Abandon(o)
  BY <1>7, <1>0, KeepTypes, MoveKeepsInv DEF Abandon
<1> QED BY <1>1, <1>2, <1>3, <1>4, <1>5, <1>6, <1>7 DEF WriterStep

LEMMA SweepStepKeepsInv ==
  ASSUME ArtifactStoreInv, NEW h \in Hosts, SweepStep(h)
  PROVE  ArtifactStoreInv'
<1>0. /\ StoreTypes /\ sweep[h] \in SweepRecord /\ SweepKnows(sweep[h])
  BY InvSplit
<1> DEFINE s == sweep[h]
<1>a. sweep[h].todo # {} => Candidate(h) \in sweep[h].todo /\ Candidate(h) \in Digests
  BY <1>0, CandidateListed DEF SweepRecord
<1>b. Done(h) \in SweepRecord /\ SweepKnows(Done(h))
  BY <1>0 DEF SweepRecord, Done, SweepKnows
<1>c. DoneWithIssue(h) \in SweepRecord /\ SweepKnows(DoneWithIssue(h))
  BY <1>b DEF SweepRecord, DoneWithIssue, SweepKnows
<1>1. CASE StartPage(h)
  <2> DEFINE listed == [s EXCEPT !.pc = "inspect", !.next = NextCursor(s.cursor),
                          !.todo = {d \in Page(s.cursor) : Expired(d)},
                          !.deleted = 0, !.issue = FALSE, !.since = 0]
             failed == [s EXCEPT !.since = 0, !.delay = Backoff]
  <2>1. StoreTypes' /\ UNCHANGED writer
    BY <1>1, <1>0, KeepTypes DEF StartPage, Sweeping
  <2>2. NextCursor(s.cursor) \in Digests \cup {None} /\ Page(s.cursor) \subseteq Digests
    BY <1>0, NextCursorTyped DEF SweepRecord
  <2>3. listed \in SweepRecord /\ SweepKnows(listed)
    BY <1>0, <2>2, Bounds DEF SweepRecord, SweepKnows
  <2>4. failed \in SweepRecord /\ SweepKnows(failed)
    BY <1>0, Bounds DEF SweepRecord, SweepKnows
  <2>5. sweep' = [sweep EXCEPT ![h] = listed] \/ sweep' = [sweep EXCEPT ![h] = failed]
    BY <1>1 DEF StartPage, Sweeping
  <2> HIDE DEF listed, failed
  <2> QED BY <2>1, <2>3, <2>4, <2>5, SweepPut
<1>2. CASE Inspect(h)
  <2> DEFINE again == [s EXCEPT !.pc = "recheck"]
  <2>1. StoreTypes' /\ UNCHANGED writer
    BY <1>2, <1>0, KeepTypes DEF Inspect, Sweeping
  <2>2. MayDelete(h) => again \in SweepRecord /\ SweepKnows(again)
    BY <1>0, <1>2 DEF SweepRecord, SweepKnows, MayDelete, Inspect
  <2>3. \/ sweep' = [sweep EXCEPT ![h] = Done(h)]
        \/ MayDelete(h) /\ sweep' = [sweep EXCEPT ![h] = again]
        \/ sweep' = [sweep EXCEPT ![h] = DoneWithIssue(h)]
    BY <1>2 DEF Inspect, Sweeping
  <2> HIDE DEF again
  <2> QED BY <1>b, <1>c, <2>1, <2>2, <2>3, SweepPut
<1>3. CASE Recheck(h)
  <2> DEFINE ready == [s EXCEPT !.pc = "delete"]
  <2>1. StoreTypes' /\ UNCHANGED writer
    BY <1>3, <1>0, KeepTypes DEF Recheck, Sweeping
  <2>2. ready \in SweepRecord /\ SweepKnows(ready)
    BY <1>0, <1>3 DEF SweepRecord, SweepKnows, Recheck
  <2>3. \/ sweep' = [sweep EXCEPT ![h] = Done(h)]
        \/ sweep' = [sweep EXCEPT ![h] = ready]
        \/ sweep' = [sweep EXCEPT ![h] = DoneWithIssue(h)]
    BY <1>3 DEF Recheck, Sweeping
  <2> HIDE DEF ready
  <2> QED BY <1>b, <1>c, <2>1, <2>2, <2>3, SweepPut
<1>4. CASE Delete(h)
  <2> DEFINE deleted == [Done(h) EXCEPT !.deleted = @ + 1]
  <2>1. StoreTypes' /\ UNCHANGED writer
    <3>1. Candidate(h) \in Digests
      BY <1>4, <1>0, <1>a DEF Delete, SweepKnows
    <3> QED BY <1>4, <1>0, <3>1 DEF Delete, Sweeping, StoreTypes, KeepReceipts
  <2>2. sweep[h].deleted < MaxDelete /\ Done(h).deleted = sweep[h].deleted
    BY <1>4, <1>0 DEF Delete, SweepKnows, Done, SweepRecord
  <2>3. deleted \in SweepRecord /\ SweepKnows(deleted)
    <3>1. Done(h).deleted + 1 \in 0 .. MaxDelete
      BY <2>2, <1>0, Bounds DEF SweepRecord
    <3>2. Done(h).pc = "inspect"
      BY <1>0 DEF Done, SweepRecord
    <3> QED BY <1>b, <3>1, <3>2 DEF SweepRecord, SweepKnows
  <2>4. \/ sweep' = [sweep EXCEPT ![h] = deleted]
        \/ sweep' = [sweep EXCEPT ![h] = DoneWithIssue(h)]
    BY <1>4 DEF Delete, Sweeping
  <2> HIDE DEF deleted
  <2> QED BY <1>c, <2>1, <2>3, <2>4, SweepPut
<1>5. CASE FinishPage(h)
  <2> DEFINE done == [s EXCEPT !.pc = "idle", !.cursor = CursorAfter(s), !.delay = DelayAfter(s)]
  <2>1. StoreTypes' /\ UNCHANGED writer
    BY <1>5, <1>0, KeepTypes DEF FinishPage, Sweeping
  <2>2. CursorAfter(s) \in Digests \cup {None} /\ DelayAfter(s) \in 0 .. Longest
    BY <1>0, Bounds DEF CursorAfter, DelayAfter, SweepRecord
  <2>3. done \in SweepRecord /\ SweepKnows(done)
    BY <1>0, <2>2 DEF SweepRecord, SweepKnows
  <2>4. sweep' = [sweep EXCEPT ![h] = done]
    BY <1>5 DEF FinishPage, Sweeping
  <2> HIDE DEF done
  <2> QED BY <2>1, <2>3, <2>4, SweepPut
<1> QED BY <1>1, <1>2, <1>3, <1>4, <1>5 DEF SweepStep

LEMMA NextKeepsInv ==
  ArtifactStoreInv /\ [ArtifactStoreNext]_storeVars => ArtifactStoreInv'
<1> SUFFICES ASSUME ArtifactStoreInv, [ArtifactStoreNext]_storeVars
             PROVE  ArtifactStoreInv'
  OBVIOUS
<1>0. StoreTypes /\ sweep \in [Hosts -> SweepRecord] /\ \A h \in Hosts : SweepKnows(sweep[h])
  BY InvSplit
<1>1. CASE \E o \in Operations : WriterStep(o)
  BY <1>1, WriterStepKeepsInv
<1>2. CASE \E h \in Hosts : SweepStep(h)
  BY <1>2, SweepStepKeepsInv
<1>3. CASE \E h \in Hosts : Restart(h)
  <2>1. FirstSweep \in SweepRecord /\ SweepKnows(FirstSweep)
    BY Bounds DEF FirstSweep, SweepRecord, SweepKnows
  <2> QED BY <1>3, <1>0, <2>1, KeepTypes, SweepPut DEF Restart
<1>4. CASE \E d \in Digests : Decay(d)
  <2>1. StoreTypes'
    BY <1>4, <1>0 DEF Decay, StoreTypes, KeepReceipts
  <2>2. UNCHANGED <<writer, sweep>>
    BY <1>4 DEF Decay
  <2> QED BY <2>1, <2>2, InvSplit, InvSplitNext, Zenon
<1>5. CASE Tick
  <2>1. StoreTypes'
    <3>1. \A d \in Digests : Capped(age[d], Grace + 1) \in 0 .. Grace + 1
      BY <1>0, Bounds DEF StoreTypes, Capped
    <3> QED BY <1>5, <1>0, <3>1 DEF Tick, StoreTypes, KeepReceipts
  <2>2. ASSUME NEW h \in Hosts
        PROVE  sweep'[h] \in SweepRecord /\ SweepKnows(sweep'[h])
    <3>1. sweep'[h] = [sweep[h] EXCEPT !.since = Capped(sweep[h].since, Longest)]
      BY <1>5 DEF Tick
    <3>2. sweep[h] \in SweepRecord /\ SweepKnows(sweep[h])
      BY <1>0
    <3>3. Capped(sweep[h].since, Longest) \in 0 .. Longest
      BY <3>2, Bounds DEF SweepRecord, Capped
    <3> QED BY <3>1, <3>2, <3>3 DEF SweepRecord, SweepKnows
  <2>3. sweep' \in [Hosts -> SweepRecord] /\ UNCHANGED writer
    BY <1>5, <2>2 DEF Tick
  <2> QED BY <2>1, <2>2, <2>3, InvSplit, InvSplitNext, Zenon
<1>6. CASE UNCHANGED storeVars
  BY <1>6 DEF storeVars, ArtifactStoreInv, ArtifactStoreTypeOK, CallsHaveDigests
<1> QED BY <1>1, <1>2, <1>3, <1>4, <1>5, <1>6 DEF ArtifactStoreNext

\* A call under way knows what it is about: a writer that has begun has the
\* digest of its bytes, and a sweep that has looked at the references has its
\* candidate and room below the limit of deletions, whatever the page held.
THEOREM ArtifactStoreInvariant == ArtifactStoreSpec => []ArtifactStoreInv
BY InitInv, NextKeepsInv, PTL DEF ArtifactStoreSpec

\* Every variable of the artifact store keeps its type: the cursor of a sweep is
\* a digest or the beginning, and no page deletes more than its limit.
THEOREM ArtifactStoreTypeCorrect == ArtifactStoreSpec => []ArtifactStoreTypeOK
<1>1. ArtifactStoreInv => ArtifactStoreTypeOK
  BY DEF ArtifactStoreInv
<1> QED BY <1>1, ArtifactStoreInvariant, PTL

-----------------------------------------------------------------------------
(* One sweeping host: the grace period. *)

OneHost == \A g, h \in Hosts : g = h

LEMMA InitOneSweep == ArtifactStoreInit => OneSweepInv
BY DEF ArtifactStoreInit, OneSweepInv, ListedStaysOld, ReadBackStaysOrAges, NothingPromptDeleted,
  PromptHasReceipt, PromptCommitKept, FirstSweep, IdleWriter

LEMMA WriterStepKeepsSweep ==
  ASSUME ArtifactStoreInv, OneSweepInv, NEW o \in Operations, WriterStep(o)
  PROVE  OneSweepInv'
<1>0. /\ StoreTypes /\ writer \in [Operations -> WriterRecord] /\ sweep \in [Hosts -> SweepRecord]
      /\ WriterKnows(writer[o]) /\ UNCHANGED sweep
  BY InvSplit DEF WriterStep, Begin, FindExisting, Publish, VerifyPublished, Readback,
    CommitReceipt, Abandon, Writing
<1>1. \A h \in Hosts : Candidate(h)' = Candidate(h)
  BY <1>0 DEF Candidate
<1>2. \A d \in Digests :
        /\ object[d] # "absent" => object'[d] = object[d] /\ age'[d] = age[d]
        /\ object'[d] = "absent" => object[d] = "absent" /\ age'[d] = age[d]
  BY <1>0 DEF WriterStep, Begin, FindExisting, Publish, VerifyPublished, Readback,
    CommitReceipt, Abandon, Writing, KeepStore, StoreTypes, WriterKnows
<1>3. ListedStaysOld'
  BY <1>0, <1>2 DEF OneSweepInv, ListedStaysOld, SweepRecord
<1>4. ReadBackStaysOrAges'
  <2> SUFFICES ASSUME NEW p \in Operations, writer'[p].pc = "commit"
               PROVE  object'[writer'[p].digest] # "absent" \/ age'[writer'[p].digest] > Grace
    BY DEF ReadBackStaysOrAges
  <2>1. /\ writer'[p].digest = writer[p].digest /\ writer[p].digest \in Digests
        /\ object[writer[p].digest] # "absent" \/ age[writer[p].digest] > Grace
    <3>1. CASE p = o
      <4>1. Readback(o) \/ writer'[o].pc # "commit"
        BY <1>0, <3>1 DEF WriterStep, Begin, FindExisting, Publish, VerifyPublished,
          CommitReceipt, Abandon, Writing, Move, WriterRecord
      <4>2. writer'[o].digest = writer[o].digest /\ object[writer[o].digest] = "intact"
        BY <1>0, <3>1, <4>1 DEF Readback, Writing, Move, WriterRecord
      <4>3. writer[o].pc # "idle"
        BY <3>1, <4>1 DEF Readback, Writing
      <4> QED BY <1>0, <3>1, <4>2, <4>3 DEF WriterKnows
    <3>2. CASE p # o
      <4>1. writer'[p] = writer[p]
        BY <1>0, <3>2 DEF WriterStep, Begin, FindExisting, Publish, VerifyPublished, Readback,
          CommitReceipt, Abandon, Writing, Move
      <4>2. WriterKnows(writer[p])
        BY InvSplit
      <4> QED BY <4>1, <4>2 DEF OneSweepInv, ReadBackStaysOrAges, WriterKnows
    <3> QED BY <3>1, <3>2
  <2> QED BY <1>2, <2>1
<1>5. CASE CommitReceipt(o)
  <2> DEFINE d == writer[o].digest
  <2>1. d \in Digests /\ KeepStore /\ (prompt'[o] <=> age[d] <= Grace) /\ receipt'[o] = d
        /\ \A p \in Operations : p # o => prompt'[p] = prompt[p] /\ receipt'[p] = receipt[p]
    BY <1>0, <1>5 DEF CommitReceipt, StoreTypes, WriterKnows
  <2>2. object[d] # "absent" \/ age[d] > Grace
    BY <1>5 DEF CommitReceipt, OneSweepInv, ReadBackStaysOrAges
  <2>3. age[d] \in Nat /\ Grace \in Nat
    BY <1>0, <2>1, Bounds DEF StoreTypes
  <2>4. prompt'[o] => object[d] # "absent"
    BY <2>1, <2>2, <2>3
  <2>5. PromptCommitKept' /\ PromptHasReceipt'
    BY <2>1, <2>4 DEF OneSweepInv, PromptCommitKept, PromptHasReceipt, KeepStore
  <2>6. ASSUME NEW h \in Hosts, sweep[h].pc = "delete" PROVE age[Candidate(h)] > Grace
    <3>1. sweep[h].todo # {} /\ sweep[h].todo \subseteq Digests
      BY <1>0, <2>6, InvSplit DEF SweepKnows, SweepRecord
    <3> QED BY <3>1, CandidateListed DEF OneSweepInv, ListedStaysOld
  <2>7. ASSUME NEW h \in Hosts, sweep[h].pc = "delete", prompt'[o] PROVE d # Candidate(h)
    BY <2>1, <2>3, <2>6, <2>7
  <2>8. NothingPromptDeleted'
    BY <1>0, <1>1, <2>1, <2>7 DEF OneSweepInv, NothingPromptDeleted
  <2> QED BY <1>3, <1>4, <2>5, <2>8 DEF OneSweepInv
<1>6. CASE ~CommitReceipt(o)
  <2>1. KeepReceipts
    BY <1>6 DEF WriterStep, Begin, FindExisting, Publish, VerifyPublished, Readback, Abandon,
      Writing
  <2>2. NothingPromptDeleted' /\ PromptHasReceipt'
    BY <1>0, <1>1, <2>1 DEF OneSweepInv, NothingPromptDeleted, PromptHasReceipt, KeepReceipts
  <2>3. PromptCommitKept'
    BY <1>2, <2>1 DEF OneSweepInv, PromptCommitKept, PromptHasReceipt, KeepReceipts
  <2> QED BY <1>3, <1>4, <2>2, <2>3 DEF OneSweepInv
<1> QED BY <1>5, <1>6

\* What each call of a sweep makes of its page.
LEMMA SweepChange ==
  ASSUME sweep \in [Hosts -> SweepRecord], NEW h \in Hosts, SweepStep(h) \/ Restart(h)
  PROVE  /\ Delete(h) => sweep'[h].pc = "inspect" /\ sweep'[h].todo = sweep[h].todo \ {Candidate(h)}
         /\ StartPage(h) => \A d \in sweep'[h].todo :
              d \in sweep[h].todo \/ (age[d] > Grace /\ object[d] # "absent")
         /\ ~StartPage(h) => sweep'[h].todo \subseteq sweep[h].todo
         /\ Recheck(h) /\ sweep'[h].pc = "delete" =>
              ~Referenced(Candidate(h)) /\ sweep'[h].todo = sweep[h].todo
         /\ ~Recheck(h) /\ ~Delete(h) => sweep'[h].pc # "delete"
<1>0. /\ StartPage(h) => sweep[h].pc = "idle"
      /\ Inspect(h) \/ FinishPage(h) => sweep[h].pc = "inspect"
      /\ Recheck(h) => sweep[h].pc = "recheck"
      /\ Delete(h) => sweep[h].pc = "delete"
  BY DEF StartPage, Inspect, FinishPage, Recheck, Delete
<1>1. /\ Done(h) \in SweepRecord /\ Done(h).pc = "inspect"
      /\ Done(h).todo = sweep[h].todo \ {Candidate(h)}
  BY DEF Done, SweepRecord
<1>2. /\ DoneWithIssue(h).pc = "inspect"
      /\ DoneWithIssue(h).todo = sweep[h].todo \ {Candidate(h)}
  BY <1>1 DEF DoneWithIssue, SweepRecord
<1>3. ASSUME NEW s, Sweeping(h, s) PROVE sweep'[h] = s
  BY <1>3 DEF Sweeping
<1>4. CASE Delete(h)
  <2>1. /\ [Done(h) EXCEPT !.deleted = @ + 1].pc = "inspect"
        /\ [Done(h) EXCEPT !.deleted = @ + 1].todo = sweep[h].todo \ {Candidate(h)}
    BY <1>1 DEF SweepRecord
  <2>2. sweep'[h] \in {[Done(h) EXCEPT !.deleted = @ + 1], DoneWithIssue(h)}
    BY <1>3, <1>4 DEF Delete
  <2> QED BY <1>0, <1>2, <1>4, <2>1, <2>2
<1>5. CASE StartPage(h)
  <2>1. sweep[h] \in SweepRecord
    OBVIOUS
  <2>2. \/ sweep'[h] = [sweep[h] EXCEPT !.pc = "inspect", !.next = NextCursor(sweep[h].cursor),
                                 !.todo = {d \in Page(sweep[h].cursor) : Expired(d)},
                                 !.deleted = 0, !.issue = FALSE, !.since = 0]
        \/ sweep'[h] = [sweep[h] EXCEPT !.since = 0, !.delay = Backoff]
    BY <1>5, <1>3 DEF StartPage
  <2>3. sweep[h].pc = "idle"
    BY <1>5 DEF StartPage
  <2>4. \A d \in Page(sweep[h].cursor) : object[d] # "absent"
    BY DEF Page, Listable
  <2>5. \/ sweep'[h].pc = "inspect" /\ sweep'[h].todo = {d \in Page(sweep[h].cursor) : Expired(d)}
        \/ sweep'[h].pc = sweep[h].pc /\ sweep'[h].todo = sweep[h].todo
    BY <2>1, <2>2 DEF SweepRecord
  <2> QED BY <1>0, <1>5, <2>3, <2>4, <2>5 DEF Expired
<1>6. CASE Recheck(h)
  <2>1. sweep[h] \in SweepRecord /\ sweep[h].pc = "recheck"
    BY <1>6 DEF Recheck
  <2>2. \/ sweep'[h] = Done(h) \/ sweep'[h] = DoneWithIssue(h)
        \/ ~Referenced(Candidate(h)) /\ sweep'[h] = [sweep[h] EXCEPT !.pc = "delete"]
    BY <1>6, <1>3 DEF Recheck
  <2>3. \/ sweep'[h].pc = "inspect" /\ sweep'[h].todo = sweep[h].todo \ {Candidate(h)}
        \/ ~Referenced(Candidate(h)) /\ sweep'[h].todo = sweep[h].todo
    BY <1>1, <1>2, <2>1, <2>2 DEF SweepRecord
  <2> QED BY <1>0, <1>6, <2>1, <2>3
<1>7. CASE Inspect(h)
  <2>1. sweep[h] \in SweepRecord /\ sweep[h].pc = "inspect"
    BY <1>7 DEF Inspect
  <2>2. \/ sweep'[h] = Done(h) \/ sweep'[h] = DoneWithIssue(h)
        \/ sweep'[h] = [sweep[h] EXCEPT !.pc = "recheck"]
    BY <1>7, <1>3 DEF Inspect
  <2>3. \/ sweep'[h].pc = "inspect" /\ sweep'[h].todo = sweep[h].todo \ {Candidate(h)}
        \/ sweep'[h].pc = "recheck" /\ sweep'[h].todo = sweep[h].todo
    BY <1>1, <1>2, <2>1, <2>2 DEF SweepRecord
  <2> QED BY <1>0, <1>7, <2>1, <2>3
<1>8. CASE FinishPage(h)
  <2>1. sweep[h] \in SweepRecord /\ sweep[h].pc = "inspect"
    BY <1>8 DEF FinishPage
  <2>2. sweep'[h] = [sweep[h] EXCEPT !.pc = "idle", !.cursor = CursorAfter(sweep[h]),
                               !.delay = DelayAfter(sweep[h])]
    BY <1>8, <1>3 DEF FinishPage
  <2>3. sweep'[h].pc = "idle" /\ sweep'[h].todo = sweep[h].todo
    BY <2>1, <2>2 DEF SweepRecord
  <2> QED BY <1>0, <1>8, <2>1, <2>3
<1>9. CASE Restart(h) /\ ~Delete(h) /\ ~Recheck(h) /\ ~StartPage(h)
  BY <1>9 DEF Restart, FirstSweep
<1> QED BY <1>4, <1>5, <1>6, <1>7, <1>8, <1>9 DEF SweepStep

LEMMA SweepStepKeepsSweep ==
  ASSUME OneHost, ArtifactStoreInv, OneSweepInv, NEW h \in Hosts, SweepStep(h) \/ Restart(h)
  PROVE  OneSweepInv'
<1>0. /\ StoreTypes /\ sweep \in [Hosts -> SweepRecord] /\ SweepKnows(sweep[h])
      /\ \A g \in Hosts : g = h
  BY InvSplit DEF OneHost
<1>1. KeepReceipts /\ UNCHANGED <<writer, age>>
  BY DEF SweepStep, StartPage, Inspect, Recheck, Delete, FinishPage, Restart, Sweeping, KeepStore
<1>a. sweep[h].todo # {} => Candidate(h) \in sweep[h].todo /\ Candidate(h) \in Digests
  BY <1>0, CandidateListed DEF SweepRecord
<1>2. CASE Delete(h)
  <2>1. sweep[h].pc = "delete" /\ Candidate(h) \in sweep[h].todo /\ Candidate(h) \in Digests
    BY <1>0, <1>2, <1>a DEF Delete, SweepKnows
  <2>2. \A d \in Digests : d # Candidate(h) => object'[d] = object[d]
    BY <1>0, <1>2 DEF Delete, StoreTypes
  <2>3. sweep'[h].pc = "inspect" /\ sweep'[h].todo = sweep[h].todo \ {Candidate(h)}
    BY <1>0, <1>2, SweepChange
  <2>4. ListedStaysOld' /\ NothingPromptDeleted'
    BY <1>0, <1>1, <2>2, <2>3 DEF OneSweepInv, ListedStaysOld, NothingPromptDeleted, SweepRecord
  <2>5. age[Candidate(h)] > Grace
    BY <2>1 DEF OneSweepInv, ListedStaysOld
  <2>6. ReadBackStaysOrAges'
    <3>1. \A o \in Operations : writer[o].pc = "commit" => writer[o].digest \in Digests
      BY InvSplit DEF WriterKnows
    <3> QED BY <1>1, <2>2, <2>5, <3>1 DEF OneSweepInv, ReadBackStaysOrAges
  <2>7. PromptCommitKept' /\ PromptHasReceipt'
    BY <1>1, <2>1, <2>2 DEF OneSweepInv, NothingPromptDeleted, PromptCommitKept, PromptHasReceipt,
      KeepReceipts
  <2> QED BY <2>4, <2>6, <2>7 DEF OneSweepInv
<1>3. CASE ~Delete(h)
  <2>1. KeepStore
    BY <1>3 DEF SweepStep, StartPage, Inspect, Recheck, FinishPage, Restart
  <2>2. ReadBackStaysOrAges' /\ PromptCommitKept' /\ PromptHasReceipt'
    BY <1>1, <2>1 DEF OneSweepInv, ReadBackStaysOrAges, PromptCommitKept, PromptHasReceipt,
      KeepStore, KeepReceipts
  <2>3. ListedStaysOld'
    <3>1. \A d \in sweep'[h].todo : d \in sweep[h].todo \/ (age[d] > Grace /\ object[d] # "absent")
      BY <1>0, SweepChange
    <3> QED BY <1>0, <1>1, <2>1, <3>1 DEF OneSweepInv, ListedStaysOld, KeepStore
  <2>4. NothingPromptDeleted'
    <3>1. CASE Recheck(h) /\ sweep'[h].pc = "delete"
      <4>1. ~Referenced(Candidate(h)) /\ sweep'[h].todo = sweep[h].todo
        BY <1>0, <3>1, SweepChange
      <4>2. Candidate(h)' = Candidate(h)
        BY <4>1 DEF Candidate
      <4> QED BY <1>0, <1>1, <4>1, <4>2 DEF NothingPromptDeleted, Referenced, KeepReceipts
    <3>2. CASE sweep'[h].pc # "delete"
      BY <1>0, <3>2 DEF NothingPromptDeleted
    <3>3. Recheck(h) \/ sweep'[h].pc # "delete"
      BY <1>0, <1>3, SweepChange
    <3> QED BY <3>1, <3>2, <3>3
  <2> QED BY <2>2, <2>3, <2>4 DEF OneSweepInv
<1> QED BY <1>2, <1>3

LEMMA NextKeepsSweep ==
  ASSUME OneHost, ArtifactStoreInv, OneSweepInv, [ArtifactStoreNext]_storeVars
  PROVE  OneSweepInv'
<1>0. StoreTypes /\ sweep \in [Hosts -> SweepRecord] /\ Grace \in Nat
      /\ \A o \in Operations : WriterKnows(writer[o])
  BY InvSplit, Bounds
<1>1. CASE \E o \in Operations : WriterStep(o)
  BY <1>1, WriterStepKeepsSweep
<1>2. CASE \E h \in Hosts : SweepStep(h) \/ Restart(h)
  BY <1>2, SweepStepKeepsSweep
<1>3. CASE \E d \in Digests : Decay(d)
  <2>1. KeepReceipts /\ UNCHANGED <<age, writer, sweep>>
    BY <1>3 DEF Decay
  <2>2. \A d \in Digests : object'[d] = "absent" <=> object[d] = "absent"
    BY <1>0, <1>3 DEF Decay, StoreTypes
  <2>3. ListedStaysOld' /\ ReadBackStaysOrAges'
    BY <1>0, <2>1, <2>2 DEF OneSweepInv, ListedStaysOld, ReadBackStaysOrAges, SweepRecord,
      WriterKnows
  <2>4. PromptCommitKept' /\ PromptHasReceipt' /\ NothingPromptDeleted'
    BY <2>1, <2>2 DEF OneSweepInv, PromptCommitKept, PromptHasReceipt, NothingPromptDeleted,
      Candidate, KeepReceipts
  <2> QED BY <2>3, <2>4 DEF OneSweepInv
<1>4. CASE Tick
  <2>1. KeepReceipts /\ UNCHANGED <<object, writer>>
    BY <1>4 DEF Tick
  <2>2. \A d \in Digests : age[d] > Grace => age'[d] > Grace
    BY <1>0, <1>4 DEF Tick, StoreTypes, Capped
  <2>3. \A h \in Hosts : sweep'[h].pc = sweep[h].pc /\ sweep'[h].todo = sweep[h].todo
    BY <1>0, <1>4 DEF Tick, SweepRecord
  <2>4. \A h \in Hosts : Candidate(h)' = Candidate(h)
    BY <2>3 DEF Candidate
  <2>5. ListedStaysOld' /\ ReadBackStaysOrAges'
    BY <1>0, <2>1, <2>2, <2>3 DEF OneSweepInv, ListedStaysOld, ReadBackStaysOrAges, SweepRecord,
      WriterKnows
  <2>6. PromptCommitKept' /\ PromptHasReceipt' /\ NothingPromptDeleted'
    BY <2>1, <2>3, <2>4 DEF OneSweepInv, PromptCommitKept, PromptHasReceipt,
      NothingPromptDeleted, KeepReceipts
  <2> QED BY <2>5, <2>6 DEF OneSweepInv
<1>5. CASE UNCHANGED storeVars
  BY <1>5 DEF storeVars, OneSweepInv, ListedStaysOld, ReadBackStaysOrAges, NothingPromptDeleted,
    PromptHasReceipt, PromptCommitKept, Candidate
<1> QED BY <1>1, <1>2, <1>3, <1>4, <1>5 DEF ArtifactStoreNext

\* Where one host sweeps, a receipt committed within the grace period of the
\* write keeps its bytes: whatever the sweep listed was too old for such a
\* receipt, and what was read back and is gone since has been old.
THEOREM GraceProtectsPromptCommits ==
  OneHost => (ArtifactStoreSpec => []PromptCommitKept)
<1> SUFFICES ASSUME OneHost PROVE ArtifactStoreSpec => []PromptCommitKept
  OBVIOUS
<1>1. OneSweepInv => PromptCommitKept
  BY DEF OneSweepInv
<1>2. ArtifactStoreInv /\ OneSweepInv /\ [ArtifactStoreNext]_storeVars => OneSweepInv'
  BY NextKeepsSweep
<1> QED BY <1>1, <1>2, InitOneSweep, ArtifactStoreInvariant, PTL DEF ArtifactStoreSpec
=============================================================================
