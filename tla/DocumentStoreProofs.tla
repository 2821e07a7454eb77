------------------------- MODULE DocumentStoreProofs -------------------------
(***************************************************************************)
(* Theorems about the documents, for any documents, requests and callers:  *)
(* how a document's time moves, what callers of the mutation and migration *)
(* services are told, that a document is what its receipts tell, and what  *)
(* a client of the library meets.                                          *)
(***************************************************************************)
EXTENDS DocumentStore, FiniteSetTheorems, TLAPS

\* Nothing that is retained has a time to come.
TimesPassed ==
  /\ clock \in Nat
  /\ records = [d \in Documents |-> records[d]]
  /\ \A d \in Documents : records[d].updatedAt \in Nat /\ records[d].updatedAt <= clock

LEMMA TimesPassedInit == Init => TimesPassed
  BY DEF Init, TimesPassed, SeedRecord

LEMMA TimesPassedNext ==
  ASSUME TimesPassed, [Next]_vars
  PROVE  /\ TimesPassed'
         /\ \A d \in Documents : records'[d].updatedAt >= records[d].updatedAt
<1>1. CASE UNCHANGED records /\ (Tick \/ UNCHANGED clock)
  BY <1>1 DEF TimesPassed, Tick
<1>2. ASSUME NEW c \in Callers, Write(c), ~UNCHANGED records
      PROVE  /\ TimesPassed'
             /\ \A d \in Documents : records'[d].updatedAt >= records[d].updatedAt
  <2>1. PICK seen \in calls[c].seen :
          records' = [records EXCEPT ![Request(c).document] = Written(c, seen)]
    BY <1>2 DEF Write, Change, store
  <2>2. Written(c, seen).updatedAt = clock /\ clock' = clock
    BY <1>2 DEF Write, Written, ReceivedAt
  <2>. QED
    BY <2>1, <2>2 DEF TimesPassed
<1>3. ASSUME NEW c \in Callers,
             (\E r \in scenario : Ask(c, r)) \/ Read(c) \/ Refuse(c) \/ Return(c)
      PROVE  UNCHANGED records /\ UNCHANGED clock
  BY <1>3 DEF Ask, Read, Refuse, Return, store
<1>4. FirstPage \/ NextPage \/ Tick => UNCHANGED records /\ (Tick \/ UNCHANGED clock)
  BY DEF FirstPage, NextPage, Tick, store
<1>5. ASSUME NEW c \in Callers, Write(c)
      PROVE  UNCHANGED clock
  BY <1>5 DEF Write
<1>6. UNCHANGED vars => UNCHANGED records /\ UNCHANGED clock
  BY DEF vars, store
<1>. QED
  BY <1>1, <1>2, <1>3, <1>4, <1>5, <1>6 DEF Next

\* A later revision never has an earlier time.
THEOREM TimesFollowRevisionsAlways == Spec => TimesFollowRevisions
<1>1. TimesPassed /\ [Next]_vars => TimesPassed'
  BY TimesPassedNext
<1>2. TimesPassed /\ [Next]_vars
        => [\A d \in Documents : records'[d].updatedAt >= records[d].updatedAt]_vars
  BY TimesPassedNext
<1>. QED
  BY TimesPassedInit, <1>1, <1>2, PTL DEF Spec, TimesFollowRevisions

-----------------------------------------------------------------------------

\* The rows of calls, and what they say.
CallRows ==
  /\ calls = [c \in Callers |-> calls[c]]
  /\ \A c \in Callers :
       calls[c] \in [call : {calls[c].call}, at : {calls[c].at},
                     requestedAt : {calls[c].requestedAt}, seen : {calls[c].seen},
                     answer : {calls[c].answer}]

AppliedInv == CallRows /\ AppliedIsRetained

\* Receipts are only added: what was said of one stays true.
LEMMA ReceiptsGrow ==
  ASSUME [Next]_vars
  PROVE  mutations \subseteq mutations' /\ migrations \subseteq migrations'
  BY DEF Next, Ask, Read, Refuse, Write, Return, FirstPage, NextPage, Tick, vars, store

LEMMA AppliedInit == Init => AppliedInv
<1>. SUFFICES ASSUME Init
              PROVE  AppliedInv
  OBVIOUS
<1>1. \A c \in Callers : calls[c] = Idle
  BY DEF Init
<1>2. Idle \in [call : {Idle.call}, at : {Idle.at}, requestedAt : {Idle.requestedAt},
                seen : {Idle.seen}, answer : {Idle.answer}]
  BY DEF Idle
<1>3. Idle.answer.status # "applied"
  BY DEF Idle
<1>4. calls = [c \in Callers |-> calls[c]]
  BY DEF Init
<1>. QED
  BY <1>1, <1>2, <1>3, <1>4 DEF AppliedInv, CallRows, AppliedIsRetained

\* A caller is answered: it is enough that this answer is true of a receipt.
LEMMA AppliedSettle ==
  ASSUME AppliedInv, NEW c \in Callers, NEW answer, Settle(c, answer),
         mutations \subseteq mutations', migrations \subseteq migrations',
         answer.status = "applied" =>
           \E x \in mutations' \cup migrations' :
             x.call = Request(c) /\ x.record.revision = answer.revision
  PROVE  AppliedInv'
<1>1. /\ calls'[c] = [calls[c] EXCEPT !.at = "return", !.answer = answer]
      /\ \A d \in Callers \ {c} : calls'[d] = calls[d]
      /\ calls' = [d \in Callers |-> calls'[d]]
  BY DEF Settle, AppliedInv, CallRows
<1>2. calls[c] \in [call : {calls[c].call}, at : {calls[c].at},
                    requestedAt : {calls[c].requestedAt}, seen : {calls[c].seen},
                    answer : {calls[c].answer}]
  BY DEF AppliedInv, CallRows
<1>3. /\ calls'[c] \in [call : {calls[c].call}, at : {"return"},
                        requestedAt : {calls[c].requestedAt}, seen : {calls[c].seen},
                        answer : {answer}]
      /\ calls'[c].call = calls[c].call /\ calls'[c].answer = answer
      /\ calls'[c].at = "return" /\ calls'[c].seen = calls[c].seen
      /\ calls'[c].requestedAt = calls[c].requestedAt
  BY <1>1, <1>2
<1>4. CallRows'
  BY <1>1, <1>3 DEF AppliedInv, CallRows
<1>5. ASSUME NEW d \in Callers, calls'[d].answer.status = "applied"
      PROVE  \E x \in mutations' \cup migrations' :
               x.call = calls'[d].call /\ x.record.revision = calls'[d].answer.revision
  <2>1. CASE d = c
    BY <1>3, <1>5, <2>1 DEF Request
  <2>2. CASE d # c
    <3>1. \E x \in mutations \cup migrations :
            x.call = calls[d].call /\ x.record.revision = calls[d].answer.revision
      BY <1>1, <1>5, <2>2 DEF AppliedInv, AppliedIsRetained, Request
    <3>. QED
      BY <1>1, <2>2, <3>1
  <2>. QED
    BY <2>1, <2>2
<1>6. AppliedIsRetained'
  BY <1>5 DEF AppliedIsRetained, Request
<1>. QED
  BY <1>4, <1>6 DEF AppliedInv

\* Another row replaces a caller's: it is enough that what it says is true.
LEMMA AppliedReplace ==
  ASSUME AppliedInv, NEW c \in Callers, NEW row,
         row \in [call : {row.call}, at : {row.at}, requestedAt : {row.requestedAt},
                  seen : {row.seen}, answer : {row.answer}],
         calls' = [calls EXCEPT ![c] = row],
         mutations \subseteq mutations', migrations \subseteq migrations',
         row.answer.status = "applied" =>
           \E x \in mutations \cup migrations :
             x.call = row.call /\ x.record.revision = row.answer.revision
  PROVE  AppliedInv'
<1>1. /\ calls'[c] = row
      /\ \A d \in Callers \ {c} : calls'[d] = calls[d]
      /\ calls' = [d \in Callers |-> calls'[d]]
  BY DEF AppliedInv, CallRows
<1>2. CallRows'
  BY <1>1 DEF AppliedInv, CallRows
<1>3. AppliedIsRetained'
  BY <1>1 DEF AppliedInv, AppliedIsRetained, Request
<1>. QED
  BY <1>2, <1>3 DEF AppliedInv

\* What a receipt answers is true of it.
LEMMA ReplayIsTrue ==
  ASSUME NEW r, NEW x \in ReceiptsOf(r), Replayed(x, r).status = "applied"
  PROVE  /\ x \in mutations \cup migrations
         /\ x.call = r /\ x.record.revision = Replayed(x, r).revision
  BY DEF Replayed, Says, ReceiptsOf

LEMMA AppliedAsk ==
  ASSUME AppliedInv, NEW c \in Callers, NEW r, Ask(c, r)
  PROVE  AppliedInv'
<1>. DEFINE x == CHOOSE x \in ReceiptsOf(r) : TRUE
            answer == IF ReceiptsOf(r) = {} THEN Idle.answer ELSE Replayed(x, r)
            at == IF ReceiptsOf(r) = {} THEN "read" ELSE "return"
            row == [Idle EXCEPT !.call = r, !.requestedAt = clock, !.at = at, !.answer = answer]
<1>1. /\ calls' = [calls EXCEPT ![c] = row]
      /\ mutations' = mutations /\ migrations' = migrations
  BY DEF Ask, store
<1>2. Idle \in [call : {NoCall}, at : {"idle"}, requestedAt : {0}, seen : {None},
               answer : {Idle.answer}]
  BY DEF Idle
<1>3. /\ row \in [call : {row.call}, at : {row.at}, requestedAt : {row.requestedAt},
                  seen : {row.seen}, answer : {row.answer}]
      /\ row.call = r /\ row.answer = answer
  <2>. HIDE DEF answer, at
  <2>. QED
    BY <1>2
<1>4. ASSUME answer.status = "applied"
      PROVE  \E y \in mutations \cup migrations :
               y.call = r /\ y.record.revision = answer.revision
  <2>1. ReceiptsOf(r) # {}
    BY <1>4 DEF Idle
  <2>2. x \in ReceiptsOf(r)
    BY <2>1
  <2>. HIDE DEF x
  <2>. QED
    BY <1>4, <2>1, <2>2, ReplayIsTrue
<1>. HIDE DEF row, answer
<1>. QED
  BY <1>1, <1>3, <1>4, AppliedReplace

LEMMA AppliedWrite ==
  ASSUME AppliedInv, NEW c \in Callers, Write(c)
  PROVE  AppliedInv'
<1>0. mutations \subseteq mutations' /\ migrations \subseteq migrations'
  BY DEF Write, store
<1>1. ASSUME NEW x \in ReceiptsOf(Request(c)), Settle(c, ReplayedByRepository(x, Request(c)))
      PROVE  AppliedInv'
  BY <1>0, <1>1, ReplayIsTrue, AppliedSettle DEF ReplayedByRepository
<1>2. ASSUME NEW n, Settle(c, Says("stale", n))
      PROVE  AppliedInv'
  BY <1>0, <1>2, AppliedSettle DEF Says
<1>3. ASSUME NEW record, Settle(c, Says("applied", record.revision)),
             \E x \in mutations' \cup migrations' : x.call = Request(c) /\ x.record = record
      PROVE  AppliedInv'
  BY <1>0, <1>3, AppliedSettle DEF Says
<1>. QED
  BY <1>1, <1>2, <1>3 DEF Write

LEMMA AppliedNext == AppliedInv /\ [Next]_vars => AppliedInv'
<1>. SUFFICES ASSUME AppliedInv, [Next]_vars
              PROVE  AppliedInv'
  OBVIOUS
<1>1. mutations \subseteq mutations' /\ migrations \subseteq migrations'
  BY ReceiptsGrow
<1>2. CASE UNCHANGED calls
  BY <1>1, <1>2 DEF AppliedInv, CallRows, AppliedIsRetained, Request
<1>3. ASSUME NEW c \in Callers, Read(c)
      PROVE  AppliedInv'
  <2>. DEFINE seen == {records[d] : d \in Documents \cap {Request(c).document}}
              row == [calls[c] EXCEPT !.at = "write", !.seen = seen]
  <2>1. calls' = [calls EXCEPT ![c] = row]
    BY <1>3 DEF Read, AppliedInv, CallRows
  <2>2. calls[c] \in [call : {calls[c].call}, at : {calls[c].at},
                      requestedAt : {calls[c].requestedAt}, seen : {calls[c].seen},
                      answer : {calls[c].answer}]
    BY DEF AppliedInv, CallRows
  <2>3. calls[c].answer.status = "applied" =>
          \E x \in mutations \cup migrations :
            x.call = calls[c].call /\ x.record.revision = calls[c].answer.revision
    BY DEF AppliedInv, AppliedIsRetained, Request
  <2>. HIDE DEF seen
  <2>4. /\ row \in [call : {row.call}, at : {row.at}, requestedAt : {row.requestedAt},
                    seen : {row.seen}, answer : {row.answer}]
        /\ row.call = calls[c].call /\ row.answer = calls[c].answer
    BY <2>2
  <2>. HIDE DEF row
  <2>. QED
    BY <1>1, <2>1, <2>3, <2>4, AppliedReplace
<1>4. ASSUME NEW c \in Callers, Refuse(c)
      PROVE  AppliedInv'
  <2>1. \A n : Says("rejected", n).status # "applied" /\ Says("stale", n).status # "applied"
    BY DEF Says
  <2>2. PICK answer : Settle(c, answer) /\ answer.status # "applied"
    BY <1>4, <2>1 DEF Refuse
  <2>. QED
    BY <1>1, <2>2, AppliedSettle
<1>5. ASSUME NEW c \in Callers, Return(c)
      PROVE  AppliedInv'
  <2>1. /\ Idle \in [call : {Idle.call}, at : {Idle.at}, requestedAt : {Idle.requestedAt},
                     seen : {Idle.seen}, answer : {Idle.answer}]
        /\ Idle.answer.status # "applied"
    BY DEF Idle
  <2>. QED
    BY <1>1, <1>5, <2>1, AppliedReplace DEF Return
<1>6. FirstPage \/ NextPage \/ Tick => UNCHANGED calls
  BY DEF FirstPage, NextPage, Tick
<1>. QED
  BY <1>2, <1>3, <1>4, <1>5, <1>6, AppliedAsk, AppliedWrite DEF Next, vars

\* Who is told that a request is applied is told the revision which that very
\* request wrote.
THEOREM AppliedIsRetainedAlways == Spec => []AppliedIsRetained
<1>1. AppliedInv => AppliedIsRetained
  BY DEF AppliedInv
<1>. QED
  BY <1>1, AppliedInit, AppliedNext, PTL DEF Spec

-----------------------------------------------------------------------------
(* A document is what its receipts tell.  The operators below state it of any *)
(* receipts and any record, to be used of the state before and after a step.  *)

Past(mu, d, n) == {x \in mu : x.call.document = d /\ x.record.revision <= n}
Place(past, x) == Cardinality({y \in past : y.record.revision <= x.record.revision})
Holds(mu, content, d, n) ==
  /\ Len(content) = Cardinality(Past(mu, d, n))
  /\ \A x \in Past(mu, d, n) : content[Place(Past(mu, d, n), x)] = x.call.edit

ReceiptsIn(mu, mi, d) == {x \in mu \cup mi : x.call.document = d}
MovesIn(mi, d) == {x \in mi : x.call.document = d}

OneEach(mu, mi, n, d) ==
  /\ {x.record.revision : x \in ReceiptsIn(mu, mi, d)} = 1..n
  /\ \A x, y \in ReceiptsIn(mu, mi, d) :
       x.record.revision = y.record.revision \/ SameId(x.call, y.call) => x = y

KeepsSource(mu, x, d) ==
  /\ x.snapshot.version = 2 /\ x.snapshot.revision = x.record.revision - 1
  /\ Holds(mu, x.snapshot.content, d, x.snapshot.revision)
  /\ x.record.content = x.snapshot.content

AddsUp(mu, mi, record, d) ==
  /\ OneEach(mu, mi, record.revision, d)
  /\ Holds(mu, record.content, d, record.revision)
  /\ record.version = IF MovesIn(mi, d) = {} THEN 2 ELSE 3
  /\ record.draft = IF MovesIn(mi, d) = {} THEN None ELSE {record.revision}
  /\ \A x \in MovesIn(mi, d) : KeepsSource(mu, x, d)

LEMMA AddsUpIsHistory ==
  HistoryAddsUp <=> \A d \in Documents : AddsUp(mutations, migrations, records[d], d)
<1>1. \A content, d, n : HasEditsUpTo(content, d, n) <=> Holds(mutations, content, d, n)
  BY DEF HasEditsUpTo, Holds, Past, Place
<1>2. ASSUME NEW d
      PROVE  OneReceiptEach(d) <=> OneEach(mutations, migrations, records[d].revision, d)
  BY DEF OneReceiptEach, OneEach, ReceiptsFor, ReceiptsIn
<1>3. ASSUME NEW d, NEW x PROVE SourceKept(x, d) <=> KeepsSource(mutations, x, d)
  BY <1>1 DEF SourceKept, KeepsSource
<1>4. ASSUME NEW d
      PROVE  VersionAddsUp(d) <=>
               /\ records[d].version = IF MovesIn(migrations, d) = {} THEN 2 ELSE 3
               /\ records[d].draft = IF MovesIn(migrations, d) = {} THEN None
                                     ELSE {records[d].revision}
               /\ \A x \in MovesIn(migrations, d) : KeepsSource(mutations, x, d)
  <2>1. MigrationsOf(d) = MovesIn(migrations, d)
    BY DEF MigrationsOf, MovesIn
  <2> QED BY <1>3, <2>1 DEF VersionAddsUp
<1> QED
  BY <1>1, <1>2, <1>4 DEF HistoryAddsUp, AddsUp

\* What the receipts of a document say is at one of its revisions.
LEMMA RevisionsWithin ==
  ASSUME NEW mu, NEW mi, NEW d, NEW n \in Nat, OneEach(mu, mi, n, d)
  PROVE  \A x \in mu \cup mi : x.call.document = d => x.record.revision \in 1..n
BY DEF OneEach, ReceiptsIn

\* A receipt of a later revision, or of another document, changes nothing of
\* what was before it.
LEMMA PastStays ==
  ASSUME NEW mu, NEW z, NEW d, NEW n \in Nat,
         z.call.document = d => z.record.revision \in Nat /\ z.record.revision > n
  PROVE  Past(mu \cup {z}, d, n) = Past(mu, d, n)
BY DEF Past

LEMMA HoldsStays ==
  ASSUME NEW mu, NEW z, NEW d, NEW n \in Nat, NEW content, Holds(mu, content, d, n),
         z.call.document = d => z.record.revision \in Nat /\ z.record.revision > n
  PROVE  Holds(mu \cup {z}, content, d, n)
<1>1. Past(mu \cup {z}, d, n) = Past(mu, d, n)
  BY PastStays
<1> QED BY <1>1 DEF Holds

\* The place of a mutation among those of its document is one of them.
LEMMA PlaceWithin ==
  ASSUME NEW past, IsFiniteSet(past), NEW x \in past,
         \A y \in past : y.record.revision \in Nat
  PROVE  Place(past, x) \in 1..Cardinality(past)
<1> DEFINE low == {y \in past : y.record.revision <= x.record.revision}
<1>1. x \in low
  OBVIOUS
<1>2. IsFiniteSet(low) /\ Cardinality(low) \in Nat /\ Cardinality(low) <= Cardinality(past)
  BY FS_Subset, FS_CardinalityType, low \subseteq past
<1>3. Cardinality(low) # 0
  BY <1>1, <1>2, FS_EmptySet
<1>4. Cardinality(past) \in Nat
  BY FS_CardinalityType
<1> QED BY <1>2, <1>3, <1>4 DEF Place

\* The edit of the next revision comes last.
LEMMA HoldsGrows ==
  ASSUME NEW mu, IsFiniteSet(mu), NEW z, NEW d, NEW n \in Nat, NEW E, NEW content \in Seq(E),
         Holds(mu, content, d, n), z \notin mu,
         z.call.document = d, z.record.revision = n + 1, z.call.edit \in E,
         \A x \in mu : x.call.document = d => x.record.revision \in 1..n
  PROVE  Holds(mu \cup {z}, Append(content, z.call.edit), d, n + 1)
<1> DEFINE old == Past(mu, d, n)
           new == Past(mu \cup {z}, d, n + 1)
<1>1. new = old \cup {z} /\ z \notin old
  BY DEF Past
<1>2. IsFiniteSet(old)
  BY FS_Subset, old \subseteq mu DEF Past
<1>4. \A x \in old : x.record.revision \in Nat /\ x.record.revision <= n
  BY DEF Past
<1>5. Len(content) = Cardinality(old) /\ \A x \in old : content[Place(old, x)] = x.call.edit
  BY DEF Holds
<1> HIDE DEF old, new
<1>3. IsFiniteSet(new) /\ Cardinality(new) = Cardinality(old) + 1 /\ Cardinality(old) \in Nat
  BY <1>1, <1>2, FS_AddElement, FS_CardinalityType
<1>6. ASSUME NEW x \in old PROVE Append(content, z.call.edit)[Place(new, x)] = x.call.edit
  <2>1. {y \in new : y.record.revision <= x.record.revision}
          = {y \in old : y.record.revision <= x.record.revision}
    BY <1>1, <1>4
  <2>2. Place(new, x) = Place(old, x)
    BY <2>1 DEF Place
  <2>3. Place(old, x) \in 1..Cardinality(old)
    BY <1>2, <1>4, PlaceWithin
  <2> QED BY <1>5, <2>2, <2>3
<1>7. Append(content, z.call.edit)[Place(new, z)] = z.call.edit
  <2>1. {y \in new : y.record.revision <= z.record.revision} = new
    BY <1>1, <1>4
  <2>2. Place(new, z) = Cardinality(old) + 1
    BY <1>3, <2>1 DEF Place
  <2> QED BY <1>5, <2>2
<1>8. Len(Append(content, z.call.edit)) = Cardinality(new)
  BY <1>3, <1>5
<1> QED BY <1>1, <1>6, <1>7, <1>8 DEF Holds, new

\* What is written to another document.
LEMMA OthersAddUp ==
  ASSUME NEW mu, NEW mi, NEW d, NEW record, record.revision \in Nat, AddsUp(mu, mi, record, d),
         NEW z, z.call.document # d
  PROVE  AddsUp(mu \cup {z}, mi, record, d) /\ AddsUp(mu, mi \cup {z}, record, d)
<1>1. /\ ReceiptsIn(mu \cup {z}, mi, d) = ReceiptsIn(mu, mi, d)
      /\ ReceiptsIn(mu, mi \cup {z}, d) = ReceiptsIn(mu, mi, d)
      /\ MovesIn(mi \cup {z}, d) = MovesIn(mi, d)
  BY DEF ReceiptsIn, MovesIn
<1>2. \A n : Past(mu \cup {z}, d, n) = Past(mu, d, n)
  BY DEF Past
<1>3. \A content, n : Holds(mu \cup {z}, content, d, n) <=> Holds(mu, content, d, n)
  BY <1>2 DEF Holds
<1> QED BY <1>1, <1>3 DEF AddsUp, OneEach, KeepsSource

\* One more receipt, of the next revision and under an id of its own.
LEMMA OneMoreEach ==
  ASSUME NEW mu, NEW mi, NEW d, NEW n \in Nat, OneEach(mu, mi, n, d),
         NEW z, z.call.document = d, z.record.revision = n + 1,
         \A x \in mu \cup mi : x.call.document = d => ~SameId(x.call, z.call)
  PROVE  OneEach(mu \cup {z}, mi, n + 1, d) /\ OneEach(mu, mi \cup {z}, n + 1, d)
<1> DEFINE all == ReceiptsIn(mu, mi, d)
<1>1. /\ ReceiptsIn(mu \cup {z}, mi, d) = all \cup {z}
      /\ ReceiptsIn(mu, mi \cup {z}, d) = all \cup {z}
  BY DEF ReceiptsIn
<1>2. /\ {x.record.revision : x \in all} = 1..n
      /\ \A x, y \in all :
           x.record.revision = y.record.revision \/ SameId(x.call, y.call) => x = y
  BY DEF OneEach
<1>3. \A x \in all : x.record.revision \in 1..n /\ ~SameId(x.call, z.call) /\ ~SameId(z.call, x.call)
  BY <1>2 DEF ReceiptsIn, SameId
<1> HIDE DEF all
<1>4. {x.record.revision : x \in all \cup {z}} = 1..(n + 1)
  <2>1. {x.record.revision : x \in all \cup {z}} = {x.record.revision : x \in all} \cup {n + 1}
    OBVIOUS
  <2> QED BY <1>2, <2>1
<1>5. \A x, y \in all \cup {z} :
        x.record.revision = y.record.revision \/ SameId(x.call, y.call) => x = y
  BY <1>2, <1>3
<1> QED BY <1>1, <1>4, <1>5 DEF OneEach

\* A migrated document keeps its source, whatever is written after it.
LEMMA SourceStays ==
  ASSUME NEW mu, NEW d, NEW n \in Nat, NEW x, x.record.revision \in 1..n, KeepsSource(mu, x, d),
         NEW z, z.record.revision = n + 1
  PROVE  KeepsSource(mu \cup {z}, x, d)
<1>1. x.snapshot.revision \in Nat /\ x.snapshot.revision < n + 1
  BY DEF KeepsSource
<1> QED BY <1>1, HoldsStays DEF KeepsSource

\* A mutation that is written where the service has read.
LEMMA MutationAddsUp ==
  ASSUME NEW mu, IsFiniteSet(mu), NEW mi, NEW d, NEW record, NEW E, record.content \in Seq(E),
         record.revision \in Nat, AddsUp(mu, mi, record, d),
         NEW z, z.call.document = d, z.call.edit \in E, z.record.version = record.version,
         z.record.content = Append(record.content, z.call.edit),
         z.record.revision = record.revision + 1,
         z.record.draft = IF z.record.version = 3 THEN {z.record.revision} ELSE None,
         \A x \in mu \cup mi : x.call.document = d => ~SameId(x.call, z.call)
  PROVE  AddsUp(mu \cup {z}, mi, z.record, d)
<1> DEFINE n == record.revision
<1>1. OneEach(mu, mi, n, d)
  BY DEF AddsUp
<1>2. \A x \in mu \cup mi : x.call.document = d => x.record.revision \in 1..n
  BY <1>1, RevisionsWithin
<1>3. n \in Nat /\ z.record.revision = n + 1 /\ Holds(mu, record.content, d, n)
  BY DEF AddsUp
<1>4. Holds(mu \cup {z}, z.record.content, d, n + 1)
  <2>1. \A x \in mu : x.call.document = d => x.record.revision \in 1..n
    BY <1>2
  <2>2. z \notin mu
    BY <1>3, <2>1
  <2> HIDE DEF n
  <2>3. Holds(mu \cup {z}, Append(record.content, z.call.edit), d, n + 1)
    BY <1>3, <2>1, <2>2, HoldsGrows
  <2> QED BY <2>3
<1>5. OneEach(mu \cup {z}, mi, n + 1, d)
  BY <1>1, OneMoreEach
<1>6. ASSUME NEW x \in MovesIn(mi, d) PROVE KeepsSource(mu \cup {z}, x, d)
  <2>1. x.record.revision \in 1..n /\ KeepsSource(mu, x, d)
    BY <1>2 DEF AddsUp, MovesIn
  <2> HIDE DEF n
  <2> QED BY <1>3, <2>1, SourceStays
<1>7. /\ z.record.version = IF MovesIn(mi, d) = {} THEN 2 ELSE 3
      /\ z.record.draft = IF MovesIn(mi, d) = {} THEN None ELSE {z.record.revision}
  <2>1. record.version = IF MovesIn(mi, d) = {} THEN 2 ELSE 3
    BY DEF AddsUp
  <2> QED BY <2>1
<1>8. OneEach(mu \cup {z}, mi, z.record.revision, d)
  BY <1>3, <1>5
<1>9. Holds(mu \cup {z}, z.record.content, d, z.record.revision)
  BY <1>3, <1>4
<1> QED BY <1>6, <1>7, <1>8, <1>9 DEF AddsUp

\* A migration: the receipt keeps what it replaces.
LEMMA MigrationAddsUp ==
  ASSUME NEW mu, NEW mi, NEW d, NEW record, record.revision \in Nat, AddsUp(mu, mi, record, d),
         record.version = 2,
         NEW z, z.call.document = d, z.snapshot = record, z.record.version = 3,
         z.record.content = record.content, z.record.revision = record.revision + 1,
         z.record.draft = {z.record.revision},
         \A x \in mu \cup mi : x.call.document = d => ~SameId(x.call, z.call)
  PROVE  AddsUp(mu, mi \cup {z}, z.record, d)
<1> DEFINE n == record.revision
<1>1. OneEach(mu, mi, n, d) /\ Holds(mu, record.content, d, n) /\ MovesIn(mi, d) = {}
  BY DEF AddsUp
<1>2. \A x \in mu \cup mi : x.call.document = d => x.record.revision \in 1..n
  BY <1>1, RevisionsWithin
<1>3. Past(mu, d, n + 1) = Past(mu, d, n)
  BY <1>2 DEF Past
<1>4. Holds(mu, record.content, d, n + 1)
  BY <1>1, <1>3 DEF Holds
<1>5. OneEach(mu, mi \cup {z}, n + 1, d)
  BY <1>1, OneMoreEach
<1>6. MovesIn(mi \cup {z}, d) = {z}
  BY <1>1 DEF MovesIn
<1>7. KeepsSource(mu, z, d)
  BY <1>1 DEF KeepsSource
<1> QED BY <1>4, <1>5, <1>6, <1>7 DEF AddsUp

-----------------------------------------------------------------------------
(* The inductive invariant of the history. *)

Edits == {r.edit : r \in UNION Scenarios}
RecordType == [version : {2, 3}, content : Seq(Edits), revision : Nat, updatedAt : Nat,
               draft : SUBSET Nat]

\* What a service has read is the document, unless that has moved on since.
RowStands(row, recs) ==
  /\ row.at \in {"read", "write"} => row.call \in UNION Scenarios
  /\ \A seen \in row.seen :
       LET d == row.call.document IN
       /\ d \in Documents /\ seen \in RecordType
       /\ seen.revision <= recs[d].revision
       /\ seen.revision = recs[d].revision => seen = recs[d]

KindsApart(mu, mi) ==
  /\ IsFiniteSet(mu)
  /\ \A x \in mu : x.call.kind # "migrate"
  /\ \A x \in mi : x.call.kind = "migrate"

StoreStands ==
  /\ scenario \in Scenarios
  /\ records \in [Documents -> RecordType]
  /\ KindsApart(mutations, migrations)
  /\ \A d \in Documents : AddsUp(mutations, migrations, records[d], d)

HistoryInv ==
  /\ TimesPassed /\ AppliedInv /\ StoreStands
  /\ \A c \in Callers : RowStands(calls[c], records)

LEMMA HistoryInit == Init => HistoryInv
<1> SUFFICES ASSUME Init PROVE HistoryInv
  OBVIOUS
<1>1. /\ scenario \in Scenarios /\ mutations = {} /\ migrations = {}
      /\ \A d \in Documents : records[d] = SeedRecord
      /\ records = [d \in Documents |-> SeedRecord]
      /\ \A c \in Callers : calls[c] = Idle
  BY DEF Init
<1>2. SeedRecord \in RecordType
  <2>1. <<>> \in Seq(Edits)
    OBVIOUS
  <2>2. None \in SUBSET Nat
    BY DEF None
  <2> QED BY <2>1, <2>2 DEF SeedRecord, RecordType
<1>3. ASSUME NEW d PROVE AddsUp({}, {}, SeedRecord, d)
  <2>1. /\ SeedRecord.revision = 0 /\ SeedRecord.version = 2 /\ SeedRecord.draft = None
        /\ SeedRecord.content = <<>>
    BY DEF SeedRecord
  <2>2. ReceiptsIn({}, {}, d) = {} /\ MovesIn({}, d) = {} /\ Past({}, d, 0) = {}
    BY DEF ReceiptsIn, MovesIn, Past
  <2>3. OneEach({}, {}, 0, d)
    BY <2>2 DEF OneEach
  <2>4. Holds({}, <<>>, d, 0)
    BY <2>2, FS_EmptySet DEF Holds
  <2> QED BY <2>1, <2>2, <2>3, <2>4 DEF AddsUp
<1>4. KindsApart({}, {})
  BY FS_EmptySet DEF KindsApart
<1>5. RowStands(Idle, records)
  BY DEF RowStands, Idle, None
<1> QED
  BY <1>1, <1>2, <1>3, <1>4, <1>5, TimesPassedInit, AppliedInit DEF HistoryInv, StoreStands

\* One row changes, and the documents do not.
LEMMA RowChanges ==
  ASSUME AppliedInv, \A d \in Callers : RowStands(calls[d], records), UNCHANGED records,
         NEW c \in Callers, NEW row, RowStands(row, records), calls' = [calls EXCEPT ![c] = row]
  PROVE  \A d \in Callers : RowStands(calls'[d], records')
<1>1. \A d \in Callers : calls'[d] = IF d = c THEN row ELSE calls[d]
  BY DEF AppliedInv, CallRows
<1> QED BY <1>1

\* A call that is settled has read what it has read.
LEMMA SettledRow ==
  ASSUME AppliedInv, NEW c \in Callers, NEW answer, NEW recs, RowStands(calls[c], recs),
         Settle(c, answer)
  PROVE  /\ RowStands(calls'[c], recs)
         /\ \A d \in Callers \ {c} : calls'[d] = calls[d]
<1>1. /\ calls'[c] = [calls[c] EXCEPT !.at = "return", !.answer = answer]
      /\ \A d \in Callers \ {c} : calls'[d] = calls[d]
  BY DEF Settle, AppliedInv, CallRows
<1>2. calls[c] \in [call : {calls[c].call}, at : {calls[c].at},
                    requestedAt : {calls[c].requestedAt}, seen : {calls[c].seen},
                    answer : {calls[c].answer}]
  BY DEF AppliedInv, CallRows
<1>3. /\ calls'[c].call = calls[c].call /\ calls'[c].seen = calls[c].seen
      /\ calls'[c].at = "return"
  BY <1>1, <1>2
<1> QED BY <1>1, <1>3 DEF RowStands

\* Every step that leaves the store alone.
LEMMA CallsStand ==
  ASSUME HistoryInv, [Next]_vars, UNCHANGED store
  PROVE  \A d \in Callers : RowStands(calls'[d], records')
<1> USE DEF HistoryInv
<1>0. UNCHANGED records
  BY DEF store
<1>1. CASE UNCHANGED calls
  BY <1>0, <1>1
<1>2. ASSUME NEW c \in Callers, NEW r \in scenario, Ask(c, r)
      PROVE  \A d \in Callers : RowStands(calls'[d], records')
  <2> DEFINE at == IF ReceiptsOf(r) = {} THEN "read" ELSE "return"
             answer == IF ReceiptsOf(r) = {} THEN Idle.answer
                       ELSE Replayed(CHOOSE x \in ReceiptsOf(r) : TRUE, r)
             row == [Idle EXCEPT !.call = r, !.requestedAt = clock, !.at = at, !.answer = answer]
  <2>1. calls' = [calls EXCEPT ![c] = row]
    BY <1>2 DEF Ask
  <2>2. r \in UNION Scenarios
    BY DEF StoreStands
  <2>3. row.call = r /\ row.seen = {}
    <3> HIDE DEF at, answer
    <3> QED BY DEF Idle, None
  <2>4. RowStands(row, records)
    <3> HIDE DEF row
    <3> QED BY <2>2, <2>3 DEF RowStands
  <2> HIDE DEF row
  <2> QED BY <1>0, <2>1, <2>4, RowChanges
<1>3. ASSUME NEW c \in Callers, Read(c)
      PROVE  \A d \in Callers : RowStands(calls'[d], records')
  <2> DEFINE seen == {records[d] : d \in Documents \cap {Request(c).document}}
             row == [calls[c] EXCEPT !.at = "write", !.seen = seen]
  <2>1. calls' = [calls EXCEPT ![c] = row]
    BY <1>3 DEF Read, AppliedInv, CallRows
  <2>2. calls[c].call \in UNION Scenarios
    BY <1>3 DEF Read, RowStands
  <2>3. calls[c] \in [call : {calls[c].call}, at : {calls[c].at},
                      requestedAt : {calls[c].requestedAt}, seen : {calls[c].seen},
                      answer : {calls[c].answer}]
    BY DEF AppliedInv, CallRows
  <2>4. row.call = calls[c].call /\ row.seen = seen
    <3> HIDE DEF seen
    <3> QED BY <2>3
  <2>5. \A s \in seen : /\ calls[c].call.document \in Documents /\ s \in RecordType
                        /\ s = records[calls[c].call.document]
    BY DEF Request, StoreStands
  <2>6. \A s \in RecordType : s.revision <= s.revision
    BY DEF RecordType
  <2> HIDE DEF seen, row
  <2>7. RowStands(row, records)
    BY <2>2, <2>4, <2>5, <2>6 DEF RowStands
  <2> QED BY <1>0, <2>1, <2>7, RowChanges
<1>4. ASSUME NEW c \in Callers, NEW answer, Settle(c, answer)
      PROVE  \A d \in Callers : RowStands(calls'[d], records')
  BY <1>0, <1>4, SettledRow
<1>5. ASSUME NEW c \in Callers, Refuse(c) \/ Write(c)
      PROVE  \E answer : Settle(c, answer)
  BY <1>5 DEF Refuse, Write
<1>6. ASSUME NEW c \in Callers, Return(c)
      PROVE  \A d \in Callers : RowStands(calls'[d], records')
  <2>1. RowStands(Idle, records)
    BY DEF RowStands, Idle, None
  <2> QED BY <1>0, <1>6, <2>1, RowChanges DEF Return
<1>7. FirstPage \/ NextPage \/ Tick \/ UNCHANGED vars => UNCHANGED calls
  BY DEF FirstPage, NextPage, Tick, vars
<1> QED
  BY <1>1, <1>2, <1>3, <1>4, <1>5, <1>6, <1>7 DEF Next

\* What a service writes over the record it has read.
LEMMA WrittenRecord ==
  ASSUME NEW c \in Callers, NEW seen \in RecordType, clock \in Nat,
         Request(c) \in UNION Scenarios, records[Request(c).document] = seen
  PROVE  /\ Written(c, seen) \in RecordType
         /\ Written(c, seen).revision = seen.revision + 1
         /\ Written(c, seen).version = IF Request(c).kind = "migrate" THEN 3 ELSE seen.version
         /\ Written(c, seen).content = IF Request(c).kind = "migrate" THEN seen.content
                                       ELSE Append(seen.content, Request(c).edit)
         /\ Written(c, seen).draft = IF Written(c, seen).version = 3
                                     THEN {Written(c, seen).revision} ELSE None
<1> DEFINE r == Request(c)
           revision == seen.revision + 1
           version == IF r.kind = "migrate" THEN 3 ELSE seen.version
           content == IF r.kind = "migrate" THEN seen.content ELSE Append(seen.content, r.edit)
           draft == IF version = 3 THEN {revision} ELSE None
<1>1. Written(c, seen) = [version |-> version, content |-> content, revision |-> revision,
                          updatedAt |-> clock, draft |-> draft]
  BY DEF Written, ReceivedAt
<1>2. /\ seen.content \in Seq(Edits) /\ seen.revision \in Nat /\ seen.version \in {2, 3}
      /\ r.edit \in Edits
  BY DEF RecordType, Edits
<1>3. version \in {2, 3} /\ content \in Seq(Edits) /\ revision \in Nat /\ draft \in SUBSET Nat
  BY <1>2 DEF None
<1> HIDE DEF version, content, revision, draft
<1>4. [version |-> version, content |-> content, revision |-> revision, updatedAt |-> clock,
       draft |-> draft] \in RecordType
  BY <1>3 DEF RecordType
<1> QED BY <1>1, <1>4 DEF version, content, revision, draft

\* An accepted request that finds the document as it has been read.
LEMMA WriteKeepsHistory ==
  ASSUME HistoryInv, NEW c \in Callers, NEW seen \in calls[c].seen, calls[c].at = "write",
         Accepts(c, seen), ReceiptsOf(Request(c)) = {}, StillCurrent(Request(c), seen),
         Settle(c, Says("applied", Written(c, seen).revision)), UNCHANGED scenario,
         records' = [records EXCEPT ![Request(c).document] = Written(c, seen)],
         IF Request(c).kind = "migrate"
         THEN /\ migrations' = migrations \cup
                   {[call |-> Request(c), record |-> Written(c, seen),
                     snapshot |-> records[Request(c).document]]}
              /\ UNCHANGED mutations
         ELSE /\ mutations' = mutations \cup {[call |-> Request(c), record |-> Written(c, seen)]}
              /\ UNCHANGED migrations
  PROVE  StoreStands' /\ \A d \in Callers : RowStands(calls'[d], records')
<1> DEFINE r == Request(c)
           d == r.document
           old == records[d]
           new == Written(c, seen)
<1>1. /\ r \in UNION Scenarios /\ d \in Documents /\ seen \in RecordType /\ seen = old
  BY DEF HistoryInv, RowStands, Request, StillCurrent
<1>2. /\ new \in RecordType
      /\ new.revision = old.revision + 1
      /\ new.version = IF r.kind = "migrate" THEN 3 ELSE old.version
      /\ new.content = IF r.kind = "migrate" THEN old.content ELSE Append(old.content, r.edit)
      /\ new.draft = IF new.version = 3 THEN {new.revision} ELSE None
  BY <1>1, WrittenRecord DEF HistoryInv, TimesPassed
<1>3. /\ old.content \in Seq(Edits) /\ old.revision \in Nat /\ r.edit \in Edits
      /\ \A e \in Documents : records[e].revision \in Nat
  BY <1>1 DEF RecordType, Edits, HistoryInv, StoreStands
<1>4. \A x \in mutations \cup migrations : x.call.document = d => ~SameId(x.call, r)
  BY DEF ReceiptsOf, SameId, HistoryInv, StoreStands, KindsApart
<1>5. \A e \in Documents : AddsUp(mutations, migrations, records[e], e)
  BY DEF HistoryInv, StoreStands
<1>6. IsFiniteSet(mutations)
  BY DEF HistoryInv, StoreStands, KindsApart
<1> HIDE DEF new, old
<1>7. records' \in [Documents -> RecordType] /\ records'[d] = new
      /\ \A e \in Documents : e # d => records'[e] = records[e]
  BY <1>1, <1>2 DEF new, HistoryInv, StoreStands
<1>8. KindsApart(mutations', migrations')
  <2>1. CASE r.kind = "migrate"
    BY <2>1 DEF KindsApart, HistoryInv, StoreStands
  <2>2. CASE r.kind # "migrate"
    <3> DEFINE z == [call |-> r, record |-> new]
    <3>1. mutations' = mutations \cup {z} /\ migrations' = migrations /\ z.call = r
      BY <2>2 DEF new
    <3> HIDE DEF z
    <3>2. IsFiniteSet(mutations')
      BY <1>6, <3>1, FS_AddElement
    <3> QED BY <2>2, <3>1, <3>2 DEF KindsApart, HistoryInv, StoreStands
  <2> QED BY <2>1, <2>2
<1>9. ASSUME NEW e \in Documents PROVE AddsUp(mutations', migrations', records'[e], e)
  <2>1. CASE r.kind = "migrate"
    <3> DEFINE z == [call |-> r, record |-> new, snapshot |-> old]
    <3>1. /\ mutations' = mutations /\ migrations' = migrations \cup {z}
          /\ z.call = r /\ z.record = new /\ z.snapshot = old
      BY <2>1 DEF new, old
    <3>2. old.version = 2
      BY <1>1, <2>1 DEF Accepts, Fits
    <3> HIDE DEF z
    <3>3. CASE e = d
      <4>1. old.revision \in Nat /\ AddsUp(mutations, migrations, old, d) /\ old.version = 2
        BY <1>1, <1>3, <1>5, <3>2 DEF old
      <4>2. /\ z.call.document = d /\ z.snapshot = old /\ z.record.version = 3
            /\ z.record.content = old.content /\ z.record.revision = old.revision + 1
            /\ z.record.draft = {z.record.revision}
        BY <1>2, <2>1, <3>1
      <4>3. \A x \in mutations \cup migrations : x.call.document = d => ~SameId(x.call, z.call)
        BY <1>4, <3>1
      <4>4. AddsUp(mutations, migrations \cup {z}, z.record, d)
        BY <4>1, <4>2, <4>3, MigrationAddsUp
      <4> QED BY <1>7, <3>1, <3>3, <4>4
    <3>4. CASE e # d
      BY <1>3, <1>5, <1>7, <3>1, <3>4, OthersAddUp
    <3> QED BY <3>3, <3>4
  <2>2. CASE r.kind # "migrate"
    <3> DEFINE z == [call |-> r, record |-> new]
    <3>1. /\ mutations' = mutations \cup {z} /\ migrations' = migrations
          /\ z.call = r /\ z.record = new
      BY <2>2 DEF new
    <3> HIDE DEF z
    <3>3. CASE e = d
      <4>1. AddsUp(mutations, migrations, old, d)
        BY <1>1, <1>5 DEF old
      <4>2. /\ z.call.document = d /\ z.call.edit \in Edits /\ z.record.version = old.version
            /\ z.record.content = Append(old.content, z.call.edit)
            /\ z.record.revision = old.revision + 1
            /\ z.record.draft = IF z.record.version = 3 THEN {z.record.revision} ELSE None
        BY <1>2, <1>3, <2>2, <3>1
      <4>3. \A x \in mutations \cup migrations : x.call.document = d => ~SameId(x.call, z.call)
        BY <1>4, <3>1
      <4>4. AddsUp(mutations \cup {z}, migrations, z.record, d)
        BY <1>3, <1>6, <4>1, <4>2, <4>3, MutationAddsUp
      <4> QED BY <1>7, <3>1, <3>3, <4>4
    <3>4. CASE e # d
      BY <1>3, <1>5, <1>7, <3>1, <3>4, OthersAddUp
    <3> QED BY <3>3, <3>4
  <2> QED BY <2>1, <2>2
<1>10. \A row : RowStands(row, records) => RowStands(row, records')
  BY <1>1, <1>2, <1>3, <1>7 DEF RowStands, RecordType, old
<1>11. \A e \in Callers : RowStands(calls'[e], records')
  <2>1. \A e \in Callers : RowStands(calls[e], records')
    BY <1>10 DEF HistoryInv
  <2> QED BY <2>1, SettledRow DEF HistoryInv
<1> QED BY <1>7, <1>8, <1>9, <1>11 DEF StoreStands, HistoryInv

LEMMA HistoryNext == HistoryInv /\ [Next]_vars => HistoryInv'
<1> SUFFICES ASSUME HistoryInv, [Next]_vars PROVE HistoryInv'
  OBVIOUS
<1>1. TimesPassed' /\ AppliedInv'
  BY TimesPassedNext, AppliedNext DEF HistoryInv
<1>2. CASE UNCHANGED store
  <2>1. UNCHANGED scenario
    BY DEF Next, Ask, Read, Refuse, Write, Return, FirstPage, NextPage, Tick, vars
  <2>2. StoreStands'
    BY <1>2, <2>1 DEF HistoryInv, StoreStands, store
  <2> QED BY <1>1, <1>2, <2>2, CallsStand DEF HistoryInv
<1>3. CASE ~UNCHANGED store
  <2>1. PICK c \in Callers : Write(c)
    BY <1>3 DEF Next, Ask, Read, Refuse, Return, FirstPage, NextPage, Tick, vars
  <2>2. StoreStands' /\ \A d \in Callers : RowStands(calls'[d], records')
    BY <1>3, <2>1, WriteKeepsHistory DEF Write, Change
  <2> QED BY <1>1, <2>2 DEF HistoryInv
<1> QED BY <1>2, <1>3

\* Whatever services overlap, and under whatever request ids, a document is
\* what its receipts tell: each revision written by one of them, each edit of a
\* receipt in its place of the content, the source of a migration kept.
THEOREM HistoryAddsUpAlways == Spec => []HistoryAddsUp
<1>1. HistoryInv => HistoryAddsUp
  BY AddsUpIsHistory DEF HistoryInv, StoreStands
<1> QED BY <1>1, HistoryInit, HistoryNext, PTL DEF Spec

-----------------------------------------------------------------------------
(* The library: whoever follows its cursor meets what did not change once.   *)

\* The locale orders the ids as their code units do.
LocaleFollowsIds ==
  \A d, e \in Documents : LocaleRank[d] < LocaleRank[e] <=> d < e

CursorType == [document : Documents, updatedAt : Nat]

\* The order of the library, where the two orders of ids are one: at the times
\* that recs say.
Behind(recs, d, cursor) ==
  \/ recs[d].updatedAt < cursor.updatedAt
  \/ recs[d].updatedAt = cursor.updatedAt /\ d > cursor.document

Among(d, listed) == \E i \in DOMAIN listed : listed[i] = d

\* Where a walk is: nothing is listed twice or again; what did not change is
\* listed, or to come if the walk goes on.
WalkStands(w, recs) ==
  /\ w \in [open : BOOLEAN, after : {{}} \cup {{cursor} : cursor \in CursorType},
            listed : Seq(Documents), changed : {w.changed}]
  /\ \A i, j \in DOMAIN w.listed : w.listed[i] = w.listed[j] => i = j
  /\ w.open => \E cursor \in CursorType :
       /\ w.after = {cursor}
       /\ \A i \in DOMAIN w.listed : ~Behind(recs, w.listed[i], cursor)
       /\ \A d \in Documents \ w.changed : Among(d, w.listed) \/ Behind(recs, d, cursor)
  /\ ~w.open /\ w.listed # <<>> => \A d \in Documents \ w.changed : Among(d, w.listed)

WalkInv == TimesPassed /\ WalkStands(walk, records)

LEMMA WalkInit == Init => WalkInv
<1> SUFFICES ASSUME Init PROVE WalkInv
  OBVIOUS
<1>1. walk = [open |-> FALSE, after |-> {}, listed |-> <<>>, changed |-> {}]
  BY DEF Init, None
<1>2. <<>> \in Seq(Documents) /\ DOMAIN <<>> = {}
  OBVIOUS
<1>3. walk \in [open : BOOLEAN, after : {{}} \cup {{cursor} : cursor \in CursorType},
                listed : Seq(Documents), changed : {walk.changed}]
  BY <1>1, <1>2
<1>4. walk.open = FALSE /\ walk.listed = <<>>
  BY <1>1
<1> QED BY <1>2, <1>3, <1>4, TimesPassedInit DEF WalkInv, WalkStands

\* A page is the first of the rest, in its order; if no more is left, it is all
\* of the rest.
LEMMA PageIsFirst ==
  ASSUME LocaleFollowsIds, TimesPassed, NEW rest, rest \subseteq Documents,
         NEW page \in Pages(rest), NEW next, next = CursorAfter(page, rest)
  PROVE  /\ page \in Seq(Documents)
         /\ \A i, j \in DOMAIN page : page[i] = page[j] => i = j
         /\ \A i \in DOMAIN page : page[i] \in rest
         /\ next = {} => \A d \in rest : Among(d, page)
         /\ next # {} => \E cursor \in CursorType :
              /\ next = {cursor} /\ cursor.document \in rest
              /\ cursor.updatedAt = records[cursor.document].updatedAt
              /\ \A i \in DOMAIN page : ~Behind(records, page[i], cursor)
              /\ \A d \in rest : Among(d, page) \/ Behind(records, d, cursor)
<1> DEFINE size == IF Cardinality(rest) > PageSize THEN PageSize ELSE Cardinality(rest)
<1>1. IsFiniteSet(rest) /\ Cardinality(rest) \in Nat
  BY DocumentStoreAssumption, FS_Subset, FS_CardinalityType
<1>2. size \in Nat /\ size <= Cardinality(rest) /\ PageSize \in 1..100
  BY <1>1, DocumentStoreAssumption
<1>3. /\ page \in [1..size -> rest]
      /\ \A i, j \in 1..size : i < j => page[i] # page[j] /\ ~Before(page[j], page[i])
      /\ \A d \in rest, j \in 1..size : (\A i \in 1..size : page[i] # d) => ~Before(d, page[j])
  BY DEF Pages
<1> HIDE DEF size
<1>4. DOMAIN page = 1..size /\ page \in Seq(Documents)
  <2>1. page \in [1..size -> Documents]
    BY <1>3
  <2> QED BY <1>2, <2>1
<1>5. \A i, j \in DOMAIN page : page[i] = page[j] => i = j
  BY <1>2, <1>3, <1>4
<1>6. \A i \in DOMAIN page : page[i] \in rest
  BY <1>3, <1>4
<1>7. ASSUME next = {} PROVE \A d \in rest : Among(d, page)
  <2>1. Cardinality(rest) = size
    BY <1>7 DEF CursorAfter, size
  <2>2. page \in Injection(1..size, rest)
    BY <1>3, <1>4, <1>5 DEF Injection, IsInjective
  <2>3. Cardinality(1..size) = size
    BY <1>2, FS_Interval
  <2>4. page \in Surjection(1..size, rest)
    BY <1>1, <2>1, <2>2, <2>3, FS_Injection
  <2> QED BY <1>4, <2>4 DEF Surjection, Among
<1>8. ASSUME next # {}
      PROVE  \E cursor \in CursorType :
              /\ next = {cursor} /\ cursor.document \in rest
              /\ cursor.updatedAt = records[cursor.document].updatedAt
              /\ \A i \in DOMAIN page : ~Behind(records, page[i], cursor)
              /\ \A d \in rest : Among(d, page) \/ Behind(records, d, cursor)
  <2> DEFINE last == page[PageSize]
             cursor == [document |-> last, updatedAt |-> records[last].updatedAt]
  <2>1. size = PageSize /\ next = {cursor}
    BY <1>8 DEF CursorAfter, None, size
  <2>2. PageSize \in DOMAIN page /\ last \in rest
    BY <1>2, <1>4, <1>6, <2>1
  <2>3. records[last].updatedAt \in Nat
    BY <2>2 DEF TimesPassed
  <2>4. /\ cursor.document = last /\ cursor.updatedAt = records[last].updatedAt
        /\ cursor \in CursorType
    BY <2>2, <2>3 DEF CursorType
  <2> HIDE DEF cursor
  <2>5. \A d \in rest : /\ records[d].updatedAt \in Nat /\ d \in Nat
                        /\ LocaleRank[d] \in Nat /\ d \in Documents
    BY DocumentStoreAssumption DEF TimesPassed
  <2>6. ASSUME NEW i \in DOMAIN page PROVE ~Behind(records, page[i], cursor)
    <3>1. CASE i = PageSize
      BY <2>2, <2>4, <2>5, <3>1 DEF Behind
    <3>2. CASE i # PageSize
      <4>1. i < PageSize
        BY <1>2, <1>4, <2>1, <3>2
      <4>2. ~Before(last, page[i])
        BY <1>3, <1>4, <2>1, <2>2, <4>1
      <4>3. page[i] \in rest
        BY <1>6
      <4>4. ASSUME page[i] > last PROVE LocaleRank[last] < LocaleRank[page[i]]
        BY <2>2, <2>5, <4>3, <4>4 DEF LocaleFollowsIds
      <4> QED BY <2>2, <2>4, <2>5, <4>2, <4>3, <4>4 DEF Before, Behind
    <3> QED BY <3>1, <3>2
  <2>7. ASSUME NEW d \in rest, ~Among(d, page) PROVE Behind(records, d, cursor)
    <3>1. ~Before(d, last) /\ d # last
      BY <1>3, <1>4, <2>1, <2>2, <2>7 DEF Among
    <3>2. ASSUME d < last PROVE LocaleRank[d] < LocaleRank[last]
      BY <2>2, <2>5, <3>2 DEF LocaleFollowsIds
    <3> QED BY <2>2, <2>4, <2>5, <3>1, <3>2 DEF Before, Behind
  <2> QED BY <2>1, <2>2, <2>4, <2>6, <2>7
<1> QED BY <1>4, <1>5, <1>6, <1>7, <1>8

\* What two sequences put together list.
LEMMA ListedTogether ==
  ASSUME NEW S, NEW s \in Seq(S), NEW t \in Seq(S)
  PROVE  /\ s \o t \in Seq(S)
         /\ \A d : Among(d, s \o t) <=> Among(d, s) \/ Among(d, t)
<1>1. /\ s \o t \in Seq(S) /\ Len(s) \in Nat /\ Len(t) \in Nat
      /\ DOMAIN s = 1..Len(s) /\ DOMAIN t = 1..Len(t) /\ DOMAIN (s \o t) = 1..(Len(s) + Len(t))
  OBVIOUS
<1>2. \A i \in 1..Len(s) : (s \o t)[i] = s[i]
  OBVIOUS
<1>3. \A i \in 1..Len(t) : (s \o t)[Len(s) + i] = t[i]
  OBVIOUS
<1>4. ASSUME NEW d, Among(d, s \o t) PROVE Among(d, s) \/ Among(d, t)
  <2>1. PICK i \in 1..(Len(s) + Len(t)) : (s \o t)[i] = d
    BY <1>1, <1>4 DEF Among
  <2>2. CASE i \in 1..Len(s)
    BY <1>1, <1>2, <2>1, <2>2 DEF Among
  <2>3. CASE i \notin 1..Len(s)
    <3>1. i - Len(s) \in 1..Len(t) /\ i = Len(s) + (i - Len(s))
      BY <1>1, <2>3
    <3>2. t[i - Len(s)] = d
      BY <1>3, <2>1, <3>1
    <3> QED BY <1>1, <3>1, <3>2 DEF Among
  <2> QED BY <2>2, <2>3
<1>5. ASSUME NEW d, Among(d, s) PROVE Among(d, s \o t)
  BY <1>1, <1>2, <1>5 DEF Among
<1>6. ASSUME NEW d, Among(d, t) PROVE Among(d, s \o t)
  <2>1. PICK i \in 1..Len(t) : t[i] = d
    BY <1>1, <1>6 DEF Among
  <2>2. Len(s) + i \in 1..(Len(s) + Len(t)) /\ (s \o t)[Len(s) + i] = d
    BY <1>1, <1>3, <2>1
  <2> QED BY <1>1, <2>2 DEF Among
<1> QED BY <1>1, <1>4, <1>5, <1>6

\* Two sequences without repetition and nothing in common.
LEMMA ListedOnceTogether ==
  ASSUME NEW S, NEW s \in Seq(S), NEW t \in Seq(S),
         \A i, j \in DOMAIN s : s[i] = s[j] => i = j,
         \A i, j \in DOMAIN t : t[i] = t[j] => i = j,
         \A i \in DOMAIN s, j \in DOMAIN t : s[i] # t[j]
  PROVE  \A i, j \in DOMAIN (s \o t) : (s \o t)[i] = (s \o t)[j] => i = j
<1>1. /\ Len(s) \in Nat /\ Len(t) \in Nat
      /\ DOMAIN s = 1..Len(s) /\ DOMAIN t = 1..Len(t) /\ DOMAIN (s \o t) = 1..(Len(s) + Len(t))
  OBVIOUS
<1>2. \A i \in 1..(Len(s) + Len(t)) :
        \/ i \in 1..Len(s) /\ (s \o t)[i] = s[i]
        \/ i - Len(s) \in 1..Len(t) /\ (s \o t)[i] = t[i - Len(s)]
  OBVIOUS
<1> SUFFICES ASSUME NEW i \in 1..(Len(s) + Len(t)), NEW j \in 1..(Len(s) + Len(t)),
                    (s \o t)[i] = (s \o t)[j]
             PROVE  i = j
  BY <1>1
<1>3. CASE i \in 1..Len(s) /\ j \in 1..Len(s)
  BY <1>1, <1>2, <1>3
<1>4. CASE i \notin 1..Len(s) /\ j \notin 1..Len(s)
  <2>1. i - Len(s) = j - Len(s)
    BY <1>1, <1>2, <1>4
  <2> QED BY <1>1, <2>1
<1>5. CASE i \in 1..Len(s) /\ j \notin 1..Len(s)
  BY <1>1, <1>2, <1>5
<1>6. CASE i \notin 1..Len(s) /\ j \in 1..Len(s)
  BY <1>1, <1>2, <1>6
<1> QED BY <1>3, <1>4, <1>5, <1>6

Continued(next, listed, page, changed) ==
  [open |-> next # {}, after |-> next, listed |-> listed \o page, changed |-> changed]

\* A page of what is behind everything listed so far continues the walk.
LEMMA PageContinues ==
  ASSUME LocaleFollowsIds, TimesPassed, NEW rest, rest \subseteq Documents,
         NEW page \in Pages(rest), NEW next, next = CursorAfter(page, rest),
         NEW listed \in Seq(Documents), NEW changed,
         \A i, j \in DOMAIN listed : listed[i] = listed[j] => i = j,
         \A i \in DOMAIN listed, d \in rest :
           \/ records[listed[i]].updatedAt > records[d].updatedAt
           \/ records[listed[i]].updatedAt = records[d].updatedAt /\ listed[i] < d,
         \A d \in Documents \ changed : Among(d, listed) \/ d \in rest
  PROVE  WalkStands(Continued(next, listed, page, changed), records)
<1>1. /\ page \in Seq(Documents)
      /\ \A i, j \in DOMAIN page : page[i] = page[j] => i = j
      /\ \A i \in DOMAIN page : page[i] \in rest
      /\ next = {} => \A d \in rest : Among(d, page)
      /\ next # {} => \E cursor \in CursorType :
           /\ next = {cursor} /\ cursor.document \in rest
           /\ cursor.updatedAt = records[cursor.document].updatedAt
           /\ \A i \in DOMAIN page : ~Behind(records, page[i], cursor)
           /\ \A d \in rest : Among(d, page) \/ Behind(records, d, cursor)
  BY PageIsFirst
<1> DEFINE all == listed \o page
           w == Continued(next, listed, page, changed)
<1>2. w.open = (next # {}) /\ w.after = next /\ w.listed = all /\ w.changed = changed
  BY DEF Continued
<1>3. \A d \in Documents : records[d].updatedAt \in Nat /\ d \in Nat
  BY DocumentStoreAssumption DEF TimesPassed
<1>4. \A i \in DOMAIN listed : listed[i] \in Documents
  OBVIOUS
<1>5. all \in Seq(Documents) /\ \A d : Among(d, all) <=> Among(d, listed) \/ Among(d, page)
  BY <1>1, ListedTogether
<1>6. \A i, j \in DOMAIN all : all[i] = all[j] => i = j
  <2>1. ASSUME NEW i \in DOMAIN listed, NEW j \in DOMAIN page PROVE listed[i] # page[j]
    <3>1. page[j] \in rest /\ page[j] \in Documents
      BY <1>1
    <3>2. \/ records[listed[i]].updatedAt > records[page[j]].updatedAt
          \/ records[listed[i]].updatedAt = records[page[j]].updatedAt /\ listed[i] < page[j]
      BY <3>1
    <3> QED BY <1>3, <3>1, <3>2
  <2> QED BY <1>1, <2>1, ListedOnceTogether
<1>7. w \in [open : BOOLEAN, after : {{}} \cup {{cursor} : cursor \in CursorType},
             listed : Seq(Documents), changed : {w.changed}]
  <2>1. next \in {{}} \cup {{cursor} : cursor \in CursorType}
    BY <1>1
  <2>2. (next # {}) \in BOOLEAN
    OBVIOUS
  <2> QED BY <1>5, <2>1, <2>2 DEF Continued
<1> HIDE DEF all, w
<1>8. ASSUME next # {}
      PROVE  \E cursor \in CursorType :
               /\ w.after = {cursor}
               /\ \A i \in DOMAIN all : ~Behind(records, all[i], cursor)
               /\ \A d \in Documents \ changed : Among(d, all) \/ Behind(records, d, cursor)
  <2>1. PICK cursor \in CursorType :
           /\ next = {cursor} /\ cursor.document \in rest
           /\ cursor.updatedAt = records[cursor.document].updatedAt
           /\ \A i \in DOMAIN page : ~Behind(records, page[i], cursor)
           /\ \A d \in rest : Among(d, page) \/ Behind(records, d, cursor)
    BY <1>1, <1>8
  <2>2. ASSUME NEW i \in DOMAIN listed PROVE ~Behind(records, listed[i], cursor)
    <3>1. \/ records[listed[i]].updatedAt > cursor.updatedAt
          \/ records[listed[i]].updatedAt = cursor.updatedAt /\ listed[i] < cursor.document
      BY <2>1
    <3>2. /\ records[listed[i]].updatedAt \in Nat /\ cursor.updatedAt \in Nat
          /\ listed[i] \in Nat /\ cursor.document \in Nat
      BY <1>3, <1>4, <2>1
    <3> QED BY <3>1, <3>2 DEF Behind
  <2>3. ASSUME NEW i \in DOMAIN all PROVE ~Behind(records, all[i], cursor)
    <3>1. Among(all[i], listed) \/ Among(all[i], page)
      BY <1>5 DEF Among
    <3> QED BY <2>1, <2>2, <3>1 DEF Among
  <2>4. \A d \in Documents \ changed : Among(d, all) \/ Behind(records, d, cursor)
    BY <1>5, <2>1
  <2> QED BY <1>2, <2>1, <2>3, <2>4
<1>9. ASSUME next = {} PROVE \A d \in Documents \ changed : Among(d, all)
  BY <1>1, <1>5, <1>9
<1> HIDE DEF Among
<1>10. /\ w.open => \E cursor \in CursorType :
            /\ w.after = {cursor}
            /\ \A i \in DOMAIN w.listed : ~Behind(records, w.listed[i], cursor)
            /\ \A d \in Documents \ w.changed : Among(d, w.listed) \/ Behind(records, d, cursor)
       /\ ~w.open => \A d \in Documents \ w.changed : Among(d, w.listed)
  BY <1>2, <1>8, <1>9
<1> QED BY <1>2, <1>6, <1>7, <1>10 DEF WalkStands, w

\* A walk that nobody moves: what is written to a document moves its time
\* forward, and it to those that changed.
LEMMA WalkWaits ==
  ASSUME TimesPassed, TimesPassed', WalkStands(walk, records), NEW changed,
         walk' = [walk EXCEPT !.changed = changed], walk.changed \subseteq changed,
         \A d \in Documents : records'[d].updatedAt >= records[d].updatedAt,
         \A d \in Documents \ changed : records'[d].updatedAt = records[d].updatedAt
  PROVE  WalkStands(walk', records')
<1>1. walk \in [open : BOOLEAN, after : {{}} \cup {{cursor} : cursor \in CursorType},
                listed : Seq(Documents), changed : {walk.changed}]
  BY DEF WalkStands
<1>2. /\ walk' \in [open : BOOLEAN, after : {{}} \cup {{cursor} : cursor \in CursorType},
                    listed : Seq(Documents), changed : {walk'.changed}]
      /\ walk'.open = walk.open /\ walk'.after = walk.after /\ walk'.listed = walk.listed
      /\ walk'.changed = changed
  BY <1>1
<1>3. \A i \in DOMAIN walk.listed : walk.listed[i] \in Documents
  BY <1>1
<1>4. \A d \in Documents : records[d].updatedAt \in Nat /\ records'[d].updatedAt \in Nat
  BY DEF TimesPassed
<1>5. ASSUME NEW cursor \in CursorType, NEW d \in Documents, ~Behind(records, d, cursor)
      PROVE  ~Behind(records', d, cursor)
  <2>1. cursor.updatedAt \in Nat
    BY DEF CursorType
  <2> QED BY <1>4, <1>5, <2>1 DEF Behind
<1>6. ASSUME NEW cursor, NEW d \in Documents \ changed, Behind(records, d, cursor)
      PROVE  Behind(records', d, cursor)
  BY <1>6 DEF Behind
<1>7. ASSUME walk.open
      PROVE  \E cursor \in CursorType :
               /\ walk.after = {cursor}
               /\ \A i \in DOMAIN walk.listed : ~Behind(records', walk.listed[i], cursor)
               /\ \A d \in Documents \ changed :
                    Among(d, walk.listed) \/ Behind(records', d, cursor)
  <2>1. PICK cursor \in CursorType :
          /\ walk.after = {cursor}
          /\ \A i \in DOMAIN walk.listed : ~Behind(records, walk.listed[i], cursor)
          /\ \A d \in Documents \ walk.changed :
               Among(d, walk.listed) \/ Behind(records, d, cursor)
    BY <1>7 DEF WalkStands
  <2> QED BY <1>3, <1>5, <1>6, <2>1
<1>8. /\ \A i, j \in DOMAIN walk.listed : walk.listed[i] = walk.listed[j] => i = j
      /\ ~walk.open /\ walk.listed # <<>> =>
           \A d \in Documents \ changed : Among(d, walk.listed)
  BY DEF WalkStands
<1> QED BY <1>2, <1>7, <1>8 DEF WalkStands

LEMMA WalkNext == LocaleFollowsIds /\ WalkInv /\ [Next]_vars => WalkInv'
<1> SUFFICES ASSUME LocaleFollowsIds, WalkInv, [Next]_vars PROVE WalkInv'
  OBVIOUS
<1> USE DEF WalkInv
<1>1. TimesPassed' /\ \A d \in Documents : records'[d].updatedAt >= records[d].updatedAt
  BY TimesPassedNext
<1>2. \A d \in Documents : records[d].updatedAt \in Nat /\ d \in Nat
  BY DocumentStoreAssumption DEF TimesPassed
<1>3. walk \in [open : BOOLEAN, after : {{}} \cup {{cursor} : cursor \in CursorType},
                listed : Seq(Documents), changed : {walk.changed}]
  BY DEF WalkStands
<1>4. ASSUME UNCHANGED walk, UNCHANGED records PROVE WalkInv'
  BY <1>1, <1>4
<1>5. ASSUME NEW c \in Callers, NEW record, NEW d, Change(d, record) PROVE WalkInv'
  <2> DEFINE changed == walk.changed \cup {d}
  <2>1. walk' = [walk EXCEPT !.changed = changed]
    BY <1>3, <1>5 DEF Change
  <2>2. \A e \in Documents \ changed : records'[e].updatedAt = records[e].updatedAt
    BY <1>5 DEF Change, TimesPassed
  <2>3. walk.changed \subseteq changed
    OBVIOUS
  <2> HIDE DEF changed
  <2> QED BY <1>1, <2>1, <2>2, <2>3, WalkWaits
<1>6. CASE FirstPage
  <2> DEFINE rest == Rest(None)
  <2>1. PICK page \in Pages(rest) :
          walk' = [open |-> CursorAfter(page, rest) # {}, after |-> CursorAfter(page, rest),
                   listed |-> page, changed |-> {}]
    BY <1>6 DEF FirstPage, None
  <2>2. rest = Documents
    BY DEF Rest, None
  <2>3. page \in Seq(Documents)
    BY <2>2, PageIsFirst
  <2>4. <<>> \in Seq(Documents) /\ DOMAIN <<>> = {} /\ <<>> \o page = page
    BY <2>3
  <2>5. UNCHANGED records
    BY <1>6 DEF FirstPage, store
  <2> DEFINE next == CursorAfter(page, rest)
  <2> DEFINE listed == <<>>
  <2>6. walk' = Continued(next, listed, page, {})
    BY <2>1, <2>4 DEF Continued
  <2>7. /\ listed \in Seq(Documents)
        /\ \A i, j \in DOMAIN listed : listed[i] = listed[j] => i = j
        /\ \A i \in DOMAIN listed, d \in rest :
             \/ records[listed[i]].updatedAt > records[d].updatedAt
             \/ records[listed[i]].updatedAt = records[d].updatedAt /\ listed[i] < d
    BY <2>4
  <2>8. \A d \in Documents \ {} : Among(d, listed) \/ d \in rest
    BY <2>2
  <2>9. next = CursorAfter(page, rest) /\ rest \subseteq Documents
    BY <2>2
  <2> HIDE DEF rest, next, listed
  <2>10. WalkStands(Continued(next, listed, page, {}), records)
    BY <2>7, <2>8, <2>9, PageContinues
  <2> QED BY <1>1, <2>5, <2>6, <2>10
<1>7. CASE NextPage
  <2> DEFINE rest == Rest(walk.after)
  <2>1. walk.open /\ UNCHANGED records
    BY <1>7 DEF NextPage, store
  <2>2. PICK cursor \in CursorType :
          /\ walk.after = {cursor}
          /\ \A i \in DOMAIN walk.listed : ~Behind(records, walk.listed[i], cursor)
          /\ \A d \in Documents \ walk.changed :
               Among(d, walk.listed) \/ Behind(records, d, cursor)
    BY <2>1 DEF WalkStands
  <2>3. rest = {d \in Documents : Behind(records, d, cursor)}
    BY <2>2 DEF Rest, Follows, Behind
  <2>4. PICK page \in Pages(rest) :
          walk' = [walk EXCEPT !.open = CursorAfter(page, rest) # {},
                               !.after = CursorAfter(page, rest), !.listed = @ \o page]
    BY <1>7 DEF NextPage, None
  <2> DEFINE next == CursorAfter(page, rest)
  <2>5. walk' = Continued(next, walk.listed, page, walk.changed)
    BY <1>3, <2>4 DEF Continued
  <2>6. /\ walk.listed \in Seq(Documents)
        /\ \A i, j \in DOMAIN walk.listed : walk.listed[i] = walk.listed[j] => i = j
    BY <1>3 DEF WalkStands
  <2>7. ASSUME NEW i \in DOMAIN walk.listed, NEW d \in rest
        PROVE  \/ records[walk.listed[i]].updatedAt > records[d].updatedAt
               \/ /\ records[walk.listed[i]].updatedAt = records[d].updatedAt
                  /\ walk.listed[i] < d
    <3>1. walk.listed[i] \in Documents /\ d \in Documents
      BY <2>3, <2>6
    <3>2. ~Behind(records, walk.listed[i], cursor) /\ Behind(records, d, cursor)
      BY <2>2, <2>3
    <3>3. cursor.updatedAt \in Nat /\ cursor.document \in Nat
      BY <1>2 DEF CursorType
    <3> QED BY <1>2, <3>1, <3>2, <3>3 DEF Behind
  <2>8. \A d \in Documents \ walk.changed : Among(d, walk.listed) \/ d \in rest
    BY <2>2, <2>3
  <2>9. next = CursorAfter(page, rest) /\ rest \subseteq Documents
    BY <2>3
  <2> HIDE DEF rest, next
  <2>10. \A i \in DOMAIN walk.listed, d \in rest :
           \/ records[walk.listed[i]].updatedAt > records[d].updatedAt
           \/ records[walk.listed[i]].updatedAt = records[d].updatedAt /\ walk.listed[i] < d
    BY <2>7
  <2>11. WalkStands(Continued(next, walk.listed, page, walk.changed), records)
    BY <2>6, <2>8, <2>9, <2>10, PageContinues
  <2> QED BY <1>1, <2>1, <2>5, <2>11
<1>8. ASSUME NEW c \in Callers, Write(c)
      PROVE  (UNCHANGED walk /\ UNCHANGED records) \/ \E d, record : Change(d, record)
  BY <1>8 DEF Write, store
<1>9. ASSUME NEW c \in Callers,
             (\E r \in scenario : Ask(c, r)) \/ Read(c) \/ Refuse(c) \/ Return(c)
      PROVE  UNCHANGED walk /\ UNCHANGED records
  BY <1>9 DEF Ask, Read, Refuse, Return, store
<1>10. Tick \/ UNCHANGED vars => UNCHANGED walk /\ UNCHANGED records
  BY DEF Tick, vars, store
<1> QED BY <1>4, <1>5, <1>6, <1>7, <1>8, <1>9, <1>10 DEF Next

\* Where the locale orders ids as their code units do, whoever follows the
\* library's cursor to its end meets every document that did not change
\* meanwhile once, and none twice, whatever is written between two pages.
THEOREM UnchangedAlwaysListedOnce == LocaleFollowsIds => (Spec => []UnchangedListedOnce)
<1> SUFFICES ASSUME LocaleFollowsIds PROVE Spec => []UnchangedListedOnce
  OBVIOUS
<1>1. WalkInv => UnchangedListedOnce
  BY DEF WalkInv, WalkStands, UnchangedListedOnce, Among
<1>2. WalkInv /\ [Next]_vars => WalkInv'
  BY WalkNext
<1> QED BY <1>1, <1>2, WalkInit, PTL DEF Spec
=============================================================================
