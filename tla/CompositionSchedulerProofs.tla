------------------------ MODULE CompositionSchedulerProofs ------------------------
(***************************************************************************)
(* Theorems about one composition job, for any document, any number of     *)
(* hosts and any limits: its head parses and its usage is exact, each of   *)
(* its transitions has one request, its chain loads, a job that never      *)
(* failed is not refused for its limits, and it implements                 *)
(* CompositionPromise.                                                     *)
(***************************************************************************)
EXTENDS CompositionScheduler, FiniteSetTheorems, WellFoundedInduction, TLAPS

-----------------------------------------------------------------------------
(* The inductive invariant. *)

\* A head that was created, as the parser of stored heads accepts it.
Parsed(h) == h \in HeadType /\ h.status # "absent" /\ h.rev # None /\ HeadParses(h)

\* What the step a caller is about to commit leaves.
Batch(h) == IF h.status = "ready-to-finalize" THEN Outputs ELSE TransitionRecords(h)

StoreInv ==
  /\ store \subseteq RecordType /\ IsFiniteSet(store)
  /\ usage = Cardinality(store) /\ usage <= MaxBytes

\* A caller holds a head under lease that was current when it took it, and is as long
\* as the revision stands.
InLease == {"leased", "commit", "clear"}

LeaseInv(c) == job[c].pc \in InLease =>
  /\ Parsed(job[c].head) /\ job[c].head.leased /\ job[c].r \in Requests
  /\ ~job[c].head.deferred
  /\ head # NoHead /\ job[c].head.rev <= head.rev
  /\ job[c].head.rev = head.rev => Exact(job[c].head)

\* What was staged can be retained, and stays stored as long as the job has not ended.
StagedInv(c) == job[c].pc = "commit" =>
  /\ job[c].head.retained + Cardinality(Batch(job[c].head)) <= MaxBytes
  /\ head.status \notin Terminal => Batch(job[c].head) \subseteq store

\* The request of a caller whose lease still stands is not indexed, and without a
\* mishap such a caller clears its lease only to block the job.
StandingInv(c) == Exact(job[c].head) =>
  /\ job[c].pc \in {"leased", "commit"} => ~Answered(job[c].r, job[c].head)
  /\ job[c].pc = "clear" /\ mishaps = 0 => job[c].terminal

JobInv(c) == LeaseInv(c) /\ StagedInv(c) /\ StandingInv(c)

\* Without a mishap every attempt made is a transition, or the one under way.
AttemptsAdvance == mishaps = 0 /\ head.status \in Active =>
  /\ head.attempts = head.n + (IF head.leased THEN 1 ELSE 0)
  /\ ~head.lapsed
  /\ head.leased => \E c \in Callers : job[c].pc \in InLease /\ Exact(job[c].head)

\* The limits leave room for the transitions of the document.
Roomy == MaxTransitions >= Length /\ MaxAttempts > Length

CompositionSchedulerInv ==
  /\ CompositionSchedulerTypeOK
  /\ head = NoHead \/ Parsed(head)
  /\ StoreInv
  /\ \A c \in Callers : JobInv(c)
  /\ OneRequestPerTransition
  /\ AttemptsAdvance
  /\ Roomy => NoFailureNoRefusal

-----------------------------------------------------------------------------
(* The document, the limits and the parts of the state. *)

LEMMA Limits ==
  /\ Length \in Nat /\ MaxRevision \in Nat /\ MaxMishaps \in Nat
  /\ MaxBytes \in Nat /\ MaxBytes >= 3
  /\ MaxAttempts \in Nat /\ MaxTransitions \in Nat
  /\ \A n \in 1 .. Length : Document[n].window \in BOOLEAN /\ Document[n].pages \in BOOLEAN
  /\ InitialPages \in BOOLEAN
<1>1. Document \in Seq([window : BOOLEAN, pages : BOOLEAN])
  BY CompositionSchedulerAssumption
<1>2. Len(Document) \in Nat
  BY <1>1
<1>3. \A n \in 1 .. Len(Document) : Document[n] \in [window : BOOLEAN, pages : BOOLEAN]
  <2>. DEFINE Transitions == [window : BOOLEAN, pages : BOOLEAN]
  <2>1. Document \in Seq(Transitions)
    BY <1>1
  <2>. HIDE DEF Transitions
  <2>2. \A n \in 1 .. Len(Document) : Document[n] \in Transitions
    BY <2>1
  <2>. QED
    BY <2>2 DEF Transitions
<1>4. \A n \in 1 .. Length : Document[n].window \in BOOLEAN /\ Document[n].pages \in BOOLEAN
  BY <1>3 DEF Length
<1>. QED
  BY <1>2, <1>4, CompositionSchedulerAssumption DEF Length

\* Only a head after all its transitions is ready to be finalized.
LEMMA StatusFollows ==
  ASSUME NEW n \in 0 .. Length
  PROVE  /\ StatusAfter(n) \in Active
         /\ StatusAfter(n) = "ready-to-finalize" <=> n = Length
  BY Limits DEF StatusAfter, Active

LEMMA HeadFields ==
  ASSUME NEW h \in HeadType
  PROVE  /\ h.n \in 0 .. Length /\ h.n \in Nat /\ h.n <= Length
         /\ h.rev \in None .. MaxRevision /\ h.rev \in Int /\ h.rev >= None /\ h.rev <= MaxRevision
         /\ h.receiptTip \in None .. MaxRevision /\ h.chunkTip \in None .. MaxRevision
         /\ h.retained \in Nat /\ h.retained <= MaxBytes
         /\ h.attempts \in Nat /\ h.attempts <= MaxAttempts
         /\ h.status \in {"absent"} \cup Active \cup Terminal
         /\ h.leased \in BOOLEAN /\ h.lapsed \in BOOLEAN /\ h.deferred \in BOOLEAN
         /\ h.retryable \in BOOLEAN
<1>1. /\ h.n \in 0 .. Length /\ h.rev \in None .. MaxRevision
      /\ h.receiptTip \in None .. MaxRevision /\ h.chunkTip \in None .. MaxRevision
      /\ h.retained \in 0 .. MaxBytes /\ h.attempts \in 0 .. MaxAttempts
      /\ h.status \in {"absent"} \cup Active \cup Terminal
      /\ h.leased \in BOOLEAN /\ h.lapsed \in BOOLEAN /\ h.deferred \in BOOLEAN
      /\ h.retryable \in BOOLEAN
  BY DEF HeadType
<1>. QED
  BY <1>1, Limits DEF None

LEMMA NoHeadTyped == NoHead \in HeadType /\ NoHead.status = "absent" /\ NoHead.rev = None
  BY Limits DEF NoHead, HeadType, None

JobType == [pc : {"idle", "create", "leased", "commit", "clear"},
            r : Requests \cup {None}, head : HeadType, terminal : BOOLEAN]

LEMMA IdleTyped == Idle \in JobType /\ Idle.pc = "idle"
  BY NoHeadTyped DEF Idle, JobType

LEMMA Typed ==
  CompositionSchedulerTypeOK <=>
    /\ head \in HeadType /\ HeadParses(head)
    /\ store \subseteq RecordType
    /\ usage \in 0 .. MaxBytes /\ UsageIsExact
    /\ requests \in [Requests -> {None} \cup 1 .. Length] /\ finals \subseteq Requests
    /\ job \in [Callers -> JobType]
    /\ cleaner \in [head : HeadType, protect : SUBSET RecordType]
    /\ late \in BOOLEAN /\ refused \in BOOLEAN /\ mishaps \in 0 .. MaxMishaps
  BY DEF CompositionSchedulerTypeOK, JobType

\* A caller under a lease, and the head it holds.
LEMMA JobFields ==
  ASSUME CompositionSchedulerInv, NEW c \in Callers
  PROVE  /\ job[c] \in JobType /\ JobInv(c) /\ job[c].terminal \in BOOLEAN
         /\ job[c].head \in HeadType
         /\ job[c].pc \in InLease =>
              /\ Parsed(job[c].head) /\ job[c].head.leased /\ job[c].r \in Requests
              /\ job[c].head.status \in Active /\ Parsed(head)
<1>1. job[c] \in JobType /\ JobInv(c)
  BY Typed DEF CompositionSchedulerInv
<1>2. job[c].terminal \in BOOLEAN /\ job[c].head \in HeadType
  BY <1>1 DEF JobType
<1>3. \A h : Parsed(h) /\ h.leased => h.status \in Active
  BY DEF Parsed, HeadType, HeadParses
<1>. QED
  BY <1>1, <1>2, <1>3 DEF JobInv, LeaseInv, CompositionSchedulerInv

-----------------------------------------------------------------------------
(* Heads: what a revision keeps of them, and that what it makes is accepted. *)

\* The parts of a head that only a commit changes.
SameChain(g, h) == /\ g.n = h.n /\ g.receiptTip = h.receiptTip /\ g.chunkTip = h.chunkTip
                   /\ g.retained = h.retained

LEMMA ParsedAgain ==
  ASSUME NEW h, Parsed(h), NEW g \in HeadType, g.rev # None, SameChain(g, h),
         g.status = h.status \/ g.status \in {"blocked", "cancelled", "expired"},
         g.status \in Terminal => ~g.leased
  PROVE  Parsed(g)
  BY DEF Parsed, HeadParses, ChainParses, RetentionParses, SameChain, Active, Terminal

LEMMA RevisedHead ==
  ASSUME NEW h \in HeadType, Revised(h).rev <= MaxRevision
  PROVE  /\ Revised(h) \in HeadType /\ SameChain(Revised(h), h)
         /\ Revised(h).rev = h.rev + 1 /\ Revised(h).rev # None
         /\ Revised(h).status = h.status /\ Revised(h).leased = h.leased
         /\ Revised(h).lapsed = FALSE /\ Revised(h).attempts = h.attempts
         /\ Revised(h).deferred = h.deferred /\ Revised(h).retryable = h.retryable
<1>1. h.rev \in Int /\ h.rev >= None /\ Revised(h).rev = h.rev + 1
  BY HeadFields DEF Revised, HeadType
<1>2. PICK rev \in None .. MaxRevision : rev = h.rev + 1 /\ rev # None
  BY <1>1, Limits DEF None
<1>3. Revised(h) = [h EXCEPT !.rev = rev, !.lapsed = FALSE]
  BY <1>2 DEF Revised
<1>. QED
  BY <1>1, <1>2, <1>3 DEF HeadType, SameChain

\* A revision without the lease of the head before.
LEMMA ReleasedHead ==
  ASSUME NEW h \in HeadType, Released(h).rev <= MaxRevision
  PROVE  /\ Released(h) \in HeadType /\ SameChain(Released(h), h)
         /\ Released(h).rev = h.rev + 1 /\ Released(h).rev # None
         /\ Released(h).status = h.status /\ Released(h).leased = FALSE
         /\ Released(h).lapsed = FALSE /\ Released(h).attempts = h.attempts
         /\ Released(h).deferred = h.deferred /\ Released(h).retryable = FALSE
<1>1. Released(h).rev = Revised(h).rev
  BY DEF Released, Revised, HeadType
<1>2. /\ Revised(h) \in HeadType /\ SameChain(Revised(h), h)
      /\ Revised(h).rev = h.rev + 1 /\ Revised(h).rev # None
      /\ Revised(h).status = h.status /\ Revised(h).lapsed = FALSE
      /\ Revised(h).attempts = h.attempts /\ Revised(h).deferred = h.deferred
  BY <1>1, RevisedHead
<1>. DEFINE g == Revised(h)
<1>3. Released(h) = [g EXCEPT !.leased = FALSE, !.retryable = FALSE]
  BY DEF Released
<1>. HIDE DEF g
<1>4. g = Revised(h)
  BY DEF g
<1>. QED
  BY <1>2, <1>3, <1>4 DEF HeadType, SameChain

LEMMA LeasedHead ==
  ASSUME NEW h, Parsed(h), Leased(h).rev <= MaxRevision, h.status \in Active,
         h.attempts < MaxAttempts
  PROVE  /\ Parsed(Leased(h)) /\ SameChain(Leased(h), h)
         /\ Leased(h).rev = h.rev + 1 /\ Leased(h).status = h.status
         /\ Leased(h).leased = TRUE /\ Leased(h).lapsed = FALSE
         /\ Leased(h).attempts = h.attempts + 1 /\ Leased(h).deferred = h.deferred
<1>1. h \in HeadType /\ Leased(h).rev = Revised(h).rev
  BY DEF Leased, Revised, HeadType, Parsed
<1>2. /\ Revised(h) \in HeadType /\ SameChain(Revised(h), h)
      /\ Revised(h).rev = h.rev + 1 /\ Revised(h).rev # None
      /\ Revised(h).status = h.status /\ Revised(h).lapsed = FALSE
      /\ Revised(h).attempts = h.attempts /\ Revised(h).deferred = h.deferred
  BY <1>1, RevisedHead
<1>3. PICK attempts \in 0 .. MaxAttempts : attempts = h.attempts + 1
  BY <1>1, HeadFields, Limits
<1>. DEFINE g == Revised(h)
<1>4. Leased(h) = [g EXCEPT !.leased = TRUE, !.attempts = attempts, !.retryable = FALSE]
  BY <1>2, <1>3 DEF Leased
<1>. HIDE DEF g
<1>5. g = Revised(h)
  BY DEF g
<1>6. /\ Leased(h) \in HeadType /\ SameChain(Leased(h), h)
      /\ Leased(h).rev = h.rev + 1 /\ Leased(h).rev # None /\ Leased(h).status = h.status
      /\ Leased(h).leased = TRUE /\ Leased(h).lapsed = FALSE /\ Leased(h).attempts = attempts
      /\ Leased(h).deferred = h.deferred
  BY <1>2, <1>4, <1>5 DEF HeadType, SameChain
<1>7. Parsed(Leased(h))
  BY <1>6, ParsedAgain DEF Active, Terminal
<1>. QED
  BY <1>3, <1>6, <1>7

\* The head a caller holds is the head but for what time did to it.
LEMMA ExactFields ==
  ASSUME NEW g \in HeadType, NEW h \in HeadType,
         [g EXCEPT !.lapsed = FALSE] = [h EXCEPT !.lapsed = FALSE]
  PROVE  /\ SameChain(g, h) /\ g.rev = h.rev /\ g.status = h.status
         /\ g.leased = h.leased /\ g.attempts = h.attempts
         /\ g.deferred = h.deferred /\ g.retryable = h.retryable
<1>. DEFINE p == [g EXCEPT !.lapsed = FALSE]
            q == [h EXCEPT !.lapsed = FALSE]
<1>1. /\ SameChain(p, g) /\ p.rev = g.rev /\ p.status = g.status
      /\ p.leased = g.leased /\ p.attempts = g.attempts
      /\ p.deferred = g.deferred /\ p.retryable = g.retryable
  BY DEF HeadType, SameChain
<1>2. /\ SameChain(q, h) /\ q.rev = h.rev /\ q.status = h.status
      /\ q.leased = h.leased /\ q.attempts = h.attempts
      /\ q.deferred = h.deferred /\ q.retryable = h.retryable
  BY DEF HeadType, SameChain
<1>3. p = q
  OBVIOUS
<1>. HIDE DEF p, q
<1>. QED
  BY <1>1, <1>2, <1>3 DEF SameChain

-----------------------------------------------------------------------------
(* Records: how many the batches hold, and what they hold. *)

LEMMA SourcesCount ==
  IsFiniteSet(Sources) /\ Cardinality(Sources) = 2 /\ Sources \subseteq RecordType
<1>. DEFINE x == Record("source-snapshot", 0, 0, None)
            y == Record("composition-manifest", 0, 0, None)
<1>1. x # y
  BY DEF Record
<1>2. IsFiniteSet({x}) /\ Cardinality({x}) = 1
  BY FS_Singleton
<1>3. IsFiniteSet({x} \cup {y}) /\ Cardinality({x} \cup {y}) = 2
  <2>. HIDE DEF x, y
  <2>. QED
    BY <1>1, <1>2, FS_AddElement
<1>4. Sources = {x} \cup {y}
  BY DEF Sources
<1>5. x \in RecordType /\ y \in RecordType
  BY Limits DEF Record, RecordType, None
<1>. QED
  BY <1>3, <1>4, <1>5

LEMMA OutputsCount ==
  IsFiniteSet(Outputs) /\ Cardinality(Outputs) \in Nat /\ Outputs \subseteq RecordType
<1>. DEFINE x == Record("page-plan", 0, 0, None)
            y == Record("heading-page-map", 0, 0, None)
<1>1. IsFiniteSet({x} \cup {y})
  BY FS_Singleton, FS_AddElement
<1>2. Outputs = {x} \cup {y}
  BY DEF Outputs
<1>3. x \in RecordType /\ y \in RecordType
  BY Limits DEF Record, RecordType, None
<1>. QED
  BY <1>1, <1>2, <1>3, FS_CardinalityType

LEMMA InitialCount ==
  /\ IsFiniteSet(InitialRecords) /\ Cardinality(InitialRecords) \in Nat
  /\ Cardinality(InitialRecords) >= 2 /\ Cardinality(InitialRecords) <= 3
  /\ InitialRecords \subseteq RecordType
<1>. DEFINE x == Record("closed-page-chunk", 0, 0, None)
<1>1. CASE InitialPages
  <2>1. InitialRecords = Sources \cup {x}
    BY <1>1 DEF InitialRecords
  <2>2. x \in RecordType
    BY Limits DEF Record, RecordType, None
  <2>3. /\ IsFiniteSet(Sources \cup {x})
        /\ Cardinality(Sources \cup {x}) = 2 \/ Cardinality(Sources \cup {x}) = 2 + 1
    <3>. HIDE DEF x
    <3>1. CASE x \in Sources
      <4>1. Sources \cup {x} = Sources
        BY <3>1
      <4>. QED
        BY <4>1, SourcesCount
    <3>2. CASE x \notin Sources
      BY <3>2, SourcesCount, FS_AddElement
    <3>. QED
      BY <3>1, <3>2
  <2>. QED
    BY <2>1, <2>2, <2>3, SourcesCount
<1>2. CASE ~InitialPages
  <2>1. InitialRecords = Sources
    BY <1>2 DEF InitialRecords
  <2>. QED
    BY <2>1, SourcesCount
<1>. QED
  BY <1>1, <1>2, Limits

LEMMA TransitionCount ==
  ASSUME NEW h, Parsed(h), h.n < Length
  PROVE  /\ IsFiniteSet(TransitionRecords(h)) /\ Cardinality(TransitionRecords(h)) \in Nat
         /\ TransitionRecords(h) \subseteq RecordType
<1>. DEFINE n == h.n + 1
            w == IF Document[n].window THEN {Record("family-window", n, 0, None)} ELSE {}
            p == IF Document[n].pages THEN {ChunkOf(h)} ELSE {}
<1>1. TransitionRecords(h) = {ReceiptOf(h)} \cup w \cup p
  BY DEF TransitionRecords
<1>2. IsFiniteSet({ReceiptOf(h)}) /\ IsFiniteSet(w) /\ IsFiniteSet(p)
  BY FS_Singleton, FS_EmptySet
<1>3. IsFiniteSet({ReceiptOf(h)} \cup w \cup p)
  <2>. HIDE DEF w, p
  <2>. QED
    BY <1>2, FS_Union
<1>4. /\ n \in 0 .. Length /\ h.rev \in 0 .. MaxRevision /\ 0 \in 0 .. MaxRevision
      /\ h.receiptTip \in None .. MaxRevision /\ h.chunkTip \in None .. MaxRevision
      /\ None \in None .. MaxRevision
  BY HeadFields, Limits DEF Parsed, None
<1>5. \A k \in {"transition-receipt", "closed-page-chunk", "family-window"},
         by \in 0 .. MaxRevision, prev \in None .. MaxRevision :
        Record(k, n, by, prev) \in RecordType
  <2>. HIDE DEF n
  <2>. QED
    BY <1>4 DEF Record, RecordType
<1>6. {ReceiptOf(h)} \subseteq RecordType /\ w \subseteq RecordType /\ p \subseteq RecordType
  BY <1>4, <1>5 DEF ReceiptOf, ChunkOf
<1>. QED
  BY <1>1, <1>3, <1>6, FS_CardinalityType

-----------------------------------------------------------------------------
(* The heads that initialization and commits make. *)

LEMMA NewHeadParsed ==
  /\ Parsed(NewHead) /\ NewHead.n = 0 /\ NewHead.rev = 0 /\ NewHead.status \in Active
  /\ NewHead.leased = FALSE /\ NewHead.lapsed = FALSE /\ NewHead.attempts = 0
<1>1. Cardinality(InitialRecords) \in 0 .. MaxBytes
  BY InitialCount, Limits
<1>2. StatusAfter(0) \in Active /\ 0 \in 0 .. MaxRevision /\ None \in None .. MaxRevision
      /\ 0 \in None .. MaxRevision /\ 0 \in 0 .. Length /\ 0 \in 0 .. MaxAttempts
  BY Limits, StatusFollows DEF None
<1>3. PICK tip \in {None, 0} : /\ tip = IF InitialPages THEN 0 ELSE None
                               /\ tip = None <=> ~InitialPages
  BY DEF None
<1>4. NewHead = [NoHead EXCEPT !.status = StatusAfter(0), !.rev = 0, !.chunkTip = tip,
                               !.retained = Cardinality(InitialRecords)]
  BY <1>3 DEF NewHead
<1>5. /\ NewHead.n = 0 /\ NewHead.rev = 0 /\ NewHead.status = StatusAfter(0)
      /\ NewHead.leased = FALSE /\ NewHead.lapsed = FALSE /\ NewHead.attempts = 0
      /\ NewHead.receiptTip = None /\ NewHead.chunkTip = tip
      /\ NewHead.retained = Cardinality(InitialRecords)
  BY <1>4 DEF NoHead
<1>6. NewHead \in HeadType
  <2>1. 0 \in 0 .. MaxBytes /\ tip \in None .. MaxRevision
    BY <1>2, Limits
  <2>. QED
    BY <1>1, <1>2, <1>4, <2>1 DEF HeadType, NoHead
<1>7. HeadParses(NewHead)
  <2>1. ChainParses(NewHead)
    BY <1>3, <1>5, Limits DEF ChainParses
  <2>2. RetentionParses(NewHead)
    BY <1>5, InitialCount, SourcesCount DEF RetentionParses
  <2>. QED
    BY <1>2, <1>5, <2>1, <2>2 DEF HeadParses, Active, Terminal
<1>. QED
  BY <1>2, <1>5, <1>6, <1>7 DEF Parsed, Active, None

LEMMA AdvancedHead ==
  ASSUME NEW h, Parsed(h), h.status \in Active \ {"ready-to-finalize"},
         Advanced(h).rev <= MaxRevision,
         h.retained + Cardinality(TransitionRecords(h)) <= MaxBytes
  PROVE  /\ Parsed(Advanced(h)) /\ Advanced(h).rev = h.rev + 1 /\ Advanced(h).n = h.n + 1
         /\ Advanced(h).status \in Active /\ Advanced(h).leased = FALSE
         /\ Advanced(h).lapsed = FALSE /\ Advanced(h).attempts = h.attempts
         /\ h.n < Length
<1>1. h \in HeadType /\ h.n < Length /\ h.n \in Nat
  BY HeadFields, StatusFollows, Limits DEF Parsed, HeadParses
<1>2. Cardinality(TransitionRecords(h)) \in Nat
  BY <1>1, TransitionCount
<1>. DEFINE g == Released(h)
<1>3. Advanced(h).rev = Released(h).rev
  BY DEF Advanced, Released, HeadType, Parsed
<1>4. /\ g \in HeadType /\ SameChain(g, h) /\ g.rev = h.rev + 1 /\ g.rev # None
      /\ g.leased = FALSE /\ g.lapsed = FALSE /\ g.attempts = h.attempts
  BY <1>1, <1>3, ReleasedHead
<1>5. PICK n \in 1 .. Length : n = h.n + 1
  BY <1>1, Limits
<1>6. PICK retained \in 0 .. MaxBytes :
        retained = h.retained + Cardinality(TransitionRecords(h)) /\ retained >= h.retained
  BY <1>1, <1>2, HeadFields, Limits
<1>7. PICK tip \in None .. MaxRevision : /\ tip = IF Document[n].pages THEN h.rev ELSE h.chunkTip
                                         /\ tip = None <=> ~Document[n].pages /\ h.chunkTip = None
  BY <1>1, HeadFields DEF Parsed
<1>8. /\ h.rev \in None .. MaxRevision /\ h.rev # None /\ h.retained \in Nat
      /\ n \in 0 .. Length /\ StatusAfter(n) \in Active
  BY <1>1, HeadFields, StatusFollows, Limits DEF Parsed
<1>9. Advanced(h) = [g EXCEPT !.status = StatusAfter(n), !.n = n, !.receiptTip = h.rev,
                              !.chunkTip = tip, !.retained = retained]
  BY <1>4, <1>5, <1>6, <1>7 DEF Advanced, SameChain
<1>. HIDE DEF g
<1>10. /\ Advanced(h) \in HeadType /\ Advanced(h).rev = g.rev /\ Advanced(h).n = n
       /\ Advanced(h).status = StatusAfter(n) /\ Advanced(h).leased = FALSE
       /\ Advanced(h).lapsed = FALSE /\ Advanced(h).attempts = h.attempts
       /\ Advanced(h).receiptTip = h.rev /\ Advanced(h).chunkTip = tip
       /\ Advanced(h).retained = retained
  BY <1>4, <1>8, <1>9 DEF HeadType
<1>11. ChainParses(Advanced(h))
  <2>1. (h.chunkTip = None) <=> ~(InitialPages \/ \E k \in 1 .. h.n : Document[k].pages)
    BY DEF Parsed, HeadParses, ChainParses
  <2>2. \A k : k \in 1 .. n <=> k \in 1 .. h.n \/ k = n
    BY <1>1, <1>5
  <2>3. (tip = None) <=> ~(InitialPages \/ \E k \in 1 .. n : Document[k].pages)
    BY <1>7, <2>1, <2>2
  <2>. QED
    BY <1>10, <2>3 DEF ChainParses
<1>12. RetentionParses(Advanced(h))
  BY <1>6, <1>8, <1>10, SourcesCount DEF Parsed, HeadParses, RetentionParses
<1>13. HeadParses(Advanced(h))
  <2>1. n # 0
    OBVIOUS
  <2>. QED
    BY <1>8, <1>10, <1>11, <1>12, <2>1 DEF HeadParses, Active, Terminal
<1>. QED
  BY <1>1, <1>4, <1>5, <1>8, <1>10, <1>13 DEF Parsed, Active

LEMMA CompletedHead ==
  ASSUME NEW h, Parsed(h), h.status = "ready-to-finalize",
         Completed(h).rev <= MaxRevision, h.retained + Cardinality(Outputs) <= MaxBytes
  PROVE  /\ Parsed(Completed(h)) /\ Completed(h).rev = h.rev + 1 /\ Completed(h).n = h.n
         /\ Completed(h).status = "completed" /\ h.n = Length
<1>1. h \in HeadType /\ h.n = Length
  BY HeadFields, StatusFollows, Limits DEF Parsed, HeadParses, Active
<1>. DEFINE g == Released(h)
<1>2. Completed(h).rev = Released(h).rev
  BY DEF Completed, Released, HeadType, Parsed
<1>3. /\ g \in HeadType /\ SameChain(g, h) /\ g.rev = h.rev + 1 /\ g.rev # None
      /\ g.leased = FALSE
  BY <1>1, <1>2, ReleasedHead
<1>4. PICK retained \in 0 .. MaxBytes :
        retained = h.retained + Cardinality(Outputs) /\ retained >= h.retained
  BY <1>1, OutputsCount, HeadFields, Limits
<1>5. Completed(h) = [g EXCEPT !.status = "completed", !.retained = retained]
  BY <1>3, <1>4 DEF Completed, SameChain
<1>. HIDE DEF g
<1>6. /\ Completed(h) \in HeadType /\ Completed(h).rev = g.rev /\ Completed(h).n = h.n
      /\ Completed(h).status = "completed" /\ Completed(h).leased = FALSE
      /\ Completed(h).receiptTip = h.receiptTip /\ Completed(h).chunkTip = h.chunkTip
      /\ Completed(h).retained = retained
  BY <1>3, <1>5 DEF HeadType, SameChain, Terminal
<1>7. ChainParses(Completed(h))
  BY <1>6 DEF Parsed, HeadParses, ChainParses
<1>8. RetentionParses(Completed(h))
  BY <1>1, <1>4, <1>6, HeadFields, SourcesCount DEF Parsed, HeadParses, RetentionParses
<1>9. HeadParses(Completed(h))
  BY <1>1, <1>6, <1>7, <1>8 DEF Parsed, HeadParses, Active
<1>. QED
  BY <1>1, <1>3, <1>6, <1>9 DEF Parsed

-----------------------------------------------------------------------------
(* How the invariant is put together again after a step. *)

\* Once the head has moved no lease taken before stands.
LEMMA MovedKeeps ==
  ASSUME CompositionSchedulerInv, NEW c \in Callers, job'[c] = job[c], Parsed(head)',
         head # NoHead => head'.rev = head.rev + 1,
         head'.status \notin Terminal => head.status \notin Terminal, store \subseteq store'
  PROVE  JobInv(c)'
<1>1. CASE job[c].pc \notin InLease
  BY <1>1 DEF JobInv, LeaseInv, StagedInv, StandingInv, InLease
<1>2. CASE job[c].pc \in InLease
  <2>1. /\ job[c].head \in HeadType /\ JobInv(c) /\ Parsed(job[c].head)
        /\ Parsed(head) /\ head # NoHead /\ job[c].head.rev <= head.rev
    BY <1>2, JobFields DEF JobInv, LeaseInv
  <2>2. head' \in HeadType /\ head'.rev = head.rev + 1 /\ head' # NoHead
    BY <2>1, NoHeadTyped DEF Parsed
  <2>3. job[c].head.rev < head'.rev /\ job[c].head.rev # head'.rev
    BY <2>1, <2>2, HeadFields DEF Parsed
  <2>4. ~Exact(job[c].head)'
    BY <2>1, <2>2, <2>3, ExactFields DEF Exact
  <2>5. job[c].head.rev <= head'.rev
    BY <2>1, <2>2, <2>3, HeadFields
  <2>6. LeaseInv(c)'
    BY <2>1, <2>2, <2>3, <2>5 DEF JobInv, LeaseInv
  <2>7. StagedInv(c)'
    BY <2>1 DEF JobInv, StagedInv
  <2>. QED
    BY <2>4, <2>6, <2>7 DEF JobInv, StandingInv
<1>. QED
  BY <1>1, <1>2

\* A step that leaves the revision of the head where it is.
LEMMA StillKeeps ==
  ASSUME CompositionSchedulerInv, NEW c \in Callers, job'[c] = job[c],
         job[c].pc \in InLease => (Exact(job[c].head)' <=> Exact(job[c].head)),
         head'.status = head.status, head'.rev = head.rev, head # NoHead => head' # NoHead,
         UNCHANGED <<requests, finals>>, store \subseteq store' \/ head.status \in Terminal,
         mishaps' = 0 => mishaps = 0
  PROVE  JobInv(c)'
<1>1. CASE job[c].pc \notin InLease
  BY <1>1 DEF JobInv, LeaseInv, StagedInv, StandingInv, InLease
<1>2. CASE job[c].pc \in InLease
  <2>1. LeaseInv(c) /\ StagedInv(c) /\ StandingInv(c)
    BY DEF CompositionSchedulerInv, JobInv
  <2>2. LeaseInv(c)'
    BY <1>2, <2>1 DEF LeaseInv
  <2>3. StagedInv(c)'
    BY <2>1 DEF StagedInv
  <2>4. StandingInv(c)'
    BY <1>2, <2>1 DEF StandingInv, Answered, Committed, Finalized
  <2>. QED
    BY <2>2, <2>3, <2>4 DEF JobInv
<1>. QED
  BY <1>1, <1>2

\* A batch that fits is stored, and counted, once.
LEMMA PutKeeps ==
  ASSUME StoreInv, NEW batch, batch \subseteq RecordType, IsFiniteSet(batch), Fits(batch), Put(batch)
  PROVE  StoreInv' /\ store \subseteq store' /\ batch \subseteq store'
<1>1. IsFiniteSet(batch \ store) /\ Cardinality(batch \ store) \in Nat
      /\ Cardinality(store) \in Nat
  BY FS_Difference, FS_CardinalityType DEF StoreInv
<1>2. store \cup batch = store \cup (batch \ store) /\ store \cap (batch \ store) = {}
  OBVIOUS
<1>3. /\ IsFiniteSet(store \cup (batch \ store))
      /\ Cardinality(store \cup (batch \ store)) =
           Cardinality(store) + Cardinality(batch \ store)
             - Cardinality(store \cap (batch \ store))
  BY <1>1, FS_Union DEF StoreInv
<1>4. Cardinality(store \cap (batch \ store)) = 0
  BY <1>2, FS_EmptySet
<1>5. store' = store \cup (batch \ store) /\ store' = store \cup batch
  BY <1>2 DEF Put
<1>6. usage' = usage + Cardinality(batch \ store) /\ usage = Cardinality(store)
  BY DEF Put, StoreInv
<1>7. usage' = Cardinality(store') /\ usage' <= MaxBytes
  <2>1. Cardinality(store') = Cardinality(store) + Cardinality(batch \ store)
    BY <1>1, <1>3, <1>4, <1>5
  <2>. QED
    BY <1>6, <2>1 DEF Fits
<1>8. store' \subseteq RecordType /\ IsFiniteSet(store')
  BY <1>3, <1>5 DEF StoreInv
<1>. QED
  BY <1>5, <1>7, <1>8 DEF StoreInv

LEMMA CallerKeeps ==
  ASSUME CompositionSchedulerInv, NEW c \in Callers, NEW k \in JobType,
         job' = [job EXCEPT ![c] = k],
         UNCHANGED <<head, requests, finals, cleaner, late, refused>>,
         StoreInv', store \subseteq store', mishaps' \in 0 .. MaxMishaps, mishaps' = 0 => mishaps = 0,
         JobInv(c)',
         mishaps' = 0 /\ job[c].pc \in InLease /\ Exact(job[c].head) =>
           k.pc \in InLease /\ k.head = job[c].head
  PROVE  CompositionSchedulerInv'
<1>1. /\ job'[c] = k /\ job' \in [Callers -> JobType]
      /\ \A d \in Callers \ {c} : job'[d] = job[d]
  BY Typed DEF CompositionSchedulerInv
<1>2. \A h : Exact(h)' <=> Exact(h)
  BY DEF Exact
<1>3. \A d \in Callers : JobInv(d)'
  BY <1>1, <1>2, StillKeeps
<1>4. usage' \in 0 .. MaxBytes /\ UsageIsExact'
  BY Limits, FS_CardinalityType DEF StoreInv, UsageIsExact
<1>5. CompositionSchedulerTypeOK'
  BY <1>1, <1>4, Typed DEF CompositionSchedulerInv, CompositionSchedulerTypeOK, StoreInv, JobType,
     HeadParses
<1>6. OneRequestPerTransition'
  BY DEF CompositionSchedulerInv, OneRequestPerTransition
<1>7. AttemptsAdvance'
  BY <1>1, <1>2 DEF CompositionSchedulerInv, AttemptsAdvance
<1>8. Roomy => NoFailureNoRefusal'
  BY Typed, Limits DEF CompositionSchedulerInv, NoFailureNoRefusal
<1>. QED
  BY <1>3, <1>5, <1>6, <1>7, <1>8 DEF CompositionSchedulerInv, Parsed, Roomy

LEMMA HeadKeeps ==
  ASSUME CompositionSchedulerInv, Parsed(head)', head # NoHead => head'.rev = head.rev + 1,
         head'.status \notin Terminal => head.status \notin Terminal,
         UNCHANGED <<store, usage, cleaner, late, refused>>,
         mishaps' \in 0 .. MaxMishaps, mishaps' = 0 => mishaps = 0,
         job' \in [Callers -> JobType], \A c \in Callers : job'[c] = job[c] \/ JobInv(c)',
         requests' \in [Requests -> {None} \cup 1 .. Length], finals' \subseteq Requests,
         OneRequestPerTransition', AttemptsAdvance'
  PROVE  CompositionSchedulerInv'
<1>1. \A c \in Callers : JobInv(c)'
  BY MovedKeeps
<1>2. StoreInv'
  BY DEF CompositionSchedulerInv, StoreInv
<1>3. CompositionSchedulerTypeOK'
  BY Typed DEF CompositionSchedulerInv, CompositionSchedulerTypeOK, JobType, UsageIsExact, Parsed
<1>4. Roomy => NoFailureNoRefusal'
  BY Typed, Limits DEF CompositionSchedulerInv, NoFailureNoRefusal
<1>. QED
  BY <1>1, <1>2, <1>3, <1>4 DEF CompositionSchedulerInv, Roomy

LEMMA EndedHead ==
  ASSUME Parsed(head), NEW status \in {"cancelled", "expired"},
         Ended(status).rev <= MaxRevision
  PROVE  /\ Parsed(Ended(status)) /\ SameChain(Ended(status), head)
         /\ Ended(status).rev = head.rev + 1 /\ Ended(status).status = status
<1>. DEFINE g == Released(head)
<1>1. Ended(status).rev = Released(head).rev
  BY DEF Ended, Released, Revised, HeadType, Parsed
<1>2. /\ g \in HeadType /\ SameChain(g, head) /\ g.rev = head.rev + 1 /\ g.rev # None
      /\ g.leased = FALSE
  BY <1>1, ReleasedHead DEF Parsed
<1>3. Ended(status) = [g EXCEPT !.status = status, !.deferred = FALSE]
  BY DEF Ended
<1>. HIDE DEF g
<1>4. /\ Ended(status) \in HeadType /\ SameChain(Ended(status), head)
      /\ Ended(status).rev = g.rev /\ Ended(status).status = status
      /\ Ended(status).leased = FALSE
  BY <1>2, <1>3 DEF HeadType, SameChain, Terminal
<1>. QED
  BY <1>2, <1>4, ParsedAgain

-----------------------------------------------------------------------------
(* Initialization. *)

LEMMA InitInv == Init => CompositionSchedulerInv
<1>. SUFFICES ASSUME Init PROVE CompositionSchedulerInv
  OBVIOUS
<1>1. \A c \in Callers : job[c] = Idle
  BY DEF Init
<1>2. \A c \in Callers : JobInv(c)
  BY <1>1, IdleTyped DEF JobInv, LeaseInv, StagedInv, StandingInv, InLease
<1>3. StoreInv
  BY Limits, FS_EmptySet DEF Init, StoreInv
<1>4. job \in [Callers -> JobType]
  BY IdleTyped DEF Init
<1>5. CompositionSchedulerTypeOK
  <2>1. head \in HeadType /\ HeadParses(head)
    BY NoHeadTyped DEF Init, HeadParses
  <2>2. store \subseteq RecordType /\ usage \in 0 .. MaxBytes /\ UsageIsExact
    BY <1>3, Limits DEF Init, UsageIsExact, StoreInv
  <2>3. requests \in [Requests -> {None} \cup 1 .. Length] /\ finals \subseteq Requests
    BY DEF Init
  <2>4. cleaner \in [head : HeadType, protect : SUBSET RecordType]
    BY NoHeadTyped DEF Init
  <2>5. late \in BOOLEAN /\ refused \in BOOLEAN
    BY Zenon DEF Init
  <2>6. mishaps \in 0 .. MaxMishaps
    <3>1. mishaps = 0
      BY Zenon DEF Init
    <3>. QED
      BY <3>1, Limits
  <2>. QED
    BY <1>4, <2>1, <2>2, <2>3, <2>4, <2>5, <2>6, Typed
<1>6. OneRequestPerTransition
  <2>1. {r \in Requests : requests[r] # None} = {} /\ {requests[r] : r \in Requests} \ {None} = {}
    BY DEF Init
  <2>2. head.n = 0 /\ head.status # "completed" /\ finals = {}
    BY DEF Init, NoHead
  <2>3. 1 .. 0 = {}
    OBVIOUS
  <2>. QED
    BY <2>1, <2>2, <2>3, FS_EmptySet DEF OneRequestPerTransition
<1>7. AttemptsAdvance
  BY NoHeadTyped DEF Init, AttemptsAdvance, Active
<1>. QED
  BY <1>2, <1>3, <1>5, <1>6, <1>7 DEF CompositionSchedulerInv, NoFailureNoRefusal, Init

LEMMA StageInitialInv ==
  ASSUME CompositionSchedulerInv, NEW c \in Callers, StageInitial(c)
  PROVE  CompositionSchedulerInv'
<1>. DEFINE k == [job[c] EXCEPT !.pc = "create"]
<1>1. StoreInv' /\ store \subseteq store'
  BY InitialCount, PutKeeps DEF StageInitial, CompositionSchedulerInv
<1>2. job[c] \in JobType /\ job[c].pc = "idle"
  BY JobFields DEF StageInitial, At
<1>3. k \in JobType /\ k.pc = "create"
  BY <1>2 DEF JobType
<1>4. job' = [job EXCEPT ![c] = k] /\ job'[c] = k
  BY Typed DEF StageInitial, Go, CompositionSchedulerInv
<1>. HIDE DEF k
<1>5. JobInv(c)'
  BY <1>3, <1>4 DEF JobInv, LeaseInv, StagedInv, StandingInv, InLease
<1>6. UNCHANGED <<head, requests, finals, cleaner, late, refused, mishaps>>
  BY DEF StageInitial, Index, Others
<1>7. mishaps' \in 0 .. MaxMishaps
  BY <1>6, Typed DEF CompositionSchedulerInv
<1>. QED
  BY <1>1, <1>2, <1>3, <1>4, <1>5, <1>6, <1>7, CallerKeeps DEF InLease

\* A caller that ends its call leaves nothing under way.
LEMMA DoneJob ==
  ASSUME CompositionSchedulerInv, NEW c \in Callers, Done(c)
  PROVE  /\ job' = [job EXCEPT ![c] = Idle] /\ job' \in [Callers -> JobType]
         /\ job'[c] = Idle /\ \A d \in Callers \ {c} : job'[d] = job[d]
         /\ JobInv(c)'
<1>1. /\ job' = [job EXCEPT ![c] = Idle] /\ job' \in [Callers -> JobType]
      /\ job'[c] = Idle /\ \A d \in Callers \ {c} : job'[d] = job[d]
  BY IdleTyped, Typed DEF Done, CompositionSchedulerInv
<1>2. JobInv(c)'
  BY <1>1, IdleTyped DEF JobInv, LeaseInv, StagedInv, StandingInv, InLease
<1>. QED
  BY <1>1, <1>2

\* A call that ends with the head as it was.
LEMMA DoneKeeps ==
  ASSUME CompositionSchedulerInv, NEW c \in Callers, Done(c),
         UNCHANGED <<head, store, usage, requests, finals, cleaner, late, refused>>,
         mishaps' \in 0 .. MaxMishaps, mishaps' = 0 => mishaps = 0,
         mishaps' = 0 => job[c].pc \notin InLease \/ ~Exact(job[c].head)
  PROVE  CompositionSchedulerInv'
<1>1. StoreInv' /\ store \subseteq store'
  BY DEF CompositionSchedulerInv, StoreInv
<1>. QED
  BY <1>1, DoneJob, IdleTyped, CallerKeeps

LEMMA NothingRequested ==
  ASSUME OneRequestPerTransition, head = NoHead
  PROVE  OneRequestPerTransition /\ head.n = 0 /\ head.status # "completed"
  BY DEF NoHead

LEMMA CreateHeadInv ==
  ASSUME CompositionSchedulerInv, NEW c \in Callers, CreateHead(c)
  PROVE  CompositionSchedulerInv'
<1>1. /\ job[c].pc = "create" /\ Done(c)
      /\ UNCHANGED <<store, usage, requests, finals, cleaner, late, refused, mishaps>>
  BY DEF CreateHead, Index, Others, At
<1>2. mishaps' \in 0 .. MaxMishaps
  BY <1>1, Typed DEF CompositionSchedulerInv
<1>3. CASE head # NoHead
  <2>1. UNCHANGED head
    BY <1>3 DEF CreateHead
  <2>. QED
    BY <1>1, <1>2, <2>1, DoneKeeps DEF InLease
<1>4. CASE head = NoHead
  <2>1. head' = NewHead
    BY <1>4 DEF CreateHead
  <2>2. /\ Parsed(head)' /\ head'.status \in Active /\ head'.n = 0 /\ head'.leased = FALSE
        /\ head'.lapsed = FALSE /\ head'.attempts = 0
    BY <2>1, NewHeadParsed DEF Parsed, HeadParses, ChainParses, RetentionParses
  <2>3. OneRequestPerTransition'
    BY <1>1, <1>4, <2>2, NothingRequested DEF CompositionSchedulerInv, OneRequestPerTransition, Active
  <2>4. AttemptsAdvance'
    BY <2>2 DEF AttemptsAdvance
  <2>5. head.status \notin Terminal
    BY <1>4, NoHeadTyped DEF Terminal
  <2>6. requests' \in [Requests -> {None} \cup 1 .. Length] /\ finals' \subseteq Requests
    BY <1>1, Typed DEF CompositionSchedulerInv
  <2>7. /\ job' \in [Callers -> JobType] /\ \A d \in Callers : job'[d] = job[d] \/ JobInv(d)'
    BY <1>1, DoneJob
  <2>. QED
    BY <1>1, <1>2, <1>4, <2>2, <2>3, <2>4, <2>5, <2>6, <2>7, HeadKeeps
<1>. QED
  BY <1>3, <1>4

-----------------------------------------------------------------------------
(* The lifecycle operations. *)

\* A move of the head that commits nothing leaves the indexes true.
LEMMA RequestsStand ==
  ASSUME CompositionSchedulerInv, UNCHANGED <<requests, finals>>, head'.n = head.n,
         (head'.status = "completed") = (head.status = "completed")
  PROVE  OneRequestPerTransition' /\ requests' \in [Requests -> {None} \cup 1 .. Length]
         /\ finals' \subseteq Requests
  BY Typed DEF CompositionSchedulerInv, OneRequestPerTransition

LEMMA MovedHeadKeeps ==
  ASSUME CompositionSchedulerInv, Parsed(head), Parsed(head)', head'.rev = head.rev + 1,
         head'.n = head.n, head.status \in Active, head'.status # "completed",
         UNCHANGED <<store, usage, requests, finals, job, cleaner, late, refused>>,
         mishaps' \in 0 .. MaxMishaps, mishaps' = 0 => mishaps = 0,
         head'.status \in Terminal \/ mishaps' # 0
  PROVE  CompositionSchedulerInv'
<1>1. head.status # "completed" /\ head.status \notin Terminal
  BY DEF Active, Terminal
<1>2. OneRequestPerTransition' /\ requests' \in [Requests -> {None} \cup 1 .. Length]
      /\ finals' \subseteq Requests
  BY <1>1, RequestsStand
<1>3. AttemptsAdvance'
  BY DEF AttemptsAdvance, Active, Terminal
<1>4. job' \in [Callers -> JobType]
  BY Typed DEF CompositionSchedulerInv
<1>. QED
  BY <1>1, <1>2, <1>3, <1>4, HeadKeeps

LEMMA ActiveHead ==
  ASSUME CompositionSchedulerInv, head.status \in Active \/ head.leased
  PROVE  Parsed(head) /\ head.status \in Active /\ mishaps \in 0 .. MaxMishaps
<1>1. NoHead.leased = FALSE /\ NoHead.status \notin Active
  BY DEF NoHead, Active
<1>2. Parsed(head)
  BY <1>1 DEF CompositionSchedulerInv
<1>. QED
  BY <1>2, Typed DEF CompositionSchedulerInv, Parsed, HeadType, HeadParses

\* The end of a job that is not its completion.
LEMMA EndedInv ==
  ASSUME CompositionSchedulerInv, Parsed(head), head.status \in Active,
         NEW status \in {"cancelled", "expired"}, Move(Ended(status)), OnlyHead
  PROVE  CompositionSchedulerInv'
<1>1. /\ head' = Ended(status) /\ Ended(status).rev <= MaxRevision
      /\ UNCHANGED <<store, usage, requests, finals, job, cleaner, late, refused, mishaps>>
  BY DEF Move, OnlyHead, Index, Others
<1>2. /\ Parsed(Ended(status)) /\ SameChain(Ended(status), head)
      /\ Ended(status).rev = head.rev + 1 /\ Ended(status).status = status
  BY <1>1, EndedHead
<1>3. Parsed(head)' /\ head'.n = head.n /\ head'.status \in Terminal /\ head'.status # "completed"
  BY <1>1, <1>2 DEF Parsed, HeadParses, ChainParses, RetentionParses, SameChain, Terminal
<1>4. mishaps' \in 0 .. MaxMishaps
  BY <1>1, Typed DEF CompositionSchedulerInv
<1>. QED
  BY <1>1, <1>2, <1>3, <1>4, MovedHeadKeeps

LEMMA RecoverInv ==
  ASSUME CompositionSchedulerInv, RecoverExpiredLease
  PROVE  CompositionSchedulerInv'
<1>1. /\ head.leased /\ head.lapsed /\ OnlyHead
      /\ UNCHANGED <<store, usage, requests, finals, job, cleaner, late, refused, mishaps>>
  BY DEF RecoverExpiredLease, OnlyHead, Index, Others
<1>2. Parsed(head) /\ head.status \in Active /\ mishaps \in 0 .. MaxMishaps
  BY <1>1, ActiveHead
<1>3. CASE late
  <2>1. PICK status \in {"expired"} : Move(Ended(status))
    BY <1>3 DEF RecoverExpiredLease
  <2>. QED
    BY <1>1, <1>2, <2>1, EndedInv
<1>4. CASE ~late
  <2>1. PICK deferred \in BOOLEAN :
          Move([Released(head) EXCEPT !.deferred = deferred, !.retryable = TRUE])
    BY <1>4 DEF RecoverExpiredLease
  <2>. DEFINE g == Released(head)
              h == [g EXCEPT !.deferred = deferred, !.retryable = TRUE]
  <2>2. head' = h /\ h.rev <= MaxRevision
    BY <2>1 DEF Move
  <2>3. h.rev = g.rev
    BY DEF Released, Revised, HeadType, Parsed
  <2>4. /\ g \in HeadType /\ SameChain(g, head) /\ g.rev = head.rev + 1 /\ g.rev # None
        /\ g.leased = FALSE /\ g.status = head.status
    BY <1>2, <2>2, <2>3, ReleasedHead DEF Parsed
  <2>5. /\ h \in HeadType /\ SameChain(h, g) /\ h.rev = g.rev
        /\ h.leased = FALSE /\ h.status = g.status
    <3>. HIDE DEF g
    <3>. QED
      BY <2>4 DEF HeadType, SameChain
  <2>. HIDE DEF h, g
  <2>6. Parsed(h)
    BY <1>2, <2>4, <2>5, ParsedAgain DEF SameChain
  <2>7. mishaps # 0
    BY <1>1, <1>2 DEF CompositionSchedulerInv, AttemptsAdvance
  <2>8. Parsed(head)' /\ head'.n = head.n /\ head'.status # "completed" /\ head'.rev = head.rev + 1
    BY <1>2, <2>2, <2>4, <2>5, <2>6
       DEF Parsed, HeadParses, ChainParses, RetentionParses, SameChain, Active
  <2>. QED
    BY <1>1, <1>2, <2>7, <2>8, MovedHeadKeeps
<1>. QED
  BY <1>3, <1>4

LEMMA MishapCounted ==
  ASSUME CompositionSchedulerInv, Mishap
  PROVE  mishaps' \in 0 .. MaxMishaps /\ mishaps' # 0
  BY Typed, Limits DEF CompositionSchedulerInv, Mishap

LEMMA ScheduleRetryInv ==
  ASSUME CompositionSchedulerInv, ScheduleRetry
  PROVE  CompositionSchedulerInv'
<1>1. /\ head.status \in Active /\ ~head.leased
      /\ UNCHANGED <<store, usage, requests, finals, job, cleaner, late, refused>>
  BY DEF ScheduleRetry, Index
<1>2. Parsed(head) /\ mishaps' \in 0 .. MaxMishaps /\ mishaps' # 0
  BY <1>1, ActiveHead, MishapCounted DEF ScheduleRetry
<1>3. PICK deferred \in BOOLEAN : deferred = TRUE
  OBVIOUS
<1>. DEFINE g == Revised(head)
            h == [g EXCEPT !.deferred = deferred]
<1>4. head' = h /\ h.rev <= MaxRevision
  BY <1>3 DEF Move, ScheduleRetry
<1>5. h.rev = g.rev
  BY DEF Revised, HeadType, Parsed
<1>6. /\ g \in HeadType /\ SameChain(g, head) /\ g.rev = head.rev + 1 /\ g.rev # None
      /\ g.leased = head.leased /\ g.status = head.status
  BY <1>2, <1>4, <1>5, RevisedHead DEF Parsed
<1>7. /\ h \in HeadType /\ SameChain(h, g) /\ h.rev = g.rev
      /\ h.leased = g.leased /\ h.status = g.status
  <2>. HIDE DEF g
  <2>. QED
    BY <1>6 DEF HeadType, SameChain
<1>. HIDE DEF h, g
<1>8. Parsed(h)
  BY <1>1, <1>2, <1>6, <1>7, ParsedAgain DEF SameChain
<1>9. Parsed(head)' /\ head'.n = head.n /\ head'.status # "completed" /\ head'.rev = head.rev + 1
  BY <1>1, <1>4, <1>6, <1>7, <1>8
     DEF Parsed, HeadParses, ChainParses, RetentionParses, SameChain, Active
<1>. QED
  BY <1>1, <1>2, <1>9, MovedHeadKeeps

LEMMA CancelOrExpireInv ==
  ASSUME CompositionSchedulerInv, Cancel \/ Expire
  PROVE  CompositionSchedulerInv'
<1>1. head.status \in Active /\ OnlyHead
  BY DEF Cancel, Expire
<1>2. Parsed(head)
  BY <1>1, ActiveHead
<1>3. PICK status \in {"cancelled", "expired"} : Move(Ended(status))
  BY DEF Cancel, Expire
<1>. QED
  BY <1>1, <1>2, <1>3, EndedInv

-----------------------------------------------------------------------------
(* Time and clean-up. *)

\* A step that changes neither a lease nor what a caller can see of it.
LEMMA StillHeadKeeps ==
  ASSUME CompositionSchedulerInv, head = NoHead \/ Parsed(head)', head = NoHead => head' = head,
         head # NoHead => head' # NoHead,
         UNCHANGED <<requests, finals, job>>, late' \in BOOLEAN, refused' \in BOOLEAN,
         cleaner' \in [head : HeadType, protect : SUBSET RecordType],
         head'.n = head.n, head'.status = head.status, head'.rev = head.rev,
         \A c \in Callers : job[c].pc \in InLease => (Exact(job[c].head)' <=> Exact(job[c].head)),
         StoreInv', store \subseteq store' \/ head.status \in Terminal,
         mishaps' \in 0 .. MaxMishaps, mishaps' = 0 => mishaps = 0,
         AttemptsAdvance', Roomy => NoFailureNoRefusal'
  PROVE  CompositionSchedulerInv'
<1>1. \A c \in Callers : JobInv(c)'
  BY StillKeeps
<1>2. OneRequestPerTransition' /\ requests' \in [Requests -> {None} \cup 1 .. Length]
      /\ finals' \subseteq Requests
  BY RequestsStand
<1>3. usage' \in 0 .. MaxBytes /\ UsageIsExact' /\ store' \subseteq RecordType
  BY Limits, FS_CardinalityType DEF StoreInv, UsageIsExact
<1>4. head' = NoHead \/ Parsed(head)'
  OBVIOUS
<1>5. head' \in HeadType /\ HeadParses(head)'
  BY <1>4, NoHeadTyped DEF Parsed, HeadParses
<1>6. job' \in [Callers -> JobType]
  BY Typed DEF CompositionSchedulerInv
<1>7. CompositionSchedulerTypeOK'
  BY <1>2, <1>3, <1>5, <1>6 DEF CompositionSchedulerTypeOK, JobType
<1>. QED
  BY <1>1, <1>2, <1>4, <1>7 DEF CompositionSchedulerInv, Roomy

\* What an idle instant leaves as it was.
LEMMA StillState ==
  ASSUME CompositionSchedulerInv
  PROVE  /\ late \in BOOLEAN /\ refused \in BOOLEAN /\ mishaps \in 0 .. MaxMishaps
         /\ cleaner \in [head : HeadType, protect : SUBSET RecordType]
         /\ head \in HeadType /\ store \subseteq RecordType /\ StoreInv /\ AttemptsAdvance
         /\ head = NoHead \/ Parsed(head)
         /\ UNCHANGED head => /\ head = NoHead \/ Parsed(head)'
                              /\ \A h : Exact(h)' <=> Exact(h)
         /\ UNCHANGED <<store, usage>> => StoreInv'
<1>1. UNCHANGED head => /\ head = NoHead \/ Parsed(head)'
                        /\ \A h : Exact(h)' <=> Exact(h)
  BY DEF CompositionSchedulerInv, Parsed, HeadParses, ChainParses, RetentionParses, Exact
<1>2. UNCHANGED <<store, usage>> => StoreInv'
  BY DEF CompositionSchedulerInv, StoreInv
<1>. QED
  BY <1>1, <1>2, Typed DEF CompositionSchedulerInv

LEMMA RefuseOverLimitInv ==
  ASSUME CompositionSchedulerInv, NEW r \in Requests, RefuseOverLimit(r)
  PROVE  CompositionSchedulerInv'
<1>1. /\ head.status \in Active /\ ~head.leased /\ OverLimit /\ refused' = TRUE
      /\ UNCHANGED <<head, store, usage, requests, finals, job, cleaner, late, mishaps>>
  BY DEF RefuseOverLimit, Open, Unclaimed, Index
<1>2. ASSUME Roomy, mishaps = 0 PROVE FALSE
  <2>1. head.attempts = head.n + 0
    BY <1>1, <1>2 DEF CompositionSchedulerInv, AttemptsAdvance
  <2>2. Parsed(head)
    BY <1>1, ActiveHead
  <2>3. head.n \in Nat /\ head.n <= Length /\ head.status = StatusAfter(head.n)
    BY <1>1, <2>2, HeadFields DEF Parsed, HeadParses, Active
  <2>4. head.attempts < MaxAttempts
    BY <1>2, <2>1, <2>3, Limits DEF Roomy
  <2>5. head.status # "ready-to-finalize" => head.n < MaxTransitions
    BY <1>2, <2>3, StatusFollows, Limits DEF Roomy
  <2>. QED
    BY <1>1, <2>2, <2>3, <2>4, <2>5, HeadFields, Limits DEF OverLimit, Parsed
<1>3. Roomy => NoFailureNoRefusal'
  BY <1>1, <1>2, StillState DEF NoFailureNoRefusal
<1>4. AttemptsAdvance'
  BY <1>1, StillState DEF AttemptsAdvance, Exact
<1>5. refused' \in BOOLEAN
  BY <1>1
<1>. QED
  BY <1>1, <1>3, <1>4, <1>5, StillState, StillHeadKeeps

LEMMA LifetimeEndsInv ==
  ASSUME CompositionSchedulerInv, LifetimeEnds
  PROVE  CompositionSchedulerInv'
<1>1. /\ late' = TRUE
      /\ UNCHANGED <<head, store, usage, requests, finals, job, cleaner, refused, mishaps>>
  BY DEF LifetimeEnds, Index
<1>2. AttemptsAdvance'
  BY <1>1, StillState DEF AttemptsAdvance, Exact
<1>3. Roomy => NoFailureNoRefusal'
  BY <1>1 DEF CompositionSchedulerInv, NoFailureNoRefusal
<1>4. late' \in BOOLEAN
  BY <1>1
<1>. QED
  BY <1>1, <1>2, <1>3, <1>4, StillState, StillHeadKeeps

\* What time does to the head of a job.
LEMMA LapseInv ==
  ASSUME CompositionSchedulerInv, Lapse
  PROVE  CompositionSchedulerInv'
<1>1. /\ head.leased /\ ~head.lapsed /\ head' = [head EXCEPT !.lapsed = TRUE]
      /\ UNCHANGED <<store, usage, requests, finals, job, cleaner, late, refused>>
  BY DEF Lapse, Index
<1>2. Parsed(head) /\ head.status \in Active /\ head # NoHead
  BY <1>1, ActiveHead, NoHeadTyped DEF Active
<1>3. PICK lapsed \in BOOLEAN : head' = [head EXCEPT !.lapsed = lapsed]
  BY <1>1
<1>4. /\ head' \in HeadType /\ head'.n = head.n /\ head'.status = head.status
      /\ head'.rev = head.rev /\ head'.leased = head.leased /\ SameChain(head', head)
  BY <1>2, <1>3 DEF HeadType, SameChain, Parsed
<1>5. Parsed(head')
  BY <1>2, <1>4, ParsedAgain DEF Parsed, Active, Terminal
<1>6. Parsed(head)' /\ head' # NoHead
  BY <1>2, <1>4, <1>5, NoHeadTyped DEF Parsed, HeadParses, ChainParses, RetentionParses
<1>7. [head' EXCEPT !.lapsed = FALSE] = [head EXCEPT !.lapsed = FALSE]
  BY <1>2, <1>3 DEF Parsed, HeadType
<1>8. \A h : Exact(h)' <=> Exact(h)
  BY <1>7 DEF Exact
<1>9. mishaps' \in 0 .. MaxMishaps /\ (mishaps' = 0 => mishaps = 0)
  BY StillState, MishapCounted DEF Lapse
<1>10. mishaps' # 0
  <2>. SUFFICES ASSUME mishaps' = 0 PROVE FALSE
    OBVIOUS
  <2>1. ~Held
    BY MishapCounted DEF Lapse
  <2>2. mishaps = 0
    BY <1>9
  <2>3. \E c \in Callers : job[c].pc \in InLease /\ Exact(job[c].head)
    BY <1>1, <1>2, <2>2 DEF CompositionSchedulerInv, AttemptsAdvance
  <2>. QED
    BY <2>1, <2>3 DEF Held, At, InLease
<1>11. AttemptsAdvance'
  BY <1>10 DEF AttemptsAdvance
<1>12. Roomy => NoFailureNoRefusal'
  BY <1>9, <1>10, Limits DEF NoFailureNoRefusal
<1>. QED
  BY <1>1, <1>2, <1>4, <1>6, <1>8, <1>9, <1>11, <1>12, StillState, StillHeadKeeps

LEMMA RetryDueInv ==
  ASSUME CompositionSchedulerInv, RetryDue
  PROVE  CompositionSchedulerInv'
<1>1. /\ head.deferred /\ head' = [head EXCEPT !.deferred = FALSE]
      /\ UNCHANGED <<store, usage, requests, finals, job, cleaner, late, refused, mishaps>>
  BY DEF RetryDue, OnlyHead, Index, Others
<1>2. Parsed(head) /\ head # NoHead
  BY <1>1, NoHeadTyped DEF CompositionSchedulerInv, NoHead, Parsed
<1>3. PICK deferred \in BOOLEAN : deferred = FALSE /\ head' = [head EXCEPT !.deferred = deferred]
  BY <1>1
<1>4. /\ head' \in HeadType /\ head'.n = head.n /\ head'.status = head.status
      /\ head'.rev = head.rev /\ head'.leased = head.leased /\ SameChain(head', head)
      /\ head'.attempts = head.attempts /\ head'.lapsed = head.lapsed
  BY <1>2, <1>3 DEF HeadType, SameChain, Parsed
<1>5. Parsed(head')
  BY <1>2, <1>4, ParsedAgain DEF Parsed, HeadParses, Terminal
<1>6. Parsed(head)' /\ head' # NoHead
  BY <1>2, <1>4, <1>5, NoHeadTyped DEF Parsed, HeadParses, ChainParses, RetentionParses
<1>7. \A c \in Callers : job[c].pc \in InLease => ~Exact(job[c].head) /\ ~Exact(job[c].head)'
  <2>. SUFFICES ASSUME NEW c \in Callers, job[c].pc \in InLease
                PROVE  ~Exact(job[c].head) /\ ~Exact(job[c].head)'
    OBVIOUS
  <2>1. job[c].head \in HeadType /\ LeaseInv(c)
    BY JobFields DEF JobInv
  <2>2. ~Exact(job[c].head)
    BY <1>1, <1>2, <2>1, ExactFields DEF LeaseInv, Exact, Parsed
  <2>3. job[c].head.rev # head.rev
    BY <2>1, <2>2 DEF LeaseInv
  <2>4. ~Exact(job[c].head)'
    BY <1>1, <1>4, <2>1, <2>3, ExactFields DEF Exact
  <2>. QED
    BY <2>2, <2>4
<1>8. AttemptsAdvance'
  <2>. SUFFICES ASSUME mishaps = 0, head.status \in Active
                PROVE  /\ head'.attempts = head'.n + (IF head'.leased THEN 1 ELSE 0)
                       /\ ~head'.lapsed /\ ~head'.leased
    BY <1>1, <1>4 DEF AttemptsAdvance
  <2>. QED
    BY <1>4, <1>7 DEF CompositionSchedulerInv, AttemptsAdvance
<1>9. Roomy => NoFailureNoRefusal'
  BY <1>1 DEF CompositionSchedulerInv, NoFailureNoRefusal
<1>. QED
  BY <1>1, <1>2, <1>4, <1>6, <1>7, <1>8, <1>9, StillState, StillHeadKeeps

\* A walk along a chain finds records that are stored.
LEMMA ChainStored == ASSUME NEW h PROVE ChainRecords(h) \subseteq store
  BY DEF ChainRecords, Receipts, Chunks, Windows, ChainOf

LEMMA PrepareCleanupInv ==
  ASSUME CompositionSchedulerInv, PrepareCleanup
  PROVE  CompositionSchedulerInv'
<1>. DEFINE final == IF head.status = "completed" THEN Outputs ELSE {}
            kept == ChainRecords(head) \cup (store \cap InitialRecords)
<1>1. UNCHANGED <<head, store, usage, requests, finals, job, late, refused, mishaps>>
  BY DEF PrepareCleanup, Index
<1>2. cleaner' = [head |-> head, protect |-> kept \cup final]
  BY DEF PrepareCleanup
<1>3. kept \subseteq RecordType /\ final \subseteq RecordType
  BY ChainStored, OutputsCount, StillState
<1>4. cleaner' \in [head : HeadType, protect : SUBSET RecordType]
  <2>. HIDE DEF kept, final
  <2>. QED
    BY <1>2, <1>3, StillState
<1>5. AttemptsAdvance'
  BY <1>1, StillState DEF AttemptsAdvance, Exact
<1>6. Roomy => NoFailureNoRefusal'
  BY <1>1 DEF CompositionSchedulerInv, NoFailureNoRefusal
<1>. QED
  BY <1>1, <1>4, <1>5, <1>6, StillState, StillHeadKeeps

LEMMA CleanupUnreachableInv ==
  ASSUME CompositionSchedulerInv, CleanupUnreachable
  PROVE  CompositionSchedulerInv'
<1>1. /\ head.status \in Terminal
      /\ UNCHANGED <<head, requests, finals, job, cleaner, late, refused, mishaps>>
  BY DEF CleanupUnreachable, Index, Others
<1>2. PICK garbage \in SUBSET (store \ cleaner.protect) :
        store' = store \ garbage /\ usage' = usage - Cardinality(garbage)
  BY DEF CleanupUnreachable
<1>3. StoreInv
  BY StillState
<1>4. /\ IsFiniteSet(garbage) /\ IsFiniteSet(store \ garbage)
      /\ Cardinality(garbage) \in Nat /\ Cardinality(store \ garbage) \in Nat
      /\ Cardinality(store) \in Nat
  BY <1>3, FS_Subset, FS_CardinalityType DEF StoreInv
<1>5. Cardinality(store \ garbage) = Cardinality(store) - Cardinality(store \cap garbage)
  BY <1>3, FS_Difference DEF StoreInv
<1>6. store \cap garbage = garbage
  OBVIOUS
<1>7. usage' = Cardinality(store') /\ usage' <= MaxBytes
  <2>1. Cardinality(store \ garbage) = usage - Cardinality(garbage) /\ usage \in Nat
    BY <1>3, <1>4, <1>5, <1>6 DEF StoreInv
  <2>2. usage' = usage - Cardinality(garbage) /\ store' = store \ garbage
    BY <1>2
  <2>3. usage' <= usage /\ usage <= MaxBytes
    BY <1>3, <1>4, <2>1, <2>2 DEF StoreInv
  <2>. QED
    BY <2>1, <2>2, <2>3, Limits
<1>8. StoreInv'
  BY <1>2, <1>3, <1>4, <1>7 DEF StoreInv
<1>9. AttemptsAdvance'
  BY <1>1, StillState DEF AttemptsAdvance, Exact
<1>10. Roomy => NoFailureNoRefusal'
  BY <1>1 DEF CompositionSchedulerInv, NoFailureNoRefusal
<1>. QED
  BY <1>1, <1>8, <1>9, <1>10, StillState, StillHeadKeeps

-----------------------------------------------------------------------------
(* A caller and its lease. *)

LEMMA AcquireInv ==
  ASSUME CompositionSchedulerInv, NEW c \in Callers, NEW r \in Requests, Acquire(c, r)
  PROVE  CompositionSchedulerInv'
<1>. DEFINE g == Leased(head)
            k == [Idle EXCEPT !.pc = "leased", !.r = r, !.head = g]
<1>1. /\ head.status \in Active /\ ~head.leased /\ ~head.deferred
      /\ ~Answered(r, head) /\ ~OverLimit
      /\ head' = g /\ g.rev <= MaxRevision /\ job' = [job EXCEPT ![c] = k]
      /\ UNCHANGED <<store, usage, requests, finals, cleaner, late, refused, mishaps>>
  BY DEF Acquire, Open, Unclaimed, Move, Index, Others
<1>2. Parsed(head)
  BY <1>1, ActiveHead
<1>3. head.attempts < MaxAttempts
  BY <1>1, <1>2, HeadFields, Limits DEF OverLimit, Parsed
<1>4. /\ Parsed(g) /\ SameChain(g, head) /\ g.rev = head.rev + 1 /\ g.status = head.status
      /\ g.leased = TRUE /\ g.lapsed = FALSE
      /\ g.attempts = head.attempts + 1 /\ g.deferred = head.deferred
  BY <1>1, <1>2, <1>3, LeasedHead
<1>. HIDE DEF g
<1>5. k \in JobType /\ k.pc = "leased" /\ k.r = r /\ k.head = g
  BY <1>4, IdleTyped DEF Idle, JobType, Parsed
<1>. HIDE DEF k
<1>6. /\ job'[c] = k /\ job' \in [Callers -> JobType]
      /\ \A d \in Callers \ {c} : job'[d] = job[d]
  BY <1>1, <1>5, Typed DEF CompositionSchedulerInv
<1>7. Parsed(head)' /\ head' # NoHead
  BY <1>1, <1>4, NoHeadTyped DEF Parsed, HeadParses, ChainParses, RetentionParses
<1>8. Exact(job[c].head)'
  BY <1>1, <1>5, <1>6 DEF Exact
<1>9. LeaseInv(c)'
  <2>1. job[c]'.pc \in InLease /\ job[c]'.head = g /\ job[c]'.r = r
    BY <1>5, <1>6 DEF InLease
  <2>2. Parsed(job[c].head)'
    BY <1>1, <1>7, <2>1 DEF Parsed, HeadParses, ChainParses, RetentionParses
  <2>3. g.rev <= head'.rev
    BY <1>1, <1>4, HeadFields DEF Parsed
  <2>. QED
    BY <1>1, <1>4, <1>6, <1>7, <1>8, <2>1, <2>2, <2>3 DEF LeaseInv
<1>10. StagedInv(c)'
  BY <1>5, <1>6 DEF StagedInv
<1>11. StandingInv(c)'
  BY <1>1, <1>4, <1>5, <1>6 DEF StandingInv, Answered, Committed, Finalized
<1>12. head.status \notin Terminal /\ head.status # "completed"
  BY <1>1 DEF Active, Terminal
<1>13. OneRequestPerTransition' /\ requests' \in [Requests -> {None} \cup 1 .. Length]
       /\ finals' \subseteq Requests
  BY <1>1, <1>4, <1>12, RequestsStand DEF SameChain
<1>14. AttemptsAdvance'
  <2>. SUFFICES ASSUME mishaps = 0
                PROVE  head'.attempts = head'.n + 1 /\ ~head'.lapsed /\ head'.leased
    BY <1>1, <1>4, <1>5, <1>6, <1>8 DEF AttemptsAdvance, InLease
  <2>1. head.attempts = head.n + 0
    BY <1>1 DEF CompositionSchedulerInv, AttemptsAdvance
  <2>. QED
    BY <1>1, <1>2, <1>4, <2>1, HeadFields DEF SameChain, Parsed
<1>15. mishaps' \in 0 .. MaxMishaps
  BY <1>1, StillState
<1>. QED
  BY <1>1, <1>4, <1>6, <1>7, <1>9, <1>10, <1>11, <1>12, <1>13, <1>14, <1>15, HeadKeeps DEF JobInv

\* A caller of which the lease stands or not, as before, and that only steps on.
LEMMA SteppedLease ==
  ASSUME CompositionSchedulerInv, NEW c \in Callers, NEW k \in JobType,
         job[c].pc \in InLease, job' = [job EXCEPT ![c] = k], k.pc \in InLease,
         k.head = job[c].head, k.r = job[c].r, UNCHANGED head
  PROVE  LeaseInv(c)' /\ job'[c] = k /\ (Exact(job[c].head)' <=> Exact(job[c].head))
<1>1. job'[c] = k
  BY Typed DEF CompositionSchedulerInv
<1>2. Exact(job[c].head)' <=> Exact(job[c].head)
  BY <1>1 DEF Exact
<1>3. LeaseInv(c)
  BY JobFields DEF JobInv
<1>4. Parsed(job[c].head) => Parsed(job[c].head)'
  BY <1>1 DEF Parsed, HeadParses, ChainParses, RetentionParses
<1>5. LeaseInv(c)'
  BY <1>1, <1>2, <1>3, <1>4 DEF LeaseInv
<1>. QED
  BY <1>1, <1>2, <1>5

LEMMA AbandonKeeps ==
  ASSUME CompositionSchedulerInv, NEW c \in Callers, NEW terminal \in BOOLEAN,
         job[c].pc = "leased", Abandon(c, terminal),
         UNCHANGED <<head, requests, finals, cleaner, late, refused>>,
         mishaps' \in 0 .. MaxMishaps, mishaps' = 0 => mishaps = 0 /\ terminal
  PROVE  CompositionSchedulerInv'
<1>. DEFINE k == [job[c] EXCEPT !.pc = "clear", !.terminal = terminal]
<1>1. job[c] \in JobType /\ job[c].pc \in InLease
  BY JobFields DEF InLease
<1>2. /\ k \in JobType /\ k.pc = "clear" /\ k.terminal = terminal
      /\ k.head = job[c].head /\ k.r = job[c].r
  BY <1>1 DEF JobType
<1>3. job' = [job EXCEPT ![c] = k] /\ UNCHANGED <<store, usage>>
  BY Typed DEF Abandon, CompositionSchedulerInv
<1>. HIDE DEF k
<1>4. LeaseInv(c)' /\ job'[c] = k
  BY <1>1, <1>2, <1>3, SteppedLease DEF InLease
<1>5. StagedInv(c)' /\ StandingInv(c)'
  BY <1>2, <1>4 DEF StagedInv, StandingInv
<1>6. StoreInv' /\ store \subseteq store'
  BY <1>3, StillState
<1>. QED
  BY <1>2, <1>3, <1>4, <1>5, <1>6, CallerKeeps DEF JobInv, InLease

LEMMA BatchCount ==
  ASSUME NEW h, Parsed(h), h.leased
  PROVE  IsFiniteSet(Batch(h)) /\ Cardinality(Batch(h)) \in Nat /\ Batch(h) \subseteq RecordType
<1>1. h.status \in Active /\ h.n \in 0 .. Length
  BY HeadFields DEF Parsed, HeadType, HeadParses
<1>2. h.status # "ready-to-finalize" => h.n < Length
  BY <1>1, StatusFollows, Limits DEF Parsed, HeadParses
<1>. QED
  BY <1>2, OutputsCount, TransitionCount DEF Batch

LEMMA StageOrAbandonKeeps ==
  ASSUME CompositionSchedulerInv, NEW c \in Callers, job[c].pc = "leased",
         StageOrAbandon(c, Batch(job[c].head)),
         UNCHANGED <<head, requests, finals, cleaner, late, refused, mishaps>>
  PROVE  CompositionSchedulerInv'
<1>. DEFINE h == job[c].head
            k == [job[c] EXCEPT !.pc = "commit"]
<1>1. mishaps' \in 0 .. MaxMishaps
  BY StillState
<1>2. CASE ~(Retainable(h, Batch(h)) /\ Fits(Batch(h)))
  <2>1. PICK terminal \in BOOLEAN : terminal = TRUE
    OBVIOUS
  <2>2. Abandon(c, terminal)
    BY <1>2, <2>1 DEF StageOrAbandon
  <2>. QED
    BY <1>1, <2>1, <2>2, AbandonKeeps
<1>3. CASE Retainable(h, Batch(h)) /\ Fits(Batch(h))
  <2>1. Put(Batch(h)) /\ Go(c, "commit")
    BY <1>3 DEF StageOrAbandon, Stage
  <2>2. /\ job[c] \in JobType /\ job[c].pc \in InLease /\ Parsed(h) /\ h.leased
        /\ JobInv(c)
    BY JobFields DEF InLease
  <2>3. StoreInv' /\ store \subseteq store' /\ Batch(h) \subseteq store'
    BY <1>3, <2>1, <2>2, StillState, BatchCount, PutKeeps
  <2>4. k \in JobType /\ k.pc = "commit" /\ k.head = h /\ k.r = job[c].r
    BY <2>2 DEF JobType
  <2>5. job' = [job EXCEPT ![c] = k]
    BY <2>1, Typed DEF Go, CompositionSchedulerInv
  <2>. HIDE DEF k
  <2>6. LeaseInv(c)' /\ job'[c] = k /\ (Exact(job[c].head)' <=> Exact(job[c].head))
    BY <2>2, <2>4, <2>5, SteppedLease DEF InLease
  <2>7. Batch(job[c].head)' = Batch(h)
    BY <2>4, <2>6 DEF Batch
  <2>8. StagedInv(c)'
    BY <1>3, <2>3, <2>4, <2>6, <2>7 DEF StagedInv, Retainable
  <2>9. StandingInv(c)'
    BY <2>2, <2>4, <2>6 DEF JobInv, StandingInv, Answered, Committed, Finalized
  <2>. QED
    BY <1>1, <2>3, <2>4, <2>5, <2>6, <2>8, <2>9, CallerKeeps DEF JobInv, InLease
<1>. QED
  BY <1>2, <1>3

LEMMA AdvanceCoreInv ==
  ASSUME CompositionSchedulerInv, NEW c \in Callers, AdvanceCore(c)
  PROVE  CompositionSchedulerInv'
<1>1. /\ job[c].pc = "leased" /\ job[c].head.status # "ready-to-finalize"
      /\ UNCHANGED <<head, requests, finals, cleaner, late, refused>>
  BY DEF AdvanceCore, At, Index
<1>2. CASE StageOrAbandon(c, TransitionRecords(job[c].head)) /\ UNCHANGED mishaps
  BY <1>1, <1>2, StageOrAbandonKeeps DEF Batch
<1>3. ASSUME Mishap, NEW terminal \in BOOLEAN, Abandon(c, terminal)
      PROVE  CompositionSchedulerInv'
  BY <1>1, <1>3, MishapCounted, AbandonKeeps
<1>. QED
  BY <1>2, <1>3 DEF AdvanceCore

LEMMA FinalizeCoreInv ==
  ASSUME CompositionSchedulerInv, NEW c \in Callers, FinalizeCore(c)
  PROVE  CompositionSchedulerInv'
<1>1. /\ job[c].pc = "leased" /\ job[c].head.status = "ready-to-finalize"
      /\ UNCHANGED <<head, requests, finals, cleaner, late, refused>>
  BY DEF FinalizeCore, At, Index
<1>2. CASE StageOrAbandon(c, Outputs) /\ UNCHANGED mishaps
  BY <1>1, <1>2, StageOrAbandonKeeps DEF Batch
<1>3. ASSUME NEW terminal \in BOOLEAN, terminal = TRUE, Abandon(c, terminal), UNCHANGED mishaps
      PROVE  CompositionSchedulerInv'
  BY <1>1, <1>3, StillState, AbandonKeeps
<1>4. ASSUME Mishap, NEW terminal \in BOOLEAN, Abandon(c, terminal)
      PROVE  CompositionSchedulerInv'
  BY <1>1, <1>4, MishapCounted, AbandonKeeps
<1>5. PICK terminal \in BOOLEAN : terminal = TRUE
  OBVIOUS
<1>6. \/ StageOrAbandon(c, Outputs) /\ UNCHANGED mishaps
      \/ Abandon(c, terminal) /\ UNCHANGED mishaps
      \/ Mishap /\ \E t \in BOOLEAN : Abandon(c, t)
  BY <1>5 DEF FinalizeCore
<1>. QED
  BY <1>2, <1>3, <1>4, <1>5, <1>6

LEMMA GiveUpInv ==
  ASSUME CompositionSchedulerInv, NEW c \in Callers, GiveUp(c)
  PROVE  CompositionSchedulerInv'
<1>1. /\ Done(c) /\ Mishap
      /\ UNCHANGED <<head, store, usage, requests, finals, cleaner, late, refused>>
  BY DEF GiveUp, Index
<1>. QED
  BY <1>1, MishapCounted, DoneKeeps

-----------------------------------------------------------------------------
(* Commits, and leases given back. *)

\* The head a caller moves is the one it leased.
LEMMA ExactLease ==
  ASSUME CompositionSchedulerInv, NEW c \in Callers, job[c].pc \in InLease, Exact(job[c].head)
  PROVE  /\ Parsed(head) /\ Parsed(job[c].head) /\ head # NoHead
         /\ SameChain(head, job[c].head) /\ head.rev = job[c].head.rev
         /\ head.status = job[c].head.status /\ head.leased
         /\ head.attempts = job[c].head.attempts /\ job[c].r \in Requests
         /\ head.status \in Active /\ head.status \notin Terminal
         /\ LeaseInv(c) /\ StagedInv(c) /\ StandingInv(c)
<1>1. /\ job[c].head \in HeadType /\ JobInv(c) /\ Parsed(job[c].head) /\ job[c].head.leased
      /\ job[c].r \in Requests /\ job[c].head.status \in Active /\ Parsed(head)
  BY JobFields
<1>2. head # NoHead
  BY <1>1 DEF JobInv, LeaseInv
<1>3. /\ SameChain(head, job[c].head) /\ head.rev = job[c].head.rev
      /\ head.status = job[c].head.status /\ head.leased = job[c].head.leased
      /\ head.attempts = job[c].head.attempts
  BY <1>1, ExactFields DEF Exact, Parsed
<1>. QED
  BY <1>1, <1>2, <1>3 DEF JobInv, Active, Terminal

\* The index of the request of a transition: one more id, for one more transition.
LEMMA OneMoreRequest ==
  ASSUME CompositionSchedulerInv, Parsed(head), NEW r \in Requests, requests[r] = None,
         NEW n \in 1 .. Length, n = head.n + 1, requests' = [requests EXCEPT ![r] = n],
         UNCHANGED finals, head'.n = n, head.status # "completed", head'.status # "completed"
  PROVE  /\ OneRequestPerTransition' /\ finals' \subseteq Requests
         /\ requests' \in [Requests -> {None} \cup 1 .. Length]
<1>1. /\ requests \in [Requests -> {None} \cup 1 .. Length] /\ finals \subseteq Requests
      /\ OneRequestPerTransition /\ head.n \in Nat
  BY Typed, HeadFields DEF CompositionSchedulerInv, Parsed
<1>2. /\ requests' \in [Requests -> {None} \cup 1 .. Length]
      /\ \A q \in Requests : requests'[q] = IF q = r THEN n ELSE requests[q]
  BY <1>1
<1>3. n # None
  BY DEF None
<1>. DEFINE S == {q \in Requests : requests[q] # None}
            T == {requests[q] : q \in Requests} \ {None}
<1>4. {q \in Requests : requests'[q] # None} = S \cup {r} /\ r \notin S
  BY <1>2, <1>3
<1>5. {requests'[q] : q \in Requests} \ {None} = T \cup {n}
  BY <1>2, <1>3
<1>6. IsFiniteSet(S) /\ Cardinality(S) = head.n
  BY <1>1, FS_Subset, CompositionSchedulerAssumption DEF OneRequestPerTransition
<1>7. Cardinality(S \cup {r}) = head.n + 1
  <2>. HIDE DEF S
  <2>. QED
    BY <1>4, <1>6, FS_AddElement
<1>8. T \cup {n} = 1 .. n
  <2>1. T = 1 .. head.n
    BY <1>1 DEF OneRequestPerTransition
  <2>. QED
    BY <1>1, <2>1
<1>9. Cardinality(finals) = 0
  BY <1>1 DEF OneRequestPerTransition
<1>10. OneRequestPerTransition'
  BY <1>4, <1>5, <1>7, <1>8, <1>9 DEF OneRequestPerTransition
<1>. QED
  BY <1>1, <1>2, <1>10

LEMMA OneFinal ==
  ASSUME CompositionSchedulerInv, Parsed(head), NEW r \in Requests, finals' = finals \cup {r},
         UNCHANGED requests, head'.n = head.n, head.status # "completed",
         head'.status = "completed"
  PROVE  /\ OneRequestPerTransition' /\ finals' \subseteq Requests
         /\ requests' \in [Requests -> {None} \cup 1 .. Length]
<1>1. /\ requests \in [Requests -> {None} \cup 1 .. Length] /\ finals \subseteq Requests
      /\ OneRequestPerTransition
  BY Typed DEF CompositionSchedulerInv
<1>2. IsFiniteSet(finals) /\ Cardinality(finals) = 0
  BY <1>1, FS_Subset, CompositionSchedulerAssumption DEF OneRequestPerTransition
<1>3. finals = {}
  BY <1>2, FS_EmptySet
<1>4. Cardinality(finals') = 1
  BY <1>3, FS_Singleton
<1>. QED
  BY <1>1, <1>4 DEF OneRequestPerTransition

LEMMA CommitTransitionInv ==
  ASSUME CompositionSchedulerInv, NEW c \in Callers, job[c].pc = "commit", Exact(job[c].head),
         job[c].head.status # "ready-to-finalize", CommitTransition(job[c].r, job[c].head),
         Done(c), UNCHANGED <<store, usage, cleaner, late, refused, mishaps>>
  PROVE  CompositionSchedulerInv'
<1>. DEFINE h == job[c].head
<1>1. /\ Parsed(head) /\ Parsed(h) /\ SameChain(head, h) /\ head.rev = h.rev
      /\ head.status = h.status /\ head.leased /\ head.attempts = h.attempts
      /\ job[c].r \in Requests /\ head.status \in Active /\ head.status \notin Terminal
      /\ LeaseInv(c) /\ StagedInv(c) /\ StandingInv(c)
  BY ExactLease DEF InLease
<1>2. /\ head' = Advanced(h) /\ Advanced(h).rev <= MaxRevision
      /\ requests' = [requests EXCEPT ![job[c].r] = h.n + 1] /\ UNCHANGED finals
  BY DEF CommitTransition, Move
<1>3. h.retained + Cardinality(TransitionRecords(h)) <= MaxBytes
  BY <1>1 DEF StagedInv, Batch
<1>4. /\ Parsed(Advanced(h)) /\ Advanced(h).rev = h.rev + 1 /\ Advanced(h).n = h.n + 1
      /\ Advanced(h).status \in Active /\ Advanced(h).leased = FALSE
      /\ Advanced(h).lapsed = FALSE /\ Advanced(h).attempts = h.attempts
      /\ h.n < Length
  BY <1>1, <1>2, <1>3, AdvancedHead
<1>5. Parsed(head)'
  BY <1>2, <1>4 DEF Parsed, HeadParses, ChainParses, RetentionParses
<1>6. requests[job[c].r] = None
  BY <1>1 DEF StandingInv, Answered, Committed
<1>7. PICK n \in 1 .. Length : n = h.n + 1
  BY <1>1, <1>4, HeadFields, Limits DEF Parsed
<1>8. head.n = h.n /\ head.status # "completed" /\ Advanced(h).status # "completed"
  BY <1>1, <1>4 DEF SameChain, Active
<1>9. /\ OneRequestPerTransition' /\ finals' \subseteq Requests
      /\ requests' \in [Requests -> {None} \cup 1 .. Length]
  BY <1>1, <1>2, <1>4, <1>6, <1>7, <1>8, OneMoreRequest
<1>10. AttemptsAdvance'
  <2>. SUFFICES ASSUME mishaps = 0 PROVE head'.attempts = head'.n + 0
    BY <1>2, <1>4 DEF AttemptsAdvance
  <2>1. head.attempts = head.n + 1
    BY <1>1 DEF CompositionSchedulerInv, AttemptsAdvance
  <2>. QED
    BY <1>1, <1>2, <1>4, <1>8, <2>1, HeadFields DEF Parsed
<1>11. /\ job' \in [Callers -> JobType] /\ \A d \in Callers : job'[d] = job[d] \/ JobInv(d)'
  BY DoneJob
<1>12. mishaps' \in 0 .. MaxMishaps
  BY StillState
<1>. QED
  BY <1>1, <1>2, <1>4, <1>5, <1>9, <1>10, <1>11, <1>12, HeadKeeps

LEMMA CommitFinalizationInv ==
  ASSUME CompositionSchedulerInv, NEW c \in Callers, job[c].pc = "commit", Exact(job[c].head),
         job[c].head.status = "ready-to-finalize", CommitFinalization(job[c].r, job[c].head),
         Done(c), UNCHANGED <<store, usage, cleaner, late, refused, mishaps>>
  PROVE  CompositionSchedulerInv'
<1>. DEFINE h == job[c].head
<1>1. /\ Parsed(head) /\ Parsed(h) /\ SameChain(head, h) /\ head.rev = h.rev
      /\ head.status = h.status /\ job[c].r \in Requests /\ head.status \notin Terminal
      /\ StagedInv(c)
  BY ExactLease DEF InLease
<1>2. /\ head' = Completed(h) /\ Completed(h).rev <= MaxRevision
      /\ finals' = finals \cup {job[c].r} /\ UNCHANGED requests
  BY DEF CommitFinalization, Move
<1>3. h.retained + Cardinality(Outputs) <= MaxBytes
  BY <1>1 DEF StagedInv, Batch
<1>4. /\ Parsed(Completed(h)) /\ Completed(h).rev = h.rev + 1 /\ Completed(h).n = h.n
      /\ Completed(h).status = "completed"
  BY <1>1, <1>2, <1>3, CompletedHead
<1>5. Parsed(head)'
  BY <1>2, <1>4 DEF Parsed, HeadParses, ChainParses, RetentionParses
<1>6. head.n = h.n /\ head.status # "completed"
  BY <1>1 DEF SameChain
<1>7. /\ OneRequestPerTransition' /\ finals' \subseteq Requests
      /\ requests' \in [Requests -> {None} \cup 1 .. Length]
  BY <1>1, <1>2, <1>4, <1>6, OneFinal
<1>8. AttemptsAdvance'
  BY <1>2, <1>4 DEF AttemptsAdvance, Active
<1>9. /\ job' \in [Callers -> JobType] /\ \A d \in Callers : job'[d] = job[d] \/ JobInv(d)'
  BY DoneJob
<1>10. mishaps' \in 0 .. MaxMishaps
  BY StillState
<1>. QED
  BY <1>1, <1>2, <1>4, <1>5, <1>7, <1>8, <1>9, <1>10, HeadKeeps

\* What was staged under a lease that stands is still there for the commit.
LEMMA StagedIsRetained ==
  ASSUME CompositionSchedulerInv, NEW c \in Callers, job[c].pc = "commit", Exact(job[c].head)
  PROVE  CommitRetained(job[c].head)
<1>1. Batch(job[c].head) \subseteq store
  BY ExactLease DEF InLease, StagedInv
<1>. QED
  BY <1>1 DEF CommitRetained, Batch, TransitionRecords

LEMMA CommitInv ==
  ASSUME CompositionSchedulerInv, NEW c \in Callers, Commit(c)
  PROVE  CompositionSchedulerInv'
<1>. DEFINE h == job[c].head
            k == [job[c] EXCEPT !.pc = "clear"]
<1>1. job[c].pc = "commit" /\ UNCHANGED <<store, usage, cleaner, late, refused, mishaps>>
  BY DEF Commit, At, Others
<1>2. mishaps' \in 0 .. MaxMishaps
  BY <1>1, StillState
<1>3. CASE Answered(job[c].r, h)
  <2>1. Go(c, "clear") /\ UNCHANGED <<head, requests, finals>>
    BY <1>3 DEF Commit, Index
  <2>2. job[c] \in JobType /\ job[c].pc \in InLease /\ JobInv(c)
    BY <1>1, JobFields DEF InLease
  <2>3. ~Exact(h)
    BY <1>1, <1>3, <2>2 DEF JobInv, StandingInv
  <2>4. k \in JobType /\ k.pc = "clear" /\ k.head = h /\ k.r = job[c].r
    BY <2>2 DEF JobType
  <2>5. job' = [job EXCEPT ![c] = k]
    BY <2>1, Typed DEF Go, CompositionSchedulerInv
  <2>. HIDE DEF k
  <2>6. LeaseInv(c)' /\ job'[c] = k /\ (Exact(job[c].head)' <=> Exact(job[c].head))
    BY <2>1, <2>2, <2>4, <2>5, SteppedLease DEF InLease
  <2>7. StagedInv(c)' /\ StandingInv(c)'
    BY <2>3, <2>4, <2>6 DEF StagedInv, StandingInv
  <2>8. StoreInv' /\ store \subseteq store'
    BY <1>1, StillState
  <2>. QED
    BY <1>1, <1>2, <2>1, <2>3, <2>4, <2>5, <2>6, <2>7, <2>8, CallerKeeps DEF JobInv
<1>4. CASE ~Answered(job[c].r, h) /\ ~Exact(h)
  <2>1. Done(c) /\ UNCHANGED <<head, requests, finals>>
    BY <1>4 DEF Commit, Index
  <2>. QED
    BY <1>1, <1>2, <1>4, <2>1, DoneKeeps
<1>5. CASE ~Answered(job[c].r, h) /\ Exact(h)
  <2>1. CommitRetained(h)
    BY <1>1, <1>5, StagedIsRetained
  <2>2. /\ Done(c)
        /\ IF h.status = "ready-to-finalize"
           THEN CommitFinalization(job[c].r, h) ELSE CommitTransition(job[c].r, h)
    BY <1>5, <2>1 DEF Commit
  <2>. QED
    BY <1>1, <1>5, <2>2, CommitFinalizationInv, CommitTransitionInv
<1>. QED
  BY <1>3, <1>4, <1>5

LEMMA ClearLeaseInv ==
  ASSUME CompositionSchedulerInv, NEW c \in Callers, ClearLease(c)
  PROVE  CompositionSchedulerInv'
<1>. DEFINE h == job[c].head
            terminal == job[c].terminal
<1>1. /\ job[c].pc = "clear" /\ Done(c)
      /\ UNCHANGED <<store, usage, requests, finals, cleaner, late, refused, mishaps>>
  BY DEF ClearLease, At, Index, Others
<1>2. mishaps' \in 0 .. MaxMishaps
  BY <1>1, StillState
<1>3. CASE ~Exact(h)
  <2>1. UNCHANGED head
    BY <1>3 DEF ClearLease
  <2>. QED
    BY <1>1, <1>2, <1>3, <2>1, DoneKeeps
<1>4. CASE Exact(h)
  <2>1. /\ Parsed(head) /\ Parsed(h) /\ SameChain(head, h) /\ head.rev = h.rev
        /\ head.status = h.status /\ head.status \in Active /\ head.status \notin Terminal
        /\ StandingInv(c)
    BY <1>1, <1>4, ExactLease DEF InLease
  <2>2. PICK retryable \in BOOLEAN : retryable = ~terminal
    OBVIOUS
  <2>. DEFINE g == Released(h)
              status == IF terminal THEN "blocked" ELSE h.status
              m == [g EXCEPT !.retryable = retryable, !.status = status]
  <2>3. m.rev = g.rev
    BY <2>1 DEF Released, Revised, HeadType, Parsed
  <2>4. Released(h).status = h.status
    BY <2>1 DEF Released, Revised, HeadType, Parsed
  <2>5. head' = m /\ m.rev <= MaxRevision
    BY <1>4, <2>2, <2>4 DEF ClearLease, Move
  <2>6. /\ g \in HeadType /\ SameChain(g, h) /\ g.rev = h.rev + 1 /\ g.rev # None
        /\ g.leased = FALSE /\ g.status = h.status
    BY <2>1, <2>3, <2>5, ReleasedHead DEF Parsed
  <2>7. status \in Active \cup Terminal
    BY <2>1 DEF Terminal
  <2>8. /\ m \in HeadType /\ SameChain(m, g) /\ m.rev = g.rev
        /\ m.leased = FALSE /\ m.status = status
    <3>. HIDE DEF g, status
    <3>. QED
      BY <2>6, <2>7 DEF HeadType, SameChain
  <2>. HIDE DEF m, g
  <2>9. Parsed(m)
    BY <2>1, <2>6, <2>8, ParsedAgain DEF SameChain
  <2>10. /\ Parsed(head)' /\ head'.n = head.n /\ head'.status # "completed"
         /\ head'.rev = head.rev + 1
    BY <2>1, <2>5, <2>6, <2>8, <2>9
       DEF Parsed, HeadParses, ChainParses, RetentionParses, SameChain, Active
  <2>11. head.status # "completed"
    BY <2>1 DEF Terminal
  <2>12. OneRequestPerTransition' /\ requests' \in [Requests -> {None} \cup 1 .. Length]
         /\ finals' \subseteq Requests
    BY <1>1, <2>10, <2>11, RequestsStand
  <2>13. AttemptsAdvance'
    <3>. SUFFICES ASSUME mishaps = 0 PROVE head'.status \notin Active
      BY <1>1 DEF AttemptsAdvance
    <3>1. terminal
      BY <1>1, <1>4, <2>1 DEF StandingInv
    <3>. QED
      BY <2>5, <2>8, <3>1 DEF Active
  <2>14. /\ job' \in [Callers -> JobType] /\ \A d \in Callers : job'[d] = job[d] \/ JobInv(d)'
    BY <1>1, DoneJob
  <2>. QED
    BY <1>1, <1>2, <2>1, <2>10, <2>12, <2>13, <2>14, HeadKeeps
<1>. QED
  BY <1>3, <1>4

-----------------------------------------------------------------------------
LEMMA StepInv ==
  ASSUME CompositionSchedulerInv, [Next]_vars
  PROVE  CompositionSchedulerInv'
<1>1. ASSUME NEW c \in Callers, StageInitial(c) \/ CreateHead(c) PROVE CompositionSchedulerInv'
  BY <1>1, StageInitialInv, CreateHeadInv
<1>2. ASSUME NEW c \in Callers, Progress(c) \/ GiveUp(c) PROVE CompositionSchedulerInv'
  BY <1>1, <1>2, AdvanceCoreInv, FinalizeCoreInv, CommitInv, ClearLeaseInv, GiveUpInv DEF Progress
<1>3. ASSUME NEW c \in Callers, NEW r \in Requests, Acquire(c, r) PROVE CompositionSchedulerInv'
  BY <1>3, AcquireInv
<1>4. ASSUME NEW r \in Requests, RefuseOverLimit(r) PROVE CompositionSchedulerInv'
  BY <1>4, RefuseOverLimitInv
<1>5. ASSUME Lifecycle PROVE CompositionSchedulerInv'
  BY <1>5, RecoverInv, ScheduleRetryInv, CancelOrExpireInv DEF Lifecycle
<1>6. ASSUME Lapse \/ RetryDue \/ LifetimeEnds PROVE CompositionSchedulerInv'
  BY <1>6, LapseInv, RetryDueInv, LifetimeEndsInv
<1>7. ASSUME PrepareCleanup \/ CleanupUnreachable PROVE CompositionSchedulerInv'
  BY <1>7, PrepareCleanupInv, CleanupUnreachableInv
<1>8. ASSUME UNCHANGED vars PROVE CompositionSchedulerInv'
  <2>1. UNCHANGED <<head, store, usage, requests, finals, job, cleaner, late, refused, mishaps>>
    BY <1>8 DEF vars
  <2>2. AttemptsAdvance'
    BY <2>1, StillState DEF AttemptsAdvance, Exact
  <2>3. Roomy => NoFailureNoRefusal'
    BY <2>1 DEF CompositionSchedulerInv, NoFailureNoRefusal
  <2>. QED
    BY <2>1, <2>2, <2>3, StillState, StillHeadKeeps
<1>. QED
  BY <1>1, <1>2, <1>3, <1>4, <1>5, <1>6, <1>7, <1>8 DEF Next

-----------------------------------------------------------------------------
(* What a step does to the status and the transitions of the head. *)

Stopped == {"blocked", "cancelled", "expired"}
HeadMoves ==
  \/ head'.status = head.status /\ head'.n = head.n
  \/ head.status = "absent" /\ head'.status \in Active /\ head'.n = head.n
  \/ /\ head.status \in Active /\ head'.status \in Active
     /\ head.n < Length /\ head'.n = head.n + 1
  \/ /\ head.status \in Active /\ head'.status = "completed"
     /\ head.n = Length /\ head'.n = head.n
  \/ head.status \in Active /\ head'.status \in Stopped /\ head'.n = head.n

LEMMA MovesArePromised ==
  ASSUME HeadMoves
  PROVE  [Promise!PromiseNext]_<<IF head.status \in Active THEN "active" ELSE head.status, head.n>>
  BY DEF HeadMoves, Active, Stopped, Promise!PromiseNext, Promise!Create, Promise!Advance,
         Promise!Complete, Promise!Stop, Promise!Ended

LEMMA CommitMoves ==
  ASSUME CompositionSchedulerInv, NEW c \in Callers, Commit(c)
  PROVE  HeadMoves
<1>. DEFINE h == job[c].head
<1>1. job[c].pc = "commit"
  BY DEF Commit, At
<1>2. CASE Answered(job[c].r, h) \/ ~Exact(h)
  BY <1>2 DEF Commit, HeadMoves
<1>3. CASE ~Answered(job[c].r, h) /\ Exact(h)
  <2>1. CommitRetained(h)
    BY <1>1, <1>3, StagedIsRetained
  <2>2. IF h.status = "ready-to-finalize"
        THEN CommitFinalization(job[c].r, h) ELSE CommitTransition(job[c].r, h)
    BY <1>3, <2>1 DEF Commit
  <2>3. /\ Parsed(h) /\ h.status \in Active /\ head.status \in Active /\ head.n = h.n
        /\ h.retained + Cardinality(Batch(h)) <= MaxBytes
    BY <1>1, <1>3, ExactLease DEF InLease, SameChain, StagedInv
  <2>4. CASE h.status = "ready-to-finalize"
    <3>1. head' = Completed(h) /\ Completed(h).rev <= MaxRevision
      BY <2>2, <2>4 DEF CommitFinalization, Move
    <3>2. h.retained + Cardinality(Outputs) <= MaxBytes
      BY <2>3, <2>4 DEF Batch
    <3>3. Completed(h).n = h.n /\ Completed(h).status = "completed" /\ h.n = Length
      BY <2>3, <2>4, <3>1, <3>2, CompletedHead
    <3>. QED
      BY <2>3, <3>1, <3>3 DEF HeadMoves
  <2>5. CASE h.status # "ready-to-finalize"
    <3>1. head' = Advanced(h) /\ Advanced(h).rev <= MaxRevision
      BY <2>2, <2>5 DEF CommitTransition, Move
    <3>2. h.retained + Cardinality(TransitionRecords(h)) <= MaxBytes
      BY <2>3, <2>5 DEF Batch
    <3>3. Advanced(h).n = h.n + 1 /\ Advanced(h).status \in Active /\ h.n < Length
      BY <2>3, <2>5, <3>1, <3>2, AdvancedHead
    <3>. QED
      BY <2>3, <3>1, <3>3 DEF HeadMoves
  <2>. QED
    BY <2>4, <2>5
<1>. QED
  BY <1>2, <1>3

\* The status and the transitions of a head are what a revision of it keeps.
LEMMA RevisionKeeps ==
  ASSUME NEW h \in HeadType
  PROVE  /\ Revised(h).status = h.status /\ Revised(h).n = h.n
         /\ Released(h).status = h.status /\ Released(h).n = h.n
         /\ Leased(h).status = h.status /\ Leased(h).n = h.n
  BY DEF Revised, Released, Leased, HeadType

LEMMA ClearLeaseMoves ==
  ASSUME CompositionSchedulerInv, NEW c \in Callers, ClearLease(c)
  PROVE  HeadMoves
<1>. DEFINE h == job[c].head
<1>1. job[c].pc = "clear"
  BY DEF ClearLease, At
<1>2. CASE ~Exact(h)
  BY <1>2 DEF ClearLease, HeadMoves
<1>3. CASE Exact(h)
  <2>1. head.status = h.status /\ head.n = h.n /\ head.status \in Active /\ h \in HeadType
    BY <1>1, <1>3, ExactLease DEF InLease, SameChain, Parsed
  <2>2. PICK retryable \in BOOLEAN : retryable = ~job[c].terminal
    OBVIOUS
  <2>. DEFINE g == Released(h)
              status == IF job[c].terminal THEN "blocked" ELSE g.status
  <2>3. head' = [g EXCEPT !.retryable = retryable, !.status = status]
    BY <1>3, <2>2 DEF ClearLease, Move
  <2>4. g.status = h.status /\ g.n = h.n
    BY <2>1, RevisionKeeps
  <2>5. head'.n = g.n /\ head'.status = status
    <3>1. g = [Revised(h) EXCEPT !.leased = FALSE, !.retryable = FALSE]
      BY DEF Released
    <3>. QED
      BY <2>1, <2>3, <3>1 DEF Revised, HeadType
  <2>. QED
    BY <2>1, <2>4, <2>5 DEF HeadMoves, Stopped
<1>. QED
  BY <1>2, <1>3

LEMMA LifecycleMoves ==
  ASSUME CompositionSchedulerInv, Lifecycle \/ \E c \in Callers, r \in Requests : Acquire(c, r)
  PROVE  HeadMoves
<1>1. head.status \in Active \/ head.leased
  BY DEF Lifecycle, RecoverExpiredLease, ScheduleRetry, Cancel, Expire, Acquire, Open
<1>2. head \in HeadType /\ head.status \in Active
  BY <1>1, ActiveHead DEF Parsed
<1>3. ASSUME NEW status \in {"cancelled", "expired"}, Move(Ended(status)) PROVE HeadMoves
  <2>1. head' = Ended(status) /\ Ended(status).n = head.n /\ Ended(status).status = status
    BY <1>2, <1>3 DEF Move, Ended, Released, Revised, HeadType
  <2>. QED
    BY <1>2, <2>1 DEF HeadMoves, Stopped
<1>4. ASSUME NEW deferred \in BOOLEAN,
             Move([Released(head) EXCEPT !.deferred = deferred, !.retryable = TRUE])
      PROVE  HeadMoves
  <2>1. head'.status = head.status /\ head'.n = head.n
    BY <1>2, <1>4 DEF Move, Released, Revised, HeadType
  <2>. QED
    BY <2>1 DEF HeadMoves
<1>5. CASE ScheduleRetry
  <2>1. head'.status = head.status /\ head'.n = head.n
    BY <1>2, <1>5 DEF ScheduleRetry, Move, Revised, HeadType
  <2>. QED
    BY <2>1 DEF HeadMoves
<1>6. CASE \E c \in Callers, r \in Requests : Acquire(c, r)
  <2>1. head' = Leased(head)
    BY <1>6 DEF Acquire, Move
  <2>. QED
    BY <1>2, <2>1, RevisionKeeps DEF HeadMoves
<1>. QED
  BY <1>3, <1>4, <1>5, <1>6 DEF Lifecycle, RecoverExpiredLease, Cancel, Expire

LEMMA EveryStepMoves ==
  ASSUME CompositionSchedulerInv, [Next]_vars
  PROVE  HeadMoves
<1>1. ASSUME UNCHANGED head PROVE HeadMoves
  BY <1>1 DEF HeadMoves
<1>2. ASSUME NEW c \in Callers, StageInitial(c) \/ AdvanceCore(c) \/ FinalizeCore(c) \/ GiveUp(c)
      PROVE  HeadMoves
  BY <1>1, <1>2 DEF StageInitial, AdvanceCore, FinalizeCore, GiveUp
<1>3. ASSUME NEW c \in Callers, CreateHead(c) PROVE HeadMoves
  <2>1. CASE head # NoHead
    BY <1>1, <1>3, <2>1 DEF CreateHead
  <2>2. CASE head = NoHead
    <3>1. head' = NewHead /\ head.status = "absent" /\ head.n = 0
      BY <1>3, <2>2 DEF CreateHead, NoHead
    <3>. QED
      BY <3>1, NewHeadParsed DEF HeadMoves
  <2>. QED
    BY <2>1, <2>2
<1>4. ASSUME NEW c \in Callers, Commit(c) \/ ClearLease(c) PROVE HeadMoves
  BY <1>4, CommitMoves, ClearLeaseMoves
<1>5. ASSUME Lifecycle \/ \E c \in Callers, r \in Requests : Acquire(c, r) PROVE HeadMoves
  BY <1>5, LifecycleMoves
<1>6. ASSUME Lapse \/ RetryDue PROVE HeadMoves
  <2>1. head \in HeadType
    BY StillState
  <2>2. head'.status = head.status /\ head'.n = head.n
    BY <1>6, <2>1 DEF Lapse, RetryDue, HeadType
  <2>. QED
    BY <2>2 DEF HeadMoves
<1>7. ASSUME LifetimeEnds \/ PrepareCleanup \/ CleanupUnreachable
             \/ \E r \in Requests : RefuseOverLimit(r)
      PROVE  HeadMoves
  BY <1>1, <1>7 DEF LifetimeEnds, PrepareCleanup, CleanupUnreachable, RefuseOverLimit
<1>8. ASSUME UNCHANGED vars PROVE HeadMoves
  BY <1>1, <1>8 DEF vars
<1>. QED
  BY <1>2, <1>3, <1>4, <1>5, <1>6, <1>7, <1>8 DEF Next, Progress

-----------------------------------------------------------------------------
(* The chain of the head.  First, what a walk along a chain of records meets.  The *)
(* walk is a recursive function: that it is defined, and what it meets, is shown   *)
(* by the least number of steps after which it would not be so.                    *)

Lesser == OpToRel(<, Nat)
LEMMA LesserWellFounded == IsWellFoundedOn(Lesser, Nat)
  BY NatLessThanWellFounded DEF Lesser

\* What holds of 0, and of n + 1 with n, holds of every natural number.
LEMMA NaturalsReached ==
  ASSUME NEW S, 0 \in S, \A n \in Nat : n \in S => n + 1 \in S
  PROVE  Nat \subseteq S
<1>. DEFINE rest == Nat \ S
<1>1. SUFFICES ASSUME rest # {} PROVE FALSE
  OBVIOUS
<1>2. PICK n \in rest : \A m \in rest : ~ (<<m, n>> \in Lesser)
  <2>1. rest \subseteq Nat
    OBVIOUS
  <2>. HIDE DEF rest
  <2>. QED
    BY <1>1, <2>1, LesserWellFounded, WFMin, Zenon
<1>3. \A m \in rest : ~ (m < n)
  BY <1>2 DEF Lesser, OpToRel
<1>4. n # 0 /\ n - 1 \in Nat /\ n - 1 < n /\ (n - 1) + 1 = n
  OBVIOUS
<1>5. n - 1 \in S
  BY <1>3, <1>4
<1>. QED
  BY <1>4, <1>5

-----------------------------------------------------------------------------
\* The attempt before the one that a fingerprint names.
Before(kind, by) ==
  LET found == ByFingerprint(kind, by)
  IN IF found = {} THEN None ELSE (CHOOSE x \in found : TRUE).prev

\* A walk of some length along the chain of a kind, from its tip.
Walked(by, kind, tip, depth) ==
  by = [k \in 0 .. depth |-> IF k = 0 THEN tip ELSE Before(kind, by[k - 1])]

LEMMA SomeWalk ==
  ASSUME NEW kind, NEW tip, NEW depth \in Nat
  PROVE  \E by : Walked(by, kind, tip, depth)
<1>. DEFINE S == {m \in Nat : \E by : Walked(by, kind, tip, m)}
<1>1. 0 \in S
  <2>. DEFINE by == [k \in 0 .. 0 |-> tip]
  <2>1. Walked(by, kind, tip, 0)
    BY DEF Walked
  <2>. QED
    BY <2>1
<1>2. ASSUME NEW m \in Nat, m \in S PROVE m + 1 \in S
  <2>1. PICK by : Walked(by, kind, tip, m)
    BY <1>2
  <2>. DEFINE next == [k \in 0 .. m + 1 |-> IF k = m + 1 THEN Before(kind, by[m]) ELSE by[k]]
  <2>2. \A k \in 0 .. m : by[k] = IF k = 0 THEN tip ELSE Before(kind, by[k - 1])
    BY <2>1 DEF Walked
  <2>3. \A k \in 0 .. m + 1 : next[k] = IF k = 0 THEN tip ELSE Before(kind, next[k - 1])
    BY <2>2
  <2>4. Walked(next, kind, tip, m + 1)
    BY <2>3 DEF Walked
  <2>. QED
    BY <2>4
<1>. HIDE DEF S
<1>3. Nat \subseteq S
  BY <1>1, <1>2, NaturalsReached
<1>. QED
  BY <1>3 DEF S

Follows(by, kind, tip, depth) ==
  /\ by[0] = tip
  /\ \A k \in 1 .. depth : by[k] = Before(kind, by[k - 1])
  /\ Walk(kind, tip, depth) = {by[k] : k \in 0 .. depth} \ {None}

LEMMA WalkIsWalked ==
  ASSUME NEW kind, NEW tip, NEW depth \in Nat
  PROVE  \E by : Follows(by, kind, tip, depth)
<1>. DEFINE by == CHOOSE by : Walked(by, kind, tip, depth)
<1>1. Walked(by, kind, tip, depth)
  BY SomeWalk
<1>2. Walk(kind, tip, depth) = {by[k] : k \in 0 .. depth} \ {None}
  BY DEF Walk, Walked, Before
<1>. HIDE DEF by
<1>3. by[0] = tip /\ \A k \in 1 .. depth : by[k] = Before(kind, by[k - 1])
  BY <1>1 DEF Walked
<1>. QED
  BY <1>2, <1>3 DEF Follows

\* The attempts f of n steps, each of which leads to the one before.
Leads(kind, f, n) ==
  /\ \A k \in 1 .. n : f[k] = f[k - 1] \/ Before(kind, f[k]) = f[k - 1]
  /\ Before(kind, f[0]) = None /\ Before(kind, None) = None

Met(f, n) == {f[k] : k \in 0 .. n} \ {None}

\* A chain that leads from its tip to where it began is what is walked.
LEMMA WalkAlong ==
  ASSUME NEW kind, NEW n \in Nat, NEW depth \in Nat, n <= depth, NEW f, Leads(kind, f, n)
  PROVE  Walk(kind, f[n], depth) = Met(f, n)
<1>. DEFINE met == {f[k] : k \in 0 .. n} \cup {None}
<1>1. PICK by : /\ by[0] = f[n]
                /\ \A k \in 1 .. depth : by[k] = Before(kind, by[k - 1])
                /\ Walk(kind, f[n], depth) = {by[k] : k \in 0 .. depth} \ {None}
  BY WalkIsWalked DEF Follows
<1>2. \A k \in 0 .. n : Before(kind, f[k]) \in met
  <2>. DEFINE S == {k \in Nat : k <= n => Before(kind, f[k]) \in met}
  <2>1. 0 \in S
    BY DEF Leads
  <2>2. ASSUME NEW k \in Nat, k \in S PROVE k + 1 \in S
    <3>. SUFFICES ASSUME k + 1 <= n PROVE Before(kind, f[k + 1]) \in met
      OBVIOUS
    <3>1. /\ k + 1 \in 1 .. n /\ (k + 1) - 1 = k /\ k <= n /\ k \in 0 .. n
      OBVIOUS
    <3>2. f[k + 1] = f[k] \/ Before(kind, f[k + 1]) = f[k]
      BY <3>1 DEF Leads
    <3>3. Before(kind, f[k]) \in met
      BY <2>2, <3>1
    <3>. QED
      BY <3>1, <3>2, <3>3
  <2>. HIDE DEF S
  <2>3. Nat \subseteq S
    BY <2>1, <2>2, NaturalsReached
  <2>. QED
    BY <2>3 DEF S
<1>3. \A j \in 0 .. depth : by[j] \in met
  <2>. DEFINE S == {j \in Nat : j <= depth => by[j] \in met}
  <2>1. 0 \in S
    BY <1>1
  <2>2. ASSUME NEW j \in Nat, j \in S PROVE j + 1 \in S
    <3>. SUFFICES ASSUME j + 1 <= depth PROVE by[j + 1] \in met
      OBVIOUS
    <3>1. by[j] \in met /\ by[j + 1] = Before(kind, by[j])
      BY <1>1, <2>2
    <3>. QED
      BY <1>2, <3>1 DEF Leads
  <2>. HIDE DEF S
  <2>3. Nat \subseteq S
    BY <2>1, <2>2, NaturalsReached
  <2>. QED
    BY <2>3 DEF S
<1>4. \A k \in 0 .. n : \E j \in 0 .. depth : by[j] = f[k]
  <2>. DEFINE S == {i \in Nat : i <= n => \E j \in 0 .. i : by[j] = f[n - i]}
  <2>1. 0 \in S
    BY <1>1
  <2>2. ASSUME NEW i \in Nat, i \in S PROVE i + 1 \in S
    <3>. SUFFICES ASSUME i + 1 <= n PROVE \E j \in 0 .. i + 1 : by[j] = f[n - (i + 1)]
      OBVIOUS
    <3>1. PICK j \in 0 .. i : by[j] = f[n - i]
      BY <2>2
    <3>2. n - i \in 1 .. n /\ (n - i) - 1 = n - (i + 1)
      OBVIOUS
    <3>3. f[n - i] = f[n - (i + 1)] \/ Before(kind, f[n - i]) = f[n - (i + 1)]
      BY <3>2 DEF Leads
    <3>4. by[j + 1] = Before(kind, by[j])
      <4>1. j + 1 \in 1 .. depth /\ (j + 1) - 1 = j
        OBVIOUS
      <4>. QED
        BY <1>1, <4>1
    <3>5. j \in 0 .. i + 1 /\ j + 1 \in 0 .. i + 1
      OBVIOUS
    <3>. QED
      BY <3>1, <3>3, <3>4, <3>5
  <2>. HIDE DEF S
  <2>3. Nat \subseteq S
    BY <2>1, <2>2, NaturalsReached
  <2>4. \A i \in 0 .. n : \E j \in 0 .. i : by[j] = f[n - i]
    BY <2>3 DEF S
  <2>5. ASSUME NEW k \in 0 .. n PROVE \E j \in 0 .. depth : by[j] = f[k]
    <3>1. n - k \in 0 .. n /\ n - (n - k) = k
      OBVIOUS
    <3>. QED
      BY <2>4, <3>1
  <2>. QED
    BY <2>5
<1>. QED
  BY <1>1, <1>3, <1>4 DEF Follows, Met

-----------------------------------------------------------------------------
(* The chain of a head: the attempt b[k] that made its transition k, and the *)
(* tip c[k] of the closed pages after it.                                    *)

ChainKinds == {"transition-receipt", "closed-page-chunk"}
FirstTip == IF InitialPages THEN 0 ELSE None
ReceiptAt(b, k) == Record("transition-receipt", k, b[k], b[k - 1])
WindowAt(k) == Record("family-window", k, 0, None)
ChunkAt(b, c, k) == Record("closed-page-chunk", k, b[k], c[k - 1])
StepRecords(b, c, k) ==
  {ReceiptAt(b, k)} \cup (IF Document[k].window THEN {WindowAt(k)} ELSE {})
                    \cup (IF Document[k].pages THEN {ChunkAt(b, c, k)} ELSE {})
Links(b, c, n) == InitialRecords \cup UNION {StepRecords(b, c, k) : k \in 1 .. n}

\* The attempts b and the tips c of n transitions.
Attempts(b, c, n) ==
  /\ b \in [0 .. n -> None .. MaxRevision] /\ c \in [0 .. n -> None .. MaxRevision]
  /\ b[0] = None /\ c[0] = FirstTip
  /\ \A k \in 1 .. n : b[k] > 0 /\ c[k] = IF Document[k].pages THEN b[k] ELSE c[k - 1]

\* What a head that is completed retains besides its chain.
OutputsKept(h) == IF h.status = "completed" THEN Cardinality(Outputs) ELSE 0

\* The records s hold the chain of the head h, which it retains exactly.
Linked(h, b, c, s) ==
  /\ Attempts(b, c, h.n)
  /\ b[h.n] = h.receiptTip /\ c[h.n] = h.chunkTip
  /\ Links(b, c, h.n) \subseteq s
  /\ h.retained = Cardinality(Links(b, c, h.n)) + OutputsKept(h)

\* What is known of the records s of a head at a revision: windows are those of the
\* document, and a receipt or a chunk is the only one of its attempt.
Known(s, rev) ==
  /\ \A x \in s : x.kind = "family-window" =>
       x.n \in 1 .. Length /\ Document[x.n].window /\ x = WindowAt(x.n)
  /\ \A x \in s : x.kind \in ChainKinds => x \in InitialRecords \/ (0 < x.by /\ x.by <= rev)
  /\ \A x, y \in s : x.kind \in ChainKinds /\ x.kind = y.kind /\ x.by = y.by => x = y

\* The only record of its attempt leads to the attempt before.
LEMMA BeforeOnly ==
  ASSUME NEW rev, Known(store, rev), NEW x \in store, x.kind \in ChainKinds
  PROVE  Before(x.kind, x.by) = x.prev
<1>1. ByFingerprint(x.kind, x.by) = {x}
  BY DEF Known, ByFingerprint
<1>2. (CHOOSE y \in {x} : TRUE) = x
  OBVIOUS
<1>. QED
  BY <1>1, <1>2 DEF Before

LEMMA BeforeNone ==
  ASSUME store \subseteq RecordType, NEW kind
  PROVE  Before(kind, None) = None
<1>1. \A x \in store : x.by # None
  BY DEF RecordType, None
<1>2. ByFingerprint(kind, None) = {}
  BY <1>1 DEF ByFingerprint
<1>. QED
  BY <1>2 DEF Before

LEMMA RecordFields ==
  ASSUME NEW kind, NEW n, NEW by, NEW prev
  PROVE  /\ Record(kind, n, by, prev).kind = kind /\ Record(kind, n, by, prev).n = n
         /\ Record(kind, n, by, prev).by = by /\ Record(kind, n, by, prev).prev = prev
  BY DEF Record

\* The records of a chain.
LEMMA LinksHeld ==
  ASSUME NEW b, NEW c, NEW n \in Nat, NEW s, Links(b, c, n) \subseteq s
  PROVE  /\ InitialRecords \subseteq s
         /\ \A k \in 1 .. n : /\ ReceiptAt(b, k) \in s
                              /\ Document[k].window => WindowAt(k) \in s
                              /\ Document[k].pages => ChunkAt(b, c, k) \in s
<1>1. \A k \in 1 .. n : StepRecords(b, c, k) \subseteq Links(b, c, n)
  BY DEF Links
<1>. QED
  BY <1>1 DEF Links, StepRecords

\* The tip of the closed pages is missing, that of initialization or of a transition
\* that closed pages.
LEMMA TipsMade ==
  ASSUME NEW n \in Nat, NEW b, NEW c, Attempts(b, c, n)
  PROVE  \A k \in 0 .. n : \/ c[k] = FirstTip
                           \/ \E j \in 1 .. n : Document[j].pages /\ c[k] = b[j]
<1>. DEFINE Made(k) == \/ c[k] = FirstTip
                       \/ \E j \in 1 .. n : Document[j].pages /\ c[k] = b[j]
            S == {k \in Nat : k <= n => Made(k)}
<1>1. 0 \in S
  BY DEF Attempts
<1>2. ASSUME NEW k \in Nat, k \in S PROVE k + 1 \in S
  <2>. SUFFICES ASSUME k + 1 <= n PROVE Made(k + 1)
    OBVIOUS
  <2>1. k + 1 \in 1 .. n /\ (k + 1) - 1 = k /\ Made(k)
    BY <1>2
  <2>2. c[k + 1] = IF Document[k + 1].pages THEN b[k + 1] ELSE c[k]
    BY <2>1 DEF Attempts
  <2>. QED
    BY <2>1, <2>2
<1>. HIDE DEF S
<1>3. Nat \subseteq S
  BY <1>1, <1>2, NaturalsReached
<1>. QED
  BY <1>3 DEF S

-----------------------------------------------------------------------------
(* A head whose chain is held loads. *)

ReceiptLinks(b, n) == {ReceiptAt(b, k) : k \in 1 .. n}
ChunkLinks(b, c, n) == {ChunkAt(b, c, k) : k \in {j \in 1 .. n : Document[j].pages}}
FirstChunk == Record("closed-page-chunk", 0, 0, None)
FirstChunks == IF InitialPages THEN {FirstChunk} ELSE {}
WindowLinks(n) == {WindowAt(k) : k \in {j \in 1 .. n : Document[j].window}}

LEMMA ReceiptsFound ==
  ASSUME NEW h \in HeadType, NEW b, NEW c, Linked(h, b, c, store),
         NEW rev, Known(store, rev), store \subseteq RecordType
  PROVE  Receipts(h) = ReceiptLinks(b, h.n)
<1>. DEFINE n == h.n
            kind == "transition-receipt"
<1>1. n \in Nat /\ h.receiptTip = b[n]
  BY HeadFields DEF Linked
<1>2. \A k \in 1 .. n : ReceiptAt(b, k) \in store
  BY <1>1, LinksHeld DEF Linked
<1>3. \A k \in 1 .. n : ReceiptAt(b, k).kind = kind /\ ReceiptAt(b, k).by = b[k]
                        /\ ReceiptAt(b, k).prev = b[k - 1]
  BY RecordFields DEF ReceiptAt
<1>4. \A k \in 1 .. n : Before(kind, b[k]) = b[k - 1]
  <2>1. kind \in ChainKinds
    BY DEF ChainKinds
  <2>. QED
    BY <1>2, <1>3, <2>1, BeforeOnly
<1>5. Before(kind, None) = None
  BY BeforeNone
<1>6. b[0] = None /\ \A k \in 1 .. n : b[k] # None
  BY DEF Linked, Attempts, None
<1>7. Walk(kind, h.receiptTip, n + 1) = Met(b, n)
  <2>1. n + 1 \in Nat /\ n <= n + 1
    BY <1>1
  <2>2. Walk(kind, b[n], n + 1) = Met(b, n)
    <3>. HIDE DEF n, kind
    <3>1. Leads(kind, b, n)
      BY <1>4, <1>5, <1>6 DEF Leads
    <3>. QED
      BY <1>1, <2>1, <3>1, WalkAlong
  <2>. QED
    BY <2>2 DEF Linked
<1>8. Walk(kind, h.receiptTip, n + 1) = {b[k] : k \in 1 .. n}
  <2>. HIDE DEF n, kind
  <2>1. \A k \in 0 .. n : k = 0 \/ k \in 1 .. n
    BY <1>1
  <2>2. \A k \in 1 .. n : k \in 0 .. n
    BY <1>1
  <2>. QED
    BY <1>6, <1>7, <2>1, <2>2 DEF Met
<1>9. ASSUME NEW x \in store, x.kind = kind, NEW k \in 1 .. n, x.by = b[k]
      PROVE  x = ReceiptAt(b, k)
  <2>1. x.kind \in ChainKinds
    BY <1>9 DEF ChainKinds
  <2>. QED
    BY <1>2, <1>3, <1>9, <2>1 DEF Known
<1>10. Receipts(h) = {x \in store : x.kind = kind /\ x.by \in {b[k] : k \in 1 .. n}}
  BY <1>8 DEF Receipts, ChainOf
<1>. HIDE DEF n
<1>11. Receipts(h) = ReceiptLinks(b, n)
  BY <1>2, <1>3, <1>9, <1>10 DEF ReceiptLinks
<1>. QED
  BY <1>11 DEF n

LEMMA ChunksFound ==
  ASSUME NEW h \in HeadType, NEW b, NEW c, Linked(h, b, c, store),
         NEW rev, Known(store, rev), store \subseteq RecordType
  PROVE  Chunks(h) = ChunkLinks(b, c, h.n) \cup FirstChunks
<1>. DEFINE n == h.n
            kind == "closed-page-chunk"
            closing == {j \in 1 .. n : Document[j].pages}
<1>1. n \in Nat /\ Attempts(b, c, n) /\ h.chunkTip = c[n]
  BY HeadFields DEF Linked
<1>2. /\ \A k \in closing : ChunkAt(b, c, k) \in store
      /\ InitialPages => FirstChunk \in store
  <2>1. InitialPages => FirstChunk \in InitialRecords
    BY DEF InitialRecords, FirstChunk
  <2>. QED
    BY <1>1, <2>1, LinksHeld DEF Linked
<1>3. /\ \A k \in 1 .. n : ChunkAt(b, c, k).kind = kind /\ ChunkAt(b, c, k).by = b[k]
                           /\ ChunkAt(b, c, k).prev = c[k - 1]
      /\ FirstChunk.kind = kind /\ FirstChunk.by = 0 /\ FirstChunk.prev = None
  BY RecordFields DEF ChunkAt, FirstChunk
<1>4. kind \in ChainKinds
  BY DEF ChainKinds
<1>5. \A k \in closing : c[k] = b[k] /\ Before(kind, c[k]) = c[k - 1]
  <2>1. \A k \in closing : c[k] = b[k]
    BY <1>1 DEF Attempts
  <2>2. \A k \in closing : Before(kind, b[k]) = c[k - 1]
    BY <1>2, <1>3, <1>4, BeforeOnly
  <2>. QED
    BY <2>1, <2>2
<1>6. \A k \in 1 .. n : c[k] = c[k - 1] \/ Before(kind, c[k]) = c[k - 1]
  BY <1>1, <1>5 DEF Attempts
<1>7. Before(kind, None) = None
  BY BeforeNone
<1>8. Before(kind, c[0]) = None
  <2>1. InitialPages => Before(kind, 0) = None
    BY <1>2, <1>3, <1>4, BeforeOnly
  <2>. QED
    BY <1>1, <1>7, <2>1 DEF Attempts, FirstTip
<1>9. Walk(kind, h.chunkTip, n + 1) = Met(c, n)
  <2>1. n + 1 \in Nat /\ n <= n + 1
    BY <1>1
  <2>2. Walk(kind, c[n], n + 1) = Met(c, n)
    <3>. HIDE DEF n, kind
    <3>1. Leads(kind, c, n)
      BY <1>6, <1>7, <1>8 DEF Leads
    <3>. QED
      BY <1>1, <2>1, <3>1, WalkAlong
  <2>. QED
    BY <1>1, <2>2
<1>10. Chunks(h) = {x \in store : x.kind = kind /\ x.by \in {c[k] : k \in 0 .. n} \ {None}}
  BY <1>9 DEF Chunks, ChainOf, Met
<1>11. \A k \in 0 .. n : c[k] = FirstTip \/ \E j \in closing : c[k] = b[j]
  BY <1>1, TipsMade
<1>12. ASSUME NEW x \in store, x.kind = kind, NEW j \in closing, x.by = b[j]
       PROVE  x = ChunkAt(b, c, j)
  BY <1>2, <1>3, <1>4, <1>12 DEF Known
<1>13. ASSUME NEW x \in store, x.kind = kind, InitialPages, x.by = 0
       PROVE  x = FirstChunk
  BY <1>2, <1>3, <1>4, <1>13 DEF Known
<1>14. /\ \A j \in closing : j \in 0 .. n /\ c[j] = b[j] /\ c[j] # None
       /\ InitialPages => 0 \in 0 .. n /\ c[0] = 0 /\ c[0] # None
       /\ ~InitialPages => FirstTip = None
       /\ InitialPages => FirstTip = 0
  BY <1>1, <1>5 DEF Attempts, FirstTip, None
<1>. HIDE DEF n, kind, closing
<1>15. ASSUME NEW x \in Chunks(h) PROVE x \in {ChunkAt(b, c, k) : k \in closing} \cup FirstChunks
  <2>1. x \in store /\ x.kind = kind /\ x.by # None
    BY <1>10
  <2>2. PICK k \in 0 .. n : x.by = c[k]
    BY <1>10
  <2>. QED
    BY <1>11, <1>12, <1>13, <1>14, <2>1, <2>2 DEF FirstChunks
<1>16. ASSUME NEW x \in {ChunkAt(b, c, k) : k \in closing} PROVE x \in Chunks(h)
  <2>1. PICK k \in closing : x = ChunkAt(b, c, k)
    OBVIOUS
  <2>2. k \in 1 .. n
    BY DEF closing
  <2>. QED
    BY <1>2, <1>3, <1>10, <1>14, <2>1, <2>2
<1>17. ASSUME NEW x \in FirstChunks PROVE x \in Chunks(h)
  <2>1. InitialPages /\ x = FirstChunk
    BY DEF FirstChunks
  <2>. QED
    BY <1>2, <1>3, <1>10, <1>14, <2>1
<1>18. ChunkLinks(b, c, n) = {ChunkAt(b, c, k) : k \in closing}
  BY DEF ChunkLinks, closing
<1>. QED
  BY <1>15, <1>16, <1>17, <1>18 DEF n

LEMMA WindowsFound ==
  ASSUME NEW h \in HeadType, NEW b, NEW c, Linked(h, b, c, store), NEW rev, Known(store, rev)
  PROVE  Windows(h) = WindowLinks(h.n)
<1>. DEFINE n == h.n
<1>1. n \in Nat
  BY HeadFields
<1>2. \A k \in 1 .. n : Document[k].window => WindowAt(k) \in store
  BY <1>1, LinksHeld DEF Linked
<1>3. \A k \in 1 .. n : WindowAt(k).kind = "family-window" /\ WindowAt(k).n = k
  BY RecordFields DEF WindowAt
<1>4. \A x \in store : x.kind = "family-window" =>
        x.n \in 1 .. Length /\ Document[x.n].window /\ x = WindowAt(x.n)
  BY DEF Known
<1>5. ASSUME NEW x \in store, x.kind = "family-window", x.n <= n
      PROVE  x.n \in {j \in 1 .. n : Document[j].window} /\ x = WindowAt(x.n)
  BY <1>1, <1>4, <1>5, Limits
<1>. HIDE DEF n
<1>6. \A k \in 1 .. n : k <= n
  BY <1>1
<1>7. Windows(h) = {x \in store : x.kind = "family-window" /\ x.n <= n}
  BY DEF Windows, n
<1>8. Windows(h) = WindowLinks(n)
  BY <1>2, <1>3, <1>5, <1>6, <1>7 DEF WindowLinks
<1>. QED
  BY <1>8 DEF n

LEMMA LinksByKind ==
  ASSUME NEW b, NEW c, NEW n \in Nat
  PROVE  Links(b, c, n) = Sources \cup FirstChunks \cup ReceiptLinks(b, n) \cup ChunkLinks(b, c, n)
                                  \cup WindowLinks(n)
<1>. DEFINE steps == UNION {StepRecords(b, c, k) : k \in 1 .. n}
            parts == ReceiptLinks(b, n) \cup ChunkLinks(b, c, n) \cup WindowLinks(n)
<1>1. ASSUME NEW x \in steps PROVE x \in parts
  <2>1. PICK k \in 1 .. n : x \in StepRecords(b, c, k)
    OBVIOUS
  <2>2. \/ x = ReceiptAt(b, k)
        \/ Document[k].window /\ x = WindowAt(k)
        \/ Document[k].pages /\ x = ChunkAt(b, c, k)
    BY <2>1 DEF StepRecords
  <2>. QED
    BY <2>2 DEF ReceiptLinks, ChunkLinks, WindowLinks
<1>2. ASSUME NEW x \in parts PROVE x \in steps
  <2>1. PICK k \in 1 .. n : \/ x = ReceiptAt(b, k)
                            \/ Document[k].window /\ x = WindowAt(k)
                            \/ Document[k].pages /\ x = ChunkAt(b, c, k)
    BY DEF ReceiptLinks, ChunkLinks, WindowLinks
  <2>2. x \in StepRecords(b, c, k)
    BY <2>1 DEF StepRecords
  <2>. QED
    BY <2>2
<1>3. steps = parts
  <2>. HIDE DEF steps, parts
  <2>. QED
    BY <1>1, <1>2
<1>4. InitialRecords = Sources \cup FirstChunks
  BY DEF InitialRecords, FirstChunks, FirstChunk
<1>5. Links(b, c, n) = InitialRecords \cup steps
  BY DEF Links
<1>. HIDE DEF steps
<1>. QED
  BY <1>3, <1>4, <1>5

LEMMA ReceiptsCount ==
  ASSUME NEW n \in Nat, NEW b
  PROVE  Cardinality(ReceiptLinks(b, n)) = n /\ {x.n : x \in ReceiptLinks(b, n)} = 1 .. n
<1>. DEFINE at == [k \in 1 .. n |-> ReceiptAt(b, k)]
            made == ReceiptLinks(b, n)
<1>1. \A k \in 1 .. n : ReceiptAt(b, k).n = k /\ at[k] = ReceiptAt(b, k)
  BY RecordFields DEF ReceiptAt
<1>2. at \in Bijection(1 .. n, made)
  <2>1. at \in [1 .. n -> made]
    BY DEF ReceiptLinks
  <2>2. \A k, l \in 1 .. n : at[k] = at[l] => k = l
    BY <1>1
  <2>3. \A x \in made : \E k \in 1 .. n : at[k] = x
    BY DEF ReceiptLinks
  <2>. HIDE DEF at, made
  <2>. QED
    BY <2>1, <2>2, <2>3 DEF Bijection, Injection, IsInjective, Surjection
<1>3. Cardinality(made) = Cardinality(1 .. n)
  <2>. HIDE DEF made
  <2>1. ExistsBijection(1 .. n, made)
    BY <1>2 DEF ExistsBijection
  <2>2. IsFiniteSet(1 .. n)
    BY FS_Interval
  <2>. QED
    BY <2>1, <2>2, FS_Bijection
<1>4. Cardinality(1 .. n) = n
  BY FS_Interval
<1>5. ASSUME NEW m PROVE m \in {x.n : x \in made} <=> m \in 1 .. n
  BY <1>1 DEF ReceiptLinks
<1>6. {x.n : x \in made} = 1 .. n
  <2>. HIDE DEF made
  <2>. QED
    BY <1>5
<1>. QED
  BY <1>3, <1>4, <1>6

\* A head whose chain is held reaches exactly that chain, and the chain loads.
LEMMA LinkedReaches ==
  ASSUME NEW h \in HeadType, NEW b, NEW c, Linked(h, b, c, store),
         NEW rev, Known(store, rev), store \subseteq RecordType
  PROVE  ChainRecords(h) = Links(b, c, h.n)
<1>1. h.n \in Nat
  BY HeadFields
<1>2. /\ Receipts(h) = ReceiptLinks(b, h.n) /\ Chunks(h) = ChunkLinks(b, c, h.n) \cup FirstChunks
      /\ Windows(h) = WindowLinks(h.n)
  BY ReceiptsFound, ChunksFound, WindowsFound
<1>3. store \cap Sources = Sources
  BY <1>1, LinksHeld DEF Linked, InitialRecords
<1>. QED
  BY <1>1, <1>2, <1>3, LinksByKind DEF ChainRecords

LEMMA LinkedLoads ==
  ASSUME NEW h \in HeadType, NEW b, NEW c, Linked(h, b, c, store),
         NEW rev, Known(store, rev), store \subseteq RecordType, IsFiniteSet(store),
         h.status # "completed"
  PROVE  ChainLoads(h)
<1>. DEFINE n == h.n
            closing == {j \in 1 .. n : Document[j].pages}
            using == {j \in 1 .. n : Document[j].window}
<1>1. n \in Nat
  BY HeadFields
<1>2. /\ Receipts(h) = ReceiptLinks(b, n) /\ Chunks(h) = ChunkLinks(b, c, n) \cup FirstChunks
      /\ Windows(h) = WindowLinks(n)
  BY ReceiptsFound, ChunksFound, WindowsFound
<1>3. Cardinality(Receipts(h)) = n /\ {x.n : x \in Receipts(h)} = 1 .. n
  <2>. HIDE DEF n
  <2>. QED
    BY <1>1, <1>2, ReceiptsCount
<1>4. /\ \A k \in 1 .. n : ChunkAt(b, c, k).n = k /\ ChunkAt(b, c, k).by = b[k]
      /\ \A k \in 1 .. n : ReceiptAt(b, k).n = k /\ ReceiptAt(b, k).by = b[k]
      /\ \A k \in 1 .. n : WindowAt(k).n = k
      /\ FirstChunk.n = 0
  BY RecordFields DEF ChunkAt, ReceiptAt, WindowAt, FirstChunk
<1>5. {x.n : x \in Chunks(h)} = closing \cup (IF InitialPages THEN {0} ELSE {})
  <2>. HIDE DEF n
  <2>1. ASSUME NEW m PROVE m \in {x.n : x \in ChunkLinks(b, c, n)} <=> m \in closing
    BY <1>4 DEF ChunkLinks
  <2>2. ASSUME NEW m PROVE m \in {x.n : x \in FirstChunks} <=> InitialPages /\ m = 0
    BY <1>4 DEF FirstChunks
  <2>. HIDE DEF closing
  <2>3. ASSUME NEW m
        PROVE  m \in {x.n : x \in Chunks(h)} <=> (m \in closing \/ (InitialPages /\ m = 0))
    <3>1. \A x : x \in Chunks(h) <=> (x \in ChunkLinks(b, c, n) \/ x \in FirstChunks)
      BY <1>2
    <3>2. m \in {x.n : x \in ChunkLinks(b, c, n)} <=> m \in closing
      BY <2>1
    <3>3. m \in {x.n : x \in FirstChunks} <=> (InitialPages /\ m = 0)
      BY <2>2
    <3>4. m \in {x.n : x \in Chunks(h)} <=>
            (m \in {x.n : x \in ChunkLinks(b, c, n)} \/ m \in {x.n : x \in FirstChunks})
      BY <3>1
    <3>. QED
      BY <3>2, <3>3, <3>4
  <2>. DEFINE initial == IF InitialPages THEN {0} ELSE {}
  <2>4. \A m : m \in initial <=> (InitialPages /\ m = 0)
    OBVIOUS
  <2>. HIDE DEF initial
  <2>5. {x.n : x \in Chunks(h)} = closing \cup initial
    BY <2>3, <2>4
  <2>. QED
    BY <2>5 DEF initial
<1>6. \A x \in Chunks(h) : x.n > 0 => \E y \in Receipts(h) : y.n = x.n /\ y.by = x.by
  <2>. SUFFICES ASSUME NEW x \in Chunks(h), x.n > 0
                PROVE  \E y \in Receipts(h) : y.n = x.n /\ y.by = x.by
    OBVIOUS
  <2>1. x \notin FirstChunks
    BY <1>4 DEF FirstChunks
  <2>2. PICK k \in closing : x = ChunkAt(b, c, k)
    BY <1>2, <2>1 DEF ChunkLinks
  <2>3. ReceiptAt(b, k) \in Receipts(h)
    BY <1>2 DEF ReceiptLinks
  <2>. QED
    BY <1>4, <2>2, <2>3
<1>7. {x.n : x \in Windows(h)} = using
  <2>. HIDE DEF n
  <2>1. ASSUME NEW m PROVE m \in {x.n : x \in WindowLinks(n)} <=> m \in using
    BY <1>4 DEF WindowLinks
  <2>. HIDE DEF using
  <2>. QED
    BY <1>2, <2>1
<1>8. Cardinality(ChainRecords(h)) = h.retained
  <2>1. h.retained = Cardinality(Links(b, c, n)) + 0
    BY DEF Linked, OutputsKept
  <2>2. ChainRecords(h) = Links(b, c, n)
    BY LinkedReaches
  <2>3. Cardinality(Links(b, c, n)) \in Nat
    BY FS_Subset, FS_CardinalityType DEF Linked
  <2>. QED
    BY <2>1, <2>2, <2>3
<1>. QED
  BY <1>3, <1>5, <1>6, <1>7, <1>8 DEF ChainLoads

-----------------------------------------------------------------------------
(* What is staged keeps what is known of the records. *)

LEMMA InitialFields ==
  /\ \A x \in InitialRecords : x.kind # "family-window" /\ x.n = 0 /\ x.by = 0
  /\ \A x \in InitialRecords : x.kind \in ChainKinds => x = FirstChunk
  /\ FirstChunk.by = 0
<1>1. \A x \in Sources : x.kind \notin ChainKinds /\ x.kind # "family-window" /\ x.n = 0 /\ x.by = 0
  BY RecordFields DEF Sources, ChainKinds
<1>2. FirstChunk.kind # "family-window" /\ FirstChunk.n = 0 /\ FirstChunk.by = 0
  BY RecordFields DEF FirstChunk
<1>3. \A x \in InitialRecords : x \in Sources \/ x = FirstChunk
  BY DEF InitialRecords, FirstChunk
<1>. QED
  BY <1>1, <1>2, <1>3

LEMMA OutputFields ==
  \A x \in Outputs : x.kind # "family-window" /\ x.kind \notin ChainKinds
  BY RecordFields DEF Outputs, ChainKinds

LEMMA TransitionFields ==
  ASSUME NEW h, NEW x \in TransitionRecords(h)
  PROVE  /\ x.n = h.n + 1
         /\ \/ x = ReceiptOf(h) /\ x.kind = "transition-receipt" /\ x.by = h.rev
            \/ x = ChunkOf(h) /\ x.kind = "closed-page-chunk" /\ x.by = h.rev
            \/ x = WindowAt(h.n + 1) /\ x.kind = "family-window" /\ Document[h.n + 1].window
<1>1. \/ x = ReceiptOf(h)
      \/ x = ChunkOf(h)
      \/ x = WindowAt(h.n + 1) /\ Document[h.n + 1].window
  BY DEF TransitionRecords, WindowAt
<1>. QED
  BY <1>1, RecordFields DEF ReceiptOf, ChunkOf, WindowAt

LEMMA InitialKnown ==
  ASSUME NEW s, s \subseteq RecordType, NEW rev, Known(s, rev)
  PROVE  Known(s \cup InitialRecords, rev)
<1>1. \A x \in s : x.kind \in ChainKinds /\ x.by = 0 => x = FirstChunk
  BY InitialFields DEF Known
<1>2. \A x \in InitialRecords : x.kind \in ChainKinds => x = FirstChunk
  BY InitialFields
<1>3. ASSUME NEW x \in s \cup InitialRecords, NEW y \in s \cup InitialRecords,
             x.kind \in ChainKinds, x.kind = y.kind, x.by = y.by
      PROVE  x = y
  BY <1>1, <1>2, <1>3, InitialFields DEF Known
<1>4. \A x \in s \cup InitialRecords : x.kind = "family-window" =>
        x.n \in 1 .. Length /\ Document[x.n].window /\ x = WindowAt(x.n)
  BY InitialFields DEF Known
<1>5. \A x \in s \cup InitialRecords : x.kind \in ChainKinds =>
        x \in InitialRecords \/ (0 < x.by /\ x.by <= rev)
  BY DEF Known
<1>. QED
  BY <1>3, <1>4, <1>5 DEF Known

LEMMA OutputsKnown ==
  ASSUME NEW s, NEW rev, Known(s, rev)
  PROVE  Known(s \cup Outputs, rev)
  BY OutputFields DEF Known

LEMMA TransitionKnown ==
  ASSUME NEW s, s \subseteq RecordType, NEW rev, Known(s, rev),
         NEW h, h.n \in Nat, h.n < Length, h.rev > 0, h.rev <= rev,
         \A x \in s : x.kind \in ChainKinds => x.by # h.rev
  PROVE  Known(s \cup TransitionRecords(h), rev)
<1>. DEFINE t == TransitionRecords(h)
<1>1. \A x \in t : x.kind \in ChainKinds => x.by = h.rev
  BY TransitionFields DEF ChainKinds
<1>2. ASSUME NEW x \in s \cup t, NEW y \in s \cup t,
             x.kind \in ChainKinds, x.kind = y.kind, x.by = y.by
      PROVE  x = y
  <2>1. CASE x \in s /\ y \in s
    BY <1>2, <2>1 DEF Known
  <2>2. CASE x \in t /\ y \in t
    BY <1>2, <2>2, TransitionFields DEF ChainKinds
  <2>3. CASE (x \in s /\ y \in t) \/ (x \in t /\ y \in s)
    <3>. HIDE DEF t
    <3>. QED
      BY <1>1, <1>2, <2>3
  <2>. QED
    BY <2>1, <2>2, <2>3
<1>3. h.n + 1 \in 1 .. Length
  BY Limits
<1>4. ASSUME NEW x \in t, x.kind = "family-window"
      PROVE  x.n \in 1 .. Length /\ Document[x.n].window /\ x = WindowAt(x.n)
  BY <1>3, <1>4, TransitionFields
<1>. HIDE DEF t
<1>5. \A x \in s \cup t : x.kind = "family-window" =>
        x.n \in 1 .. Length /\ Document[x.n].window /\ x = WindowAt(x.n)
  BY <1>4 DEF Known
<1>6. \A x \in s \cup t : x.kind \in ChainKinds =>
        x \in InitialRecords \/ (0 < x.by /\ x.by <= rev)
  BY <1>1 DEF Known
<1>. QED
  BY <1>2, <1>5, <1>6 DEF Known, t

\* Fewer records, of a later head, are no less known.
LEMMA FewerKnown ==
  ASSUME NEW s, s \subseteq RecordType, NEW rev \in Int, Known(s, rev),
         NEW r \in SUBSET s, NEW next \in Int, rev <= next
  PROVE  Known(r, next)
<1>1. \A x \in r : x.by \in Int
  BY Limits DEF RecordType
<1>2. \A x \in r : x.kind \in ChainKinds =>
        x \in InitialRecords \/ (0 < x.by /\ x.by <= next)
  BY <1>1 DEF Known
<1>3. \A x \in r : x.kind = "family-window" =>
        x.n \in 1 .. Length /\ Document[x.n].window /\ x = WindowAt(x.n)
  BY DEF Known
<1>4. \A x, y \in r : x.kind \in ChainKinds /\ x.kind = y.kind /\ x.by = y.by => x = y
  BY DEF Known
<1>. QED
  BY <1>2, <1>3, <1>4 DEF Known

-----------------------------------------------------------------------------
(* One transition more. *)

LEMMA LinkNumbers ==
  ASSUME NEW b, NEW c, NEW n \in Nat
  PROVE  \A x \in Links(b, c, n) : x.n \in 0 .. n
<1>1. ASSUME NEW k \in 1 .. n, NEW x \in StepRecords(b, c, k) PROVE x.n \in 0 .. n
  BY RecordFields DEF StepRecords, ReceiptAt, WindowAt, ChunkAt
<1>2. \A x \in InitialRecords : x.n \in 0 .. n
  BY InitialFields
<1>. QED
  BY <1>1, <1>2 DEF Links

\* The attempts and the tips of n transitions, continued.
Continue(b2, c2, b, c, n) == \A k \in 0 .. n : b2[k] = b[k] /\ c2[k] = c[k]

LEMMA LinksGrow ==
  ASSUME NEW n \in Nat, NEW b, NEW c, NEW b2, NEW c2, Continue(b2, c2, b, c, n)
  PROVE  Links(b2, c2, n + 1) = Links(b, c, n) \cup StepRecords(b2, c2, n + 1)
<1>1. \A k \in 1 .. n : StepRecords(b2, c2, k) = StepRecords(b, c, k)
  <2>. SUFFICES ASSUME NEW k \in 1 .. n PROVE StepRecords(b2, c2, k) = StepRecords(b, c, k)
    OBVIOUS
  <2>1. k \in 0 .. n /\ k - 1 \in 0 .. n
    OBVIOUS
  <2>. QED
    BY <2>1 DEF StepRecords, ReceiptAt, ChunkAt, Continue
<1>2. \A k \in 1 .. n + 1 : k \in 1 .. n \/ k = n + 1
  OBVIOUS
<1>3. n + 1 \in 1 .. n + 1 /\ \A k \in 1 .. n : k \in 1 .. n + 1
  OBVIOUS
<1>4. ASSUME NEW x
      PROVE  x \in Links(b2, c2, n + 1) <=>
               x \in Links(b, c, n) \/ x \in StepRecords(b2, c2, n + 1)
  BY <1>1, <1>2, <1>3 DEF Links
<1>. QED
  BY <1>4

LEMMA AdvancedFields ==
  ASSUME NEW h \in HeadType
  PROVE  /\ Advanced(h).receiptTip = h.rev
         /\ Advanced(h).chunkTip = IF Document[h.n + 1].pages THEN h.rev ELSE h.chunkTip
         /\ Advanced(h).retained = h.retained + Cardinality(TransitionRecords(h))
         /\ Advanced(h).n = h.n + 1 /\ Advanced(h).rev = h.rev + 1
         /\ Completed(h).retained = h.retained + Cardinality(Outputs)
         /\ Completed(h).receiptTip = h.receiptTip /\ Completed(h).chunkTip = h.chunkTip
         /\ Completed(h).n = h.n /\ Completed(h).rev = h.rev + 1
  BY DEF Advanced, Completed, Released, Revised, HeadType

\* The chain of a head that advances is the chain before with what was staged.
LEMMA LinkedAdvances ==
  ASSUME NEW g \in HeadType, NEW h \in HeadType, SameChain(g, h), g.status # "completed",
         NEW b, NEW c, NEW s, IsFiniteSet(s), Linked(g, b, c, s),
         h.n < Length, h.rev > 0, TransitionRecords(h) \subseteq s,
         Advanced(h).status # "completed"
  PROVE  \E b2, c2 : Linked(Advanced(h), b2, c2, s)
<1>. DEFINE n == h.n
            b2 == [k \in 0 .. n + 1 |-> IF k = n + 1 THEN h.rev ELSE b[k]]
            c2 == [k \in 0 .. n + 1 |-> IF k = n + 1
                                        THEN IF Document[n + 1].pages THEN h.rev ELSE c[n]
                                        ELSE c[k]]
<1>1. n \in Nat /\ g.n = n /\ b[n] = h.receiptTip /\ c[n] = h.chunkTip /\ Attempts(b, c, n)
      /\ Links(b, c, n) \subseteq s /\ g.retained = h.retained
  BY HeadFields DEF SameChain, Linked
<1>2. /\ \A k \in 0 .. n : b2[k] = b[k] /\ c2[k] = c[k]
      /\ b2[n + 1] = h.rev
      /\ c2[n + 1] = IF Document[n + 1].pages THEN h.rev ELSE c[n]
  BY <1>1
<1>3. b2 \in [0 .. n + 1 -> None .. MaxRevision] /\ c2 \in [0 .. n + 1 -> None .. MaxRevision]
  <2>1. h.rev \in None .. MaxRevision
    BY HeadFields
  <2>2. \A k \in 0 .. n + 1 : k = n + 1 \/ k \in 0 .. n
    BY <1>1
  <2>3. \A k \in 0 .. n : b[k] \in None .. MaxRevision /\ c[k] \in None .. MaxRevision
    BY <1>1 DEF Attempts
  <2>4. n \in 0 .. n
    BY <1>1
  <2>. QED
    BY <2>1, <2>2, <2>3, <2>4
<1>. HIDE DEF b2, c2
<1>4. Attempts(b2, c2, n + 1)
  <2>1. b2[0] = None /\ c2[0] = FirstTip
    BY <1>1, <1>2 DEF Attempts
  <2>2. \A k \in 1 .. n : b2[k] > 0 /\ c2[k] = IF Document[k].pages THEN b2[k] ELSE c2[k - 1]
    <3>. SUFFICES ASSUME NEW k \in 1 .. n
                  PROVE  b2[k] > 0 /\ c2[k] = IF Document[k].pages THEN b2[k] ELSE c2[k - 1]
      OBVIOUS
    <3>1. k \in 0 .. n /\ k - 1 \in 0 .. n
      BY <1>1
    <3>. QED
      BY <1>1, <1>2, <3>1 DEF Attempts
  <2>3. /\ b2[n + 1] > 0 /\ (n + 1) - 1 = n /\ n \in 0 .. n
        /\ c2[n + 1] = IF Document[n + 1].pages THEN b2[n + 1] ELSE c2[n]
    BY <1>1, <1>2
  <2>4. \A k \in 1 .. n + 1 : k \in 1 .. n \/ k = n + 1
    BY <1>1
  <2>. QED
    BY <1>3, <2>1, <2>2, <2>3, <2>4 DEF Attempts
<1>5. StepRecords(b2, c2, n + 1) = TransitionRecords(h)
  <2>1. (n + 1) - 1 = n /\ b2[n] = h.receiptTip /\ c2[n] = h.chunkTip
    BY <1>1, <1>2
  <2>2. ReceiptAt(b2, n + 1) = ReceiptOf(h) /\ WindowAt(n + 1) = Record("family-window", n + 1, 0, None)
        /\ ChunkAt(b2, c2, n + 1) = ChunkOf(h)
    BY <1>2, <2>1 DEF ReceiptAt, ReceiptOf, ChunkAt, ChunkOf, WindowAt
  <2>. QED
    BY <2>2 DEF StepRecords, TransitionRecords
<1>6. Links(b2, c2, n + 1) = Links(b, c, n) \cup TransitionRecords(h)
  <2>1. Continue(b2, c2, b, c, n)
    BY <1>2 DEF Continue
  <2>. HIDE DEF n
  <2>2. Links(b2, c2, n + 1) = Links(b, c, n) \cup StepRecords(b2, c2, n + 1)
    BY <1>1, <2>1, LinksGrow
  <2>. QED
    BY <1>5, <2>2
<1>7. Links(b, c, n) \cap TransitionRecords(h) = {}
  <2>1. \A x \in Links(b, c, n) : x.n \in 0 .. n
    BY <1>1, LinkNumbers
  <2>2. \A x \in TransitionRecords(h) : x.n = n + 1
    BY TransitionFields
  <2>. QED
    BY <1>1, <2>1, <2>2
<1>8. /\ IsFiniteSet(Links(b, c, n)) /\ IsFiniteSet(TransitionRecords(h))
      /\ Cardinality(Links(b, c, n)) \in Nat /\ Cardinality(TransitionRecords(h)) \in Nat
  BY <1>1, FS_Subset, FS_CardinalityType
<1>9. Cardinality(Links(b2, c2, n + 1)) = Cardinality(Links(b, c, n)) + Cardinality(TransitionRecords(h))
  <2>1. Cardinality(Links(b, c, n) \cap TransitionRecords(h)) = 0
    BY <1>7, FS_EmptySet
  <2>2. Cardinality(Links(b, c, n) \cup TransitionRecords(h))
          = Cardinality(Links(b, c, n)) + Cardinality(TransitionRecords(h))
            - Cardinality(Links(b, c, n) \cap TransitionRecords(h))
    BY <1>8, FS_Union
  <2>3. Cardinality(Links(b, c, n) \cup TransitionRecords(h))
          = Cardinality(Links(b, c, n)) + Cardinality(TransitionRecords(h))
    BY <1>8, <2>1, <2>2
  <2>. QED
    BY <1>6, <2>3
<1>10. h.retained = Cardinality(Links(b, c, n))
  <2>1. g.retained = Cardinality(Links(b, c, n)) + 0
    BY <1>1 DEF Linked, OutputsKept
  <2>. QED
    BY <1>1, <1>8, <2>1
<1>11. Advanced(h).retained = Cardinality(Links(b2, c2, n + 1)) + 0
  BY <1>8, <1>9, <1>10, AdvancedFields
<1>12. OutputsKept(Advanced(h)) = 0
  BY DEF OutputsKept
<1>13. Advanced(h).n = n + 1 /\ Advanced(h).receiptTip = b2[n + 1] /\ Advanced(h).chunkTip = c2[n + 1]
  BY <1>1, <1>2, AdvancedFields
<1>14. Links(b2, c2, n + 1) \subseteq s
  BY <1>1, <1>6
<1>. HIDE DEF n
<1>15. Linked(Advanced(h), b2, c2, s)
  BY <1>4, <1>11, <1>12, <1>13, <1>14 DEF Linked
<1>. QED
  BY <1>15

-----------------------------------------------------------------------------
(* The inductive invariant of the records. *)

\* A caller under a lease has a revision of its own, by which nothing is recorded
\* before it stages; one that is to create the head has staged what it needs.
HeldInv(c) ==
  /\ job[c].pc \in InLease => job[c].head.rev > 0
  /\ job[c].pc = "leased" => \A x \in store : x.kind \in ChainKinds => x.by # job[c].head.rev
  /\ job[c].pc = "create" /\ head = NoHead => InitialRecords \subseteq store
OwnRevisions ==
  \A c, d \in Callers :
    c # d /\ job[c].pc \in InLease /\ job[d].pc \in InLease => job[c].head.rev # job[d].head.rev

\* The records s hold the chain of the head h, and its outputs once it is completed; a
\* clean-up prepared for the head as it ended protects them.
Kept(h, s, cl) == \E b, c :
  /\ Linked(h, b, c, s)
  /\ h.status = "completed" => Outputs \subseteq s
  /\ h.status \in Terminal /\ cl.head.rev = h.rev =>
       /\ Links(b, c, h.n) \subseteq cl.protect
       /\ h.status = "completed" => Outputs \subseteq cl.protect

HeadChainInv ==
  /\ Known(store, head.rev)
  /\ \A c \in Callers : HeldInv(c)
  /\ OwnRevisions
  /\ cleaner.head.rev <= head.rev
  /\ head # NoHead => Kept(head, store, cleaner)

LEMMA HeadChainHolds ==
  ASSUME CompositionSchedulerInv, HeadChainInv
  PROVE  HeadChainLoads
<1>. SUFFICES ASSUME head # NoHead
              PROVE  LET h == IF head.status = "completed"
                              THEN [head EXCEPT !.retained = @ - Cardinality(Outputs)] ELSE head
                     IN ChainLoads(h) /\ (head.status = "completed" => Outputs \subseteq store)
  BY DEF HeadChainLoads
<1>1. head \in HeadType /\ store \subseteq RecordType /\ IsFiniteSet(store)
  BY StillState DEF StoreInv
<1>2. PICK b, c : Linked(head, b, c, store) /\ (head.status = "completed" => Outputs \subseteq store)
  BY DEF HeadChainInv, Kept
<1>3. Known(store, head.rev)
  BY DEF HeadChainInv
<1>4. CASE head.status # "completed"
  <2>1. ChainLoads(head)
    BY <1>1, <1>2, <1>3, <1>4, LinkedLoads
  <2>. QED
    BY <1>4, <2>1
<1>5. CASE head.status = "completed"
  \* The same chain, under a head that retains nothing else.
  <2>1. Cardinality(Links(b, c, head.n)) \in Nat /\ Cardinality(Outputs) \in Nat
    BY <1>1, <1>2, FS_Subset, FS_CardinalityType, OutputsCount DEF Linked
  <2>2. head.retained = Cardinality(Links(b, c, head.n)) + Cardinality(Outputs)
    BY <1>2, <1>5 DEF Linked, OutputsKept
  <2>3. PICK left \in 0 .. MaxBytes : left = Cardinality(Links(b, c, head.n))
    <3>1. head.retained <= MaxBytes /\ MaxBytes \in Nat
      BY <1>1, HeadFields, Limits
    <3>2. Cardinality(Links(b, c, head.n)) \in 0 .. MaxBytes
      BY <2>1, <2>2, <3>1
    <3>. QED
      BY <3>2
  <2>. DEFINE h == [head EXCEPT !.retained = left]
              g == [h EXCEPT !.status = "blocked"]
  <2>4. h = [head EXCEPT !.retained = @ - Cardinality(Outputs)]
    BY <1>1, <2>1, <2>2, <2>3 DEF HeadType
  <2>5. /\ g \in HeadType /\ g.n = h.n /\ g.receiptTip = h.receiptTip /\ g.chunkTip = h.chunkTip
        /\ g.retained = h.retained /\ g.status = "blocked"
    BY <1>1 DEF HeadType, Terminal
  <2>6. h.n = head.n /\ h.receiptTip = head.receiptTip /\ h.chunkTip = head.chunkTip
        /\ h.retained = left
    BY <1>1 DEF HeadType
  <2>. HIDE DEF h, g
  <2>7. Linked(g, b, c, store)
    BY <1>2, <2>1, <2>3, <2>5, <2>6 DEF Linked, OutputsKept
  <2>8. ChainLoads(g)
    BY <1>1, <1>3, <2>5, <2>7, LinkedLoads
  <2>9. ChainLoads(h)
    BY <2>5, <2>8 DEF ChainLoads, ChainRecords, Receipts, Chunks, Windows, ChainOf
  <2>. QED
    BY <1>2, <1>5, <2>4, <2>9
<1>. QED
  BY <1>4, <1>5

-----------------------------------------------------------------------------
(* What keeps the chain of the head. *)

\* A revision that is no commit.
SameLinks(g, h) ==
  /\ SameChain(g, h)
  /\ \/ g.rev = h.rev /\ g.status = h.status
     \/ g.rev > h.rev /\ g.status # "completed" /\ h.status # "completed"

LEMMA KeptAgain ==
  ASSUME NEW g \in HeadType, NEW h \in HeadType, SameLinks(g, h), NEW s, NEW cl,
         cl.head.rev \in Int, cl.head.rev <= h.rev, Kept(h, s, cl)
  PROVE  Kept(g, s, cl)
<1>1. PICK b, c : /\ Linked(h, b, c, s) /\ (h.status = "completed" => Outputs \subseteq s)
                  /\ h.status \in Terminal /\ cl.head.rev = h.rev =>
                       /\ Links(b, c, h.n) \subseteq cl.protect
                       /\ h.status = "completed" => Outputs \subseteq cl.protect
  BY DEF Kept
<1>2. Linked(g, b, c, s)
  BY <1>1 DEF Linked, SameLinks, SameChain, OutputsKept
<1>3. g.status = "completed" => Outputs \subseteq s
  BY <1>1 DEF SameLinks
<1>4. g.status \in Terminal /\ cl.head.rev = g.rev =>
        /\ Links(b, c, g.n) \subseteq cl.protect
        /\ g.status = "completed" => Outputs \subseteq cl.protect
  <2>. SUFFICES ASSUME cl.head.rev = g.rev PROVE g.rev = h.rev /\ g.status = h.status /\ g.n = h.n
    BY <1>1
  <2>. QED
    BY HeadFields DEF SameLinks, SameChain
<1>. QED
  BY <1>2, <1>3, <1>4 DEF Kept

\* More records hold what fewer held.
LEMMA KeptByMore ==
  ASSUME NEW h, NEW s, NEW t, s \subseteq t, NEW cl, Kept(h, s, cl)
  PROVE  Kept(h, t, cl)
  BY DEF Kept, Linked

\* A step that commits nothing, stages nothing and takes no lease.
LinkStill == \/ UNCHANGED head
             \/ head # NoHead /\ SameLinks(head', head)
JobsShrink == \A c \in Callers :
  /\ job'[c].pc \in InLease => job[c].pc \in InLease /\ job'[c].head = job[c].head
  /\ job'[c].pc = "leased" => job[c].pc = "leased"
  /\ job'[c].pc = "create" => job[c].pc = "create"

LEMMA Revisions ==
  ASSUME CompositionSchedulerInv
  PROVE  /\ head \in HeadType /\ head.rev \in Int /\ cleaner.head.rev \in Int
         /\ cleaner.head \in HeadType /\ store \subseteq RecordType /\ IsFiniteSet(store)
         /\ head # NoHead <=> head.rev >= 0
         /\ head = NoHead => head.rev = None
<1>1. head \in HeadType /\ cleaner.head \in HeadType /\ store \subseteq RecordType /\ IsFiniteSet(store)
  BY StillState DEF StoreInv
<1>2. head = NoHead \/ Parsed(head)
  BY DEF CompositionSchedulerInv
<1>3. head.rev \in Int /\ cleaner.head.rev \in Int /\ head.rev >= None
  BY <1>1, HeadFields
<1>. QED
  BY <1>1, <1>2, <1>3, NoHeadTyped DEF Parsed, None

LEMMA StillStep ==
  ASSUME CompositionSchedulerInv, CompositionSchedulerInv', HeadChainInv,
         UNCHANGED <<store, cleaner>>, LinkStill, JobsShrink
  PROVE  HeadChainInv'
<1>1. /\ head \in HeadType /\ head.rev \in Int /\ cleaner.head.rev \in Int
      /\ store \subseteq RecordType /\ (head # NoHead <=> head.rev >= 0)
  BY Revisions
<1>2. head' \in HeadType /\ head'.rev \in Int /\ (head' # NoHead <=> head'.rev >= 0)
  <2>1. head' \in HeadType /\ (head' = NoHead \/ head'.rev # None)
    BY DEF CompositionSchedulerInv, CompositionSchedulerTypeOK, Parsed
  <2>2. head'.rev \in Int /\ head'.rev >= None
    BY <2>1, HeadFields
  <2>. QED
    BY <2>1, <2>2, NoHeadTyped DEF None
<1>3. head.rev <= head'.rev /\ (head' = NoHead => head = NoHead)
  BY <1>1, <1>2 DEF LinkStill, SameLinks
<1>4. Known(store, head'.rev)
  BY <1>1, <1>2, <1>3, FewerKnown DEF HeadChainInv
<1>5. \A c \in Callers : HeldInv(c)'
  BY <1>3 DEF HeadChainInv, HeldInv, JobsShrink, InLease
<1>6. OwnRevisions'
  BY DEF HeadChainInv, OwnRevisions, JobsShrink
<1>7. cleaner'.head.rev <= head'.rev
  BY <1>1, <1>2, <1>3 DEF HeadChainInv
<1>8. ASSUME head' # NoHead PROVE Kept(head', store, cleaner)
  <2>1. head # NoHead /\ SameLinks(head', head)
    BY <1>8 DEF LinkStill, SameLinks, SameChain
  <2>2. Kept(head, store, cleaner) /\ cleaner.head.rev <= head.rev
    BY <2>1 DEF HeadChainInv
  <2>. QED
    BY <1>1, <1>2, <2>1, <2>2, KeptAgain
<1>. QED
  BY <1>4, <1>5, <1>6, <1>7, <1>8 DEF HeadChainInv

LEMMA DoneShrinks ==
  ASSUME CompositionSchedulerInv, NEW c \in Callers, Done(c)
  PROVE  JobsShrink
<1>1. job'[c] = Idle /\ \A d \in Callers \ {c} : job'[d] = job[d]
  BY DoneJob
<1>. QED
  BY <1>1, IdleTyped DEF JobsShrink, InLease

\* A caller that goes on to clear its lease.
LEMMA ClearShrinks ==
  ASSUME CompositionSchedulerInv, NEW c \in Callers, job[c].pc \in InLease,
         Go(c, "clear") \/ \E terminal \in BOOLEAN : Abandon(c, terminal)
  PROVE  JobsShrink
<1>1. job \in [Callers -> JobType] /\ job[c] \in JobType
  BY Typed DEF CompositionSchedulerInv
<1>2. /\ job'[c].pc = "clear" /\ job'[c].head = job[c].head
      /\ \A d \in Callers \ {c} : job'[d] = job[d]
  BY <1>1 DEF Go, Abandon, JobType
<1>. QED
  BY <1>2 DEF JobsShrink, InLease

LEMMA RevisionLinks ==
  ASSUME NEW h \in HeadType
  PROVE  /\ SameChain(Revised(h), h) /\ Revised(h).rev = h.rev + 1
         /\ Revised(h).status = h.status
         /\ SameChain(Released(h), h) /\ Released(h).rev = h.rev + 1
         /\ Released(h).status = h.status
         /\ SameChain(Leased(h), h) /\ Leased(h).rev = h.rev + 1
         /\ Leased(h).status = h.status
  BY DEF SameChain, Revised, Released, Leased, HeadType

LEMMA LifecycleLinks ==
  ASSUME CompositionSchedulerInv, Lifecycle
  PROVE  LinkStill
<1>1. head.status \in Active \/ head.leased
  BY DEF Lifecycle, RecoverExpiredLease, ScheduleRetry, Cancel, Expire
<1>2. head \in HeadType /\ head.status \in Active /\ head # NoHead /\ head.rev + 1 > head.rev
  BY <1>1, ActiveHead, NoHeadTyped, HeadFields DEF Parsed
<1>3. head.status # "completed"
  BY <1>2 DEF Active
<1>4. ASSUME NEW status \in {"cancelled", "expired"}, Move(Ended(status)) PROVE LinkStill
  <2>1. head' = Ended(status) /\ SameChain(Ended(status), head)
        /\ Ended(status).rev = head.rev + 1 /\ Ended(status).status = status
    BY <1>2, <1>4 DEF Move, Ended, Released, Revised, HeadType, SameChain
  <2>. QED
    BY <1>2, <1>3, <2>1 DEF LinkStill, SameLinks
<1>5. ASSUME NEW deferred \in BOOLEAN,
             Move([Released(head) EXCEPT !.deferred = deferred, !.retryable = TRUE])
      PROVE  LinkStill
  <2>1. head'.status = head.status /\ SameChain(head', head) /\ head'.rev = head.rev + 1
    BY <1>2, <1>5 DEF Move, Released, Revised, HeadType, SameChain
  <2>. QED
    BY <1>2, <1>3, <2>1 DEF LinkStill, SameLinks
<1>6. CASE ScheduleRetry
  <2>1. head'.status = head.status /\ SameChain(head', head) /\ head'.rev = head.rev + 1
    BY <1>2, <1>6 DEF ScheduleRetry, Move, Revised, HeadType, SameChain
  <2>. QED
    BY <1>2, <1>3, <2>1 DEF LinkStill, SameLinks
<1>. QED
  BY <1>4, <1>5, <1>6 DEF Lifecycle, RecoverExpiredLease, Cancel, Expire

LEMMA TimeLinks ==
  ASSUME CompositionSchedulerInv, Lapse \/ RetryDue
  PROVE  LinkStill
<1>1. head \in HeadType /\ head # NoHead
  BY Revisions DEF Lapse, RetryDue, NoHead
<1>2. SameChain(head', head) /\ head'.rev = head.rev /\ head'.status = head.status
  BY <1>1 DEF Lapse, RetryDue, HeadType, SameChain
<1>. QED
  BY <1>1, <1>2 DEF LinkStill, SameLinks

LEMMA ClearLeaseLinks ==
  ASSUME CompositionSchedulerInv, NEW c \in Callers, ClearLease(c)
  PROVE  LinkStill
<1>. DEFINE h == job[c].head
<1>1. job[c].pc = "clear"
  BY DEF ClearLease, At
<1>2. CASE ~Exact(h)
  BY <1>2 DEF ClearLease, LinkStill
<1>3. CASE Exact(h)
  <2>1. /\ SameChain(head, h) /\ head.rev = h.rev /\ head.status = h.status /\ h \in HeadType
        /\ head.status \in Active /\ head # NoHead /\ head \in HeadType
    BY <1>1, <1>3, ExactLease DEF InLease, Parsed
  <2>2. PICK retryable \in BOOLEAN : retryable = ~job[c].terminal
    OBVIOUS
  <2>. DEFINE g == Released(h)
              status == IF job[c].terminal THEN "blocked" ELSE g.status
  <2>3. head' = [g EXCEPT !.retryable = retryable, !.status = status]
    BY <1>3, <2>2 DEF ClearLease, Move
  <2>4. g.status = h.status /\ SameChain(g, h) /\ g.rev = h.rev + 1
    BY <2>1, RevisionLinks
  <2>5. SameChain(head', g) /\ head'.rev = g.rev /\ head'.status = status
    <3>1. g = [Revised(h) EXCEPT !.leased = FALSE, !.retryable = FALSE]
      BY DEF Released
    <3>. QED
      BY <2>1, <2>3, <3>1 DEF Revised, HeadType, SameChain
  <2>6. status # "completed" /\ head.status # "completed" /\ head.rev + 1 > head.rev
    BY <2>1, <2>4, HeadFields DEF Active
  <2>. HIDE DEF g, status
  <2>. QED
    BY <2>1, <2>4, <2>5, <2>6 DEF LinkStill, SameLinks, SameChain
<1>. QED
  BY <1>2, <1>3

LEMMA InitChain == Init => HeadChainInv
<1>. SUFFICES ASSUME Init PROVE HeadChainInv
  OBVIOUS
<1>1. store = {} /\ head = NoHead /\ cleaner.head = NoHead /\ \A c \in Callers : job[c] = Idle
  BY DEF Init
<1>2. Known(store, head.rev)
  BY <1>1 DEF Known
<1>3. (\A c \in Callers : HeldInv(c)) /\ OwnRevisions
  BY <1>1, IdleTyped DEF HeldInv, OwnRevisions, InLease
<1>4. cleaner.head.rev <= head.rev
  BY <1>1, NoHeadTyped DEF None
<1>. QED
  BY <1>1, <1>2, <1>3, <1>4 DEF HeadChainInv

LEMMA AcquireChain ==
  ASSUME CompositionSchedulerInv, CompositionSchedulerInv', HeadChainInv,
         NEW c \in Callers, NEW r \in Requests, Acquire(c, r)
  PROVE  HeadChainInv'
<1>1. /\ head.status \in Active /\ head' = Leased(head)
      /\ job' = [job EXCEPT ![c] = [Idle EXCEPT !.pc = "leased", !.r = r, !.head = Leased(head)]]
      /\ UNCHANGED <<store, cleaner>>
  BY DEF Acquire, Open, Move, Others
<1>2. /\ head \in HeadType /\ head.rev \in Int /\ head.rev >= 0 /\ head # NoHead
      /\ cleaner.head.rev \in Int /\ store \subseteq RecordType /\ head.status # "completed"
  BY <1>1, Revisions, NoHeadTyped DEF Active
<1>3. /\ SameChain(head', head) /\ head'.rev = head.rev + 1 /\ head'.status = head.status
      /\ head' \in HeadType
  BY <1>1, <1>2, RevisionLinks DEF CompositionSchedulerInv, CompositionSchedulerTypeOK
<1>4. /\ job'[c].pc = "leased" /\ job'[c].head = head'
      /\ \A d \in Callers \ {c} : job'[d] = job[d]
  BY <1>1, Typed DEF CompositionSchedulerInv, Idle
<1>5. Known(store, head'.rev)
  BY <1>2, <1>3, FewerKnown DEF HeadChainInv
<1>6. \A d \in Callers : job[d].pc \in InLease => job[d].head.rev <= head.rev /\ job[d].head.rev \in Int
  BY JobFields, HeadFields DEF JobInv, LeaseInv
<1>7. \A x \in store : x.kind \in ChainKinds => x.by # head'.rev
  <2>1. \A x \in store : x.kind \in ChainKinds => x.by = 0 \/ x.by <= head.rev
    BY InitialFields DEF HeadChainInv, Known
  <2>2. \A x \in store : x.by \in Int
    BY <1>2, Limits DEF RecordType
  <2>. QED
    BY <1>2, <1>3, <2>1, <2>2
<1>8. \A d \in Callers : HeldInv(d)'
  <2>1. HeldInv(c)'
    BY <1>1, <1>2, <1>3, <1>4, <1>7 DEF HeldInv
  <2>2. ASSUME NEW d \in Callers \ {c} PROVE HeldInv(d)'
    <3>1. head' # NoHead
      BY <1>2, <1>3, NoHeadTyped DEF None
    <3>2. HeldInv(d) /\ job'[d] = job[d] /\ store' = store
      BY <1>1, <1>4 DEF HeadChainInv
    <3>. QED
      BY <3>1, <3>2 DEF HeldInv
  <2>. QED
    BY <2>1, <2>2
<1>9. OwnRevisions'
  BY <1>2, <1>3, <1>4, <1>6 DEF OwnRevisions, HeadChainInv
<1>10. cleaner'.head.rev <= head'.rev
  BY <1>1, <1>2, <1>3 DEF HeadChainInv
<1>11. Kept(head', store, cleaner)
  <2>1. SameLinks(head', head)
    BY <1>2, <1>3 DEF SameLinks
  <2>. QED
    BY <1>2, <1>3, <2>1, KeptAgain DEF HeadChainInv
<1>. QED
  BY <1>1, <1>5, <1>8, <1>9, <1>10, <1>11 DEF HeadChainInv

LEMMA StageInitialChain ==
  ASSUME CompositionSchedulerInv, HeadChainInv, NEW c \in Callers, StageInitial(c)
  PROVE  HeadChainInv'
<1>1. /\ head = NoHead /\ job[c].pc = "idle" /\ Go(c, "create")
      /\ store' = store \cup InitialRecords /\ UNCHANGED <<head, cleaner>>
  BY DEF StageInitial, At, Put, Others
<1>2. job'[c].pc = "create" /\ \A d \in Callers \ {c} : job'[d] = job[d]
  <2>1. job \in [Callers -> JobType] /\ job[c] \in JobType
    BY Typed DEF CompositionSchedulerInv
  <2>. QED
    BY <1>1, <2>1 DEF Go, JobType
<1>3. \A d \in Callers : job[d].pc \notin InLease
  BY <1>1, JobFields, NoHeadTyped DEF Parsed
<1>4. Known(store', head.rev)
  BY <1>1, Revisions, InitialKnown DEF HeadChainInv
<1>5. \A d \in Callers : HeldInv(d)'
  BY <1>1, <1>2, <1>3 DEF HeldInv, HeadChainInv, InLease
<1>6. OwnRevisions'
  BY <1>2, <1>3 DEF OwnRevisions, InLease
<1>. QED
  BY <1>1, <1>4, <1>5, <1>6 DEF HeadChainInv

\* A step that ends the call of a caller with the head it made.
LEMMA MadeHeadChain ==
  ASSUME CompositionSchedulerInv, HeadChainInv, NEW c \in Callers, Done(c),
         UNCHANGED <<store, cleaner>>, head'.rev = head.rev + 1, Kept(head', store, cleaner)
  PROVE  HeadChainInv'
<1>1. /\ head.rev \in Int /\ head.rev >= None /\ cleaner.head.rev \in Int
      /\ store \subseteq RecordType
  BY Revisions, HeadFields
<1>2. head' # NoHead
  BY <1>1, NoHeadTyped DEF None
<1>3. JobsShrink
  BY DoneShrinks
<1>4. Known(store, head'.rev)
  BY <1>1, FewerKnown DEF HeadChainInv
<1>5. \A d \in Callers : HeldInv(d)'
  BY <1>2, <1>3 DEF HeadChainInv, HeldInv, JobsShrink, InLease
<1>6. OwnRevisions'
  BY <1>3 DEF HeadChainInv, OwnRevisions, JobsShrink
<1>7. cleaner'.head.rev <= head'.rev
  BY <1>1 DEF HeadChainInv
<1>. QED
  BY <1>2, <1>4, <1>5, <1>6, <1>7 DEF HeadChainInv

LEMMA CreateHeadChain ==
  ASSUME CompositionSchedulerInv, CompositionSchedulerInv', HeadChainInv,
         NEW c \in Callers, CreateHead(c)
  PROVE  HeadChainInv'
<1>1. job[c].pc = "create" /\ Done(c) /\ UNCHANGED <<store, cleaner>>
  BY DEF CreateHead, At, Others
<1>2. CASE head # NoHead
  BY <1>1, <1>2, DoneShrinks, StillStep DEF CreateHead, LinkStill
<1>3. CASE head = NoHead
  <2>1. head' = NewHead /\ InitialRecords \subseteq store
    BY <1>1, <1>3 DEF CreateHead, HeadChainInv, HeldInv
  <2>2. /\ NewHead.n = 0 /\ NewHead.rev = 0 /\ NewHead.status \in Active
        /\ NewHead.receiptTip = None /\ NewHead.chunkTip = FirstTip
        /\ NewHead.retained = Cardinality(InitialRecords)
    BY NewHeadParsed DEF NewHead, NoHead, FirstTip
  <2>. DEFINE b == [k \in 0 .. 0 |-> None]
              t == [k \in 0 .. 0 |-> FirstTip]
  <2>3. Attempts(b, t, 0)
    BY Limits DEF Attempts, FirstTip, None
  <2>4. Links(b, t, 0) = InitialRecords
    BY DEF Links
  <2>5. Linked(NewHead, b, t, store)
    <3>1. b[0] = None /\ t[0] = FirstTip
      OBVIOUS
    <3>. HIDE DEF b, t
    <3>2. OutputsKept(NewHead) = 0 /\ Cardinality(InitialRecords) \in Nat
      BY <2>2, InitialCount DEF OutputsKept, Active
    <3>. QED
      BY <2>1, <2>2, <2>3, <2>4, <3>1, <3>2 DEF Linked
  <2>6. NewHead.status \notin Terminal /\ NewHead.status # "completed"
    BY <2>2 DEF Active, Terminal
  <2>7. Kept(head', store, cleaner)
    <3>. HIDE DEF b, t
    <3>. QED
      BY <2>1, <2>5, <2>6 DEF Kept
  <2>8. head'.rev = head.rev + 1
    BY <1>3, <2>1, <2>2, NoHeadTyped DEF None
  <2>. QED
    BY <1>1, <2>7, <2>8, MadeHeadChain
<1>. QED
  BY <1>2, <1>3

LEMMA StageOrAbandonChain ==
  ASSUME CompositionSchedulerInv, CompositionSchedulerInv', HeadChainInv, NEW c \in Callers,
         job[c].pc = "leased", StageOrAbandon(c, Batch(job[c].head)), UNCHANGED <<head, cleaner>>
  PROVE  HeadChainInv'
<1>. DEFINE h == job[c].head
            batch == Batch(h)
<1>1. CASE Abandon(c, TRUE)
  <2>1. PICK terminal \in BOOLEAN : terminal = TRUE
    OBVIOUS
  <2>. QED
    BY <1>1, <2>1, ClearShrinks, StillStep DEF Abandon, InLease, LinkStill
<1>2. CASE Put(batch) /\ Go(c, "commit")
  <2>1. store' = store \cup batch
    BY <1>2 DEF Put
  <2>2. /\ job'[c].pc = "commit" /\ job'[c].head = h
        /\ \A d \in Callers \ {c} : job'[d] = job[d]
    <3>1. job \in [Callers -> JobType] /\ job[c] \in JobType
      BY Typed DEF CompositionSchedulerInv
    <3>. QED
      BY <1>2, <3>1 DEF Go, JobType
  <2>3. /\ Parsed(h) /\ h.status \in Active /\ h \in HeadType /\ h.n \in Nat
        /\ Parsed(head) /\ head # NoHead /\ h.rev <= head.rev /\ h.rev > 0
        /\ \A x \in store : x.kind \in ChainKinds => x.by # h.rev
    BY JobFields, HeadFields DEF InLease, JobInv, LeaseInv, HeadChainInv, HeldInv
  <2>4. h.status # "ready-to-finalize" => h.n < Length
    BY <2>3, HeadFields, StatusFollows, Limits DEF Parsed, HeadParses
  <2>5. Known(store', head.rev)
    BY <2>1, <2>3, <2>4, Revisions, TransitionKnown, OutputsKnown DEF Batch, HeadChainInv
  <2>6. \A x \in batch : x.kind \in ChainKinds => x.by = h.rev
    BY TransitionFields, OutputFields DEF Batch, ChainKinds
  <2>7. \A d \in Callers : HeldInv(d)'
    <3>. HIDE DEF batch, h
    <3>1. HeldInv(c)'
      BY <2>2, <2>3 DEF HeldInv
    <3>2. ASSUME NEW d \in Callers \ {c} PROVE HeldInv(d)'
      <4>1. HeldInv(d) /\ job'[d] = job[d]
        BY <2>2 DEF HeadChainInv
      <4>2. job[d].pc = "leased" => job[d].head.rev # h.rev
        BY DEF HeadChainInv, OwnRevisions, InLease, h
      <4>. QED
        BY <2>1, <2>3, <2>6, <4>1, <4>2 DEF HeldInv
    <3>. QED
      BY <3>1, <3>2
  <2>8. OwnRevisions'
    <3>1. \A d \in Callers : job'[d].head = job[d].head /\ (job'[d].pc \in InLease => job[d].pc \in InLease)
      BY <2>2 DEF InLease
    <3>. QED
      BY <3>1 DEF HeadChainInv, OwnRevisions
  <2>9. Kept(head', store', cleaner')
    BY <2>1, <2>3, KeptByMore DEF HeadChainInv
  <2>. QED
    BY <2>5, <2>7, <2>8, <2>9 DEF HeadChainInv
<1>. QED
  BY <1>1, <1>2 DEF StageOrAbandon, Stage

LEMMA AdvanceCoreChain ==
  ASSUME CompositionSchedulerInv, CompositionSchedulerInv', HeadChainInv, NEW c \in Callers,
         AdvanceCore(c) \/ FinalizeCore(c)
  PROVE  HeadChainInv'
<1>1. job[c].pc = "leased" /\ UNCHANGED <<head, cleaner>>
  BY DEF AdvanceCore, FinalizeCore, At
<1>2. ASSUME NEW terminal \in BOOLEAN, Abandon(c, terminal) PROVE HeadChainInv'
  BY <1>1, <1>2, ClearShrinks, StillStep DEF Abandon, InLease, LinkStill
<1>3. PICK terminal \in BOOLEAN : terminal = TRUE
  OBVIOUS
<1>4. \/ StageOrAbandon(c, Batch(job[c].head))
      \/ Abandon(c, terminal) \/ \E t \in BOOLEAN : Abandon(c, t)
  BY <1>3 DEF AdvanceCore, FinalizeCore, Batch
<1>. QED
  BY <1>1, <1>2, <1>4, StageOrAbandonChain

LEMMA CommitChain ==
  ASSUME CompositionSchedulerInv, CompositionSchedulerInv', HeadChainInv,
         NEW c \in Callers, Commit(c)
  PROVE  HeadChainInv'
<1>. DEFINE h == job[c].head
<1>1. job[c].pc = "commit" /\ UNCHANGED <<store, cleaner>>
  BY DEF Commit, At, Others
<1>2. CASE Answered(job[c].r, h) \/ ~Exact(h)
  <2>1. (Go(c, "clear") \/ Done(c)) /\ UNCHANGED head
    BY <1>2 DEF Commit
  <2>2. JobsShrink
    BY <1>1, <2>1, ClearShrinks, DoneShrinks DEF InLease
  <2>. QED
    BY <1>1, <2>1, <2>2, StillStep DEF LinkStill
<1>3. CASE ~Answered(job[c].r, h) /\ Exact(h)
  <2>1. CommitRetained(h)
    BY <1>1, <1>3, StagedIsRetained
  <2>2. /\ Done(c)
        /\ IF h.status = "ready-to-finalize"
           THEN CommitFinalization(job[c].r, h) ELSE CommitTransition(job[c].r, h)
    BY <1>3, <2>1 DEF Commit
  <2>3. /\ Parsed(h) /\ Parsed(head) /\ SameChain(head, h) /\ head.rev = h.rev
        /\ head.status = h.status /\ h.status \in Active /\ head # NoHead
        /\ h.retained + Cardinality(Batch(h)) <= MaxBytes /\ Batch(h) \subseteq store
        /\ head.status # "completed" /\ h.status # "completed"
    BY <1>1, <1>3, ExactLease DEF InLease, StagedInv, Active
  <2>4. /\ h \in HeadType /\ head \in HeadType /\ h.rev > 0 /\ IsFiniteSet(store)
        /\ cleaner.head.rev \in Int /\ head.rev \in Int /\ cleaner.head.rev <= head.rev
    BY <1>1, <2>3, Revisions DEF Parsed, HeadChainInv, HeldInv, InLease
  <2>5. PICK b, t : Linked(head, b, t, store)
    BY <2>3 DEF HeadChainInv, Kept
  <2>6. CASE h.status = "ready-to-finalize"
    <3>1. head' = Completed(h) /\ Completed(h).rev <= MaxRevision
      BY <2>2, <2>6 DEF CommitFinalization, Move
    <3>2. h.retained + Cardinality(Outputs) <= MaxBytes /\ Outputs \subseteq store
      BY <2>3, <2>6 DEF Batch
    <3>3. Completed(h).status = "completed"
      BY <2>3, <2>6, <3>1, <3>2, CompletedHead
    <3>. DEFINE g == Completed(h)
    <3>4. /\ g.retained = h.retained + Cardinality(Outputs) /\ g.receiptTip = h.receiptTip
          /\ g.chunkTip = h.chunkTip /\ g.n = h.n /\ g.rev = h.rev + 1
      BY <2>4, AdvancedFields
    <3>. HIDE DEF g
    <3>5. /\ h.retained = Cardinality(Links(b, t, h.n)) /\ Cardinality(Links(b, t, h.n)) \in Nat
          /\ Attempts(b, t, h.n) /\ b[h.n] = h.receiptTip /\ t[h.n] = h.chunkTip
          /\ Links(b, t, h.n) \subseteq store
      <4>1. Cardinality(Links(b, t, h.n)) \in Nat /\ h.n = head.n
        BY <2>3, <2>4, <2>5, FS_Subset, FS_CardinalityType DEF Linked, SameChain
      <4>2. head.retained = Cardinality(Links(b, t, head.n)) + 0
        BY <2>3, <2>5 DEF Linked, OutputsKept
      <4>. QED
        BY <2>3, <2>5, <4>1, <4>2 DEF Linked, SameChain
    <3>6. Linked(g, b, t, store)
      <4>1. OutputsKept(g) = Cardinality(Outputs)
        BY <3>3 DEF OutputsKept, g
      <4>. QED
        BY <3>4, <3>5, <4>1 DEF Linked
    <3>7. cleaner.head.rev # g.rev
      BY <2>3, <2>4, <3>4
    <3>8. Kept(head', store, cleaner)
      BY <3>1, <3>2, <3>6, <3>7 DEF Kept, g
    <3>. QED
      BY <1>1, <2>2, <2>3, <3>1, <3>4, <3>8, MadeHeadChain DEF g
  <2>7. CASE h.status # "ready-to-finalize"
    <3>1. head' = Advanced(h) /\ Advanced(h).rev <= MaxRevision
      BY <2>2, <2>7 DEF CommitTransition, Move
    <3>2. h.retained + Cardinality(TransitionRecords(h)) <= MaxBytes
          /\ TransitionRecords(h) \subseteq store
      BY <2>3, <2>7 DEF Batch
    <3>3. Advanced(h).status \in Active /\ h.n < Length /\ Advanced(h).rev = h.rev + 1
      BY <2>3, <2>7, <3>1, <3>2, AdvancedHead
    <3>4. Advanced(h).status # "completed" /\ Advanced(h).status \notin Terminal
      BY <3>3 DEF Active, Terminal
    <3>5. \E b2, t2 : Linked(Advanced(h), b2, t2, store)
      BY <2>3, <2>4, <2>5, <3>2, <3>3, <3>4, LinkedAdvances
    <3>6. Kept(head', store, cleaner)
      BY <3>1, <3>4, <3>5 DEF Kept
    <3>. QED
      BY <1>1, <2>2, <2>3, <3>1, <3>3, <3>6, MadeHeadChain
  <2>. QED
    BY <2>6, <2>7
<1>. QED
  BY <1>2, <1>3

LEMMA PrepareCleanupChain ==
  ASSUME CompositionSchedulerInv, HeadChainInv, PrepareCleanup
  PROVE  HeadChainInv'
<1>1. /\ head.leased \/ head.status \in Terminal
      /\ cleaner' = [head |-> head,
                     protect |-> ChainRecords(head) \cup (store \cap InitialRecords)
                       \cup (IF head.status = "completed" THEN Outputs ELSE {})]
      /\ UNCHANGED <<head, store, job>>
  BY DEF PrepareCleanup
<1>2. head # NoHead /\ head \in HeadType /\ store \subseteq RecordType /\ head.rev \in Int
  <2>1. NoHead.leased = FALSE /\ NoHead.status \notin Terminal
    BY DEF NoHead, Terminal
  <2>. QED
    BY <1>1, <2>1, Revisions
<1>3. PICK b, c : Linked(head, b, c, store) /\ (head.status = "completed" => Outputs \subseteq store)
  BY <1>2 DEF HeadChainInv, Kept
<1>4. ChainRecords(head) = Links(b, c, head.n)
  BY <1>2, <1>3, LinkedReaches DEF HeadChainInv
<1>5. /\ Links(b, c, head.n) \subseteq cleaner'.protect
      /\ head.status = "completed" => Outputs \subseteq cleaner'.protect
  BY <1>1, <1>4
<1>6. Kept(head, store, cleaner')
  BY <1>3, <1>5 DEF Kept
<1>7. (\A c1 \in Callers : HeldInv(c1)') /\ OwnRevisions'
  BY <1>1 DEF HeadChainInv, HeldInv, OwnRevisions
<1>8. cleaner'.head.rev <= head'.rev
  BY <1>1, <1>2
<1>. QED
  BY <1>1, <1>6, <1>7, <1>8 DEF HeadChainInv

LEMMA CleanupChain ==
  ASSUME CompositionSchedulerInv, HeadChainInv, CleanupUnreachable
  PROVE  HeadChainInv'
<1>1. head.status \in Terminal /\ Exact(cleaner.head) /\ UNCHANGED <<head, job, cleaner>>
  BY DEF CleanupUnreachable, Others
<1>2. PICK garbage \in SUBSET (store \ cleaner.protect) : store' = store \ garbage
  BY DEF CleanupUnreachable
<1>3. head # NoHead /\ head \in HeadType /\ store \subseteq RecordType /\ head.rev \in Int
  <2>1. NoHead.status \notin Terminal
    BY DEF NoHead, Terminal
  <2>. QED
    BY <1>1, <2>1, Revisions
<1>4. cleaner.head.rev = head.rev
  BY <1>1, Revisions, ExactFields DEF Exact
<1>5. PICK b, c : /\ Linked(head, b, c, store) /\ (head.status = "completed" => Outputs \subseteq store)
                  /\ Links(b, c, head.n) \subseteq cleaner.protect
                  /\ head.status = "completed" => Outputs \subseteq cleaner.protect
  BY <1>1, <1>3, <1>4 DEF HeadChainInv, Kept
<1>6. \A x \in store : x \in cleaner.protect => x \in store'
  BY <1>2
<1>7. Linked(head, b, c, store')
  BY <1>5, <1>6 DEF Linked
<1>8. Kept(head, store', cleaner)
  BY <1>5, <1>6, <1>7 DEF Kept
<1>9. Known(store', head.rev)
  BY <1>2, <1>3, FewerKnown DEF HeadChainInv
<1>10. (\A d \in Callers : HeldInv(d)') /\ OwnRevisions'
  BY <1>1, <1>2, <1>3 DEF HeadChainInv, HeldInv, OwnRevisions
<1>. QED
  BY <1>1, <1>8, <1>9, <1>10 DEF HeadChainInv

LEMMA StepChain ==
  ASSUME CompositionSchedulerInv, HeadChainInv, [Next]_vars
  PROVE  HeadChainInv'
<1>. CompositionSchedulerInv'
  BY StepInv
<1>1. ASSUME NEW c \in Callers, StageInitial(c) \/ CreateHead(c) PROVE HeadChainInv'
  BY <1>1, StageInitialChain, CreateHeadChain
<1>2. ASSUME NEW c \in Callers, AdvanceCore(c) \/ FinalizeCore(c) \/ Commit(c) PROVE HeadChainInv'
  BY <1>2, AdvanceCoreChain, CommitChain
<1>3. ASSUME NEW c \in Callers, ClearLease(c) PROVE HeadChainInv'
  <2>1. Done(c) /\ UNCHANGED <<store, cleaner>>
    BY <1>3 DEF ClearLease, Others
  <2>. QED
    BY <1>3, <2>1, ClearLeaseLinks, DoneShrinks, StillStep
<1>4. ASSUME NEW c \in Callers, GiveUp(c) PROVE HeadChainInv'
  <2>1. Done(c) /\ UNCHANGED <<head, store, cleaner>>
    BY <1>4 DEF GiveUp
  <2>. QED
    BY <2>1, DoneShrinks, StillStep DEF LinkStill
<1>5. ASSUME NEW c \in Callers, NEW r \in Requests, Acquire(c, r) PROVE HeadChainInv'
  BY <1>5, AcquireChain
<1>6. UNCHANGED job => JobsShrink
  BY DEF JobsShrink
<1>7. ASSUME Lifecycle \/ Lapse \/ RetryDue PROVE HeadChainInv'
  <2>1. UNCHANGED <<store, job, cleaner>>
    BY <1>7 DEF Lifecycle, RecoverExpiredLease, ScheduleRetry, Cancel, Expire, Lapse, RetryDue,
                OnlyHead, Others
  <2>. QED
    BY <1>6, <1>7, <2>1, LifecycleLinks, TimeLinks, StillStep
<1>8. ASSUME LifetimeEnds \/ (\E r \in Requests : RefuseOverLimit(r)) \/ UNCHANGED vars
      PROVE  HeadChainInv'
  <2>1. UNCHANGED <<head, store, job, cleaner>>
    BY <1>8 DEF LifetimeEnds, RefuseOverLimit, vars
  <2>. QED
    BY <1>6, <2>1, StillStep DEF LinkStill
<1>9. ASSUME PrepareCleanup \/ CleanupUnreachable PROVE HeadChainInv'
  BY <1>9, PrepareCleanupChain, CleanupChain
<1>. QED
  BY <1>1, <1>2, <1>3, <1>4, <1>5, <1>7, <1>8, <1>9 DEF Next, Progress

-----------------------------------------------------------------------------
(* The theorems. *)

\* Every reachable state satisfies the inductive invariant.
THEOREM CompositionSchedulerInvariant == Spec => []CompositionSchedulerInv
<1>1. Init => CompositionSchedulerInv
  BY InitInv
<1>2. CompositionSchedulerInv /\ [Next]_vars => CompositionSchedulerInv'
  BY StepInv
<1>. QED
  BY <1>1, <1>2, PTL DEF Spec

\* The stored head always parses, the usage of the quota is exactly what is stored, orphans
\* of abandoned attempts included, and it stays within the limit.
THEOREM CompositionSchedulerTypeCorrect == Spec => []CompositionSchedulerTypeOK
<1>1. CompositionSchedulerInv => CompositionSchedulerTypeOK
  BY DEF CompositionSchedulerInv
<1>. QED
  BY <1>1, CompositionSchedulerInvariant, PTL

\* However many hosts race for the lease, lose it or commit late, each transition of the head
\* was committed under one request id and each id committed one transition.
THEOREM SchedulerOneRequestPerTransition == Spec => []OneRequestPerTransition
<1>1. CompositionSchedulerInv => OneRequestPerTransition
  BY DEF CompositionSchedulerInv
<1>. QED
  BY <1>1, CompositionSchedulerInvariant, PTL

\* Whatever is staged and then abandoned, committed late or staged again by a host that took
\* the lease over, and whatever a clean-up deletes, the receipts, closed pages and windows
\* that the head reaches are stored, one for each of its transitions and no more than it
\* retains, and a completed head has both its outputs.
THEOREM SchedulerHeadChainLoads == Spec => []HeadChainLoads
<1>1. Init => HeadChainInv
  BY InitChain
<1>2. CompositionSchedulerInv /\ HeadChainInv /\ [Next]_vars => HeadChainInv'
  BY StepChain
<1>3. CompositionSchedulerInv /\ HeadChainInv => HeadChainLoads
  BY HeadChainHolds
<1>. QED
  BY <1>1, <1>2, <1>3, CompositionSchedulerInvariant, PTL DEF Spec

\* When the limits leave room for the document and one attempt more, a job none of whose
\* attempts failed is not refused for its limits.
THEOREM SchedulerNoFailureNoRefusal ==
  ASSUME MaxTransitions >= Length, MaxAttempts > Length
  PROVE  Spec => []NoFailureNoRefusal
<1>1. CompositionSchedulerInv => NoFailureNoRefusal
  BY DEF CompositionSchedulerInv, Roomy
<1>. QED
  BY <1>1, CompositionSchedulerInvariant, PTL

\* The head, whoever moves it, implements CompositionPromise: it advances one transition at a
\* time, is completed after the last one only, and stays as it ended.
THEOREM SchedulerKeepsPromise == Spec => KeepsPromise
<1>. DEFINE stage == IF head.status \in Active THEN "active" ELSE head.status
            done == head.n
<1>1. Init => Promise!PromiseInit
  BY DEF Init, NoHead, Active, Promise!PromiseInit
<1>2. CompositionSchedulerInv /\ [Next]_vars => [Promise!PromiseNext]_<<stage, done>>
  BY EveryStepMoves, MovesArePromised
<1>. QED
  BY <1>1, <1>2, CompositionSchedulerInvariant, PTL DEF Spec, KeepsPromise, Promise!PromiseSpec

=============================================================================
