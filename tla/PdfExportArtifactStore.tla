----------------------- MODULE PdfExportArtifactStore -----------------------
(***************************************************************************)
(* The bytes of PDF exports and their references: the content-addressed    *)
(* store (pdfExportContentAddressedStore.ts and the S3 form of it), the    *)
(* writers that publish bytes and commit a receipt over them               *)
(* (pdfExportArtifactPersistence.ts), and the orphan maintenance of each   *)
(* host that deletes what no receipt references                            *)
(* (pdfExportLocalOrphanMaintenance.ts).                                   *)
(*                                                                         *)
(* Content is named by its digest, so different operations may share it.   *)
(* Every action is one call on the store or on the repository, with the    *)
(* local work up to the next: what a writer or a sweep has learnt may be   *)
(* stale when it is used.  Digests are the numbers 1..Contents, in the     *)
(* order in which the provider lists them.  Times are ages, saturated      *)
(* where they no longer matter, so the model needs no last time.           *)
(***************************************************************************)
EXTENDS Naturals, FiniteSets

CONSTANTS
  Operations,
  Contents,        \* number of digests
  Hosts,           \* hosts that run orphan maintenance
  Grace,           \* gracePeriodMs
  Interval,        \* intervalMs
  Backoff,         \* unavailableBackoffMs
  MaxScan,         \* maxScanCount
  MaxDelete,       \* maxDeleteCount
  MaxTries,        \* bound: attempts of one operation to persist
  MaxMishaps       \* bound: calls of a sweep that fail, restarts of hosts, and
                   \* objects whose bytes decay, all together

ASSUME ArtifactStoreAssumption ==
  /\ {Contents, Grace, Interval, Backoff, MaxScan, MaxDelete} \subseteq Nat \ {0}
  /\ MaxDelete <= MaxScan
  /\ {MaxTries, MaxMishaps} \subseteq Nat

Digests == 1 .. Contents
None == 0

VARIABLES
  object,    \* what the store holds under each digest
  age,       \* time since it was written
  receipt,   \* the digest of each operation's receipt
  prompt,    \* whether the receipt was committed within Grace of the write
  writer,    \* the writer of each operation
  sweep,     \* the orphan maintenance of each host
  mishaps    \* how many happened

storeVars == <<object, age, receipt, prompt, writer, sweep, mishaps>>

Longest == IF Interval < Backoff THEN Backoff ELSE Interval

IdleWriter == [pc |-> "idle", digest |-> None, tries |-> 0]
\* since: time from the last run's observedAt; delay: to the next run;
\* deleted: deletions of this page; issue: whether one of its calls failed.
FirstSweep == [pc |-> "idle", cursor |-> None, next |-> None, todo |-> {}, deleted |-> 0,
               issue |-> FALSE, since |-> 0, delay |-> 0]

ArtifactStoreInit ==
  /\ object = [d \in Digests |-> "absent"]
  /\ age = [d \in Digests |-> 0]
  /\ receipt = [o \in Operations |-> None]
  /\ prompt = [o \in Operations |-> FALSE]
  /\ writer = [o \in Operations |-> IdleWriter]
  /\ sweep = [h \in Hosts |-> FirstSweep]
  /\ mishaps = 0

Referenced(d) == \E o \in Operations : receipt[o] = d

KeepStore == UNCHANGED <<object, age>>
KeepReceipts == UNCHANGED <<receipt, prompt>>
NoMishap == UNCHANGED mishaps
Mishap == mishaps < MaxMishaps /\ mishaps' = mishaps + 1

-----------------------------------------------------------------------------
(* A writer: persistFlowDocBackendPdfExportArtifactV1 and the store's write. *)

Move(o, to) ==
  writer' = [writer EXCEPT ![o].pc = to, ![o].digest = IF to = "idle" THEN None ELSE @]
Writing(o, from, to) ==
  /\ writer[o].pc = from
  /\ Move(o, to)
  /\ KeepReceipts /\ UNCHANGED sweep /\ NoMishap

\* The bytes of each attempt are rendered anew and may differ.
Begin(o, d) ==
  /\ writer[o].pc = "idle"
  /\ receipt[o] = None
  /\ writer[o].tries < MaxTries
  /\ writer' = [writer EXCEPT ![o] = [pc |-> "write", digest |-> d, tries |-> @.tries + 1]]
  /\ KeepStore /\ KeepReceipts /\ UNCHANGED sweep /\ NoMishap

\* Retained bytes are used as they are, without writing them again.
FindExisting(o) ==
  /\ KeepStore
  /\ \/ Writing(o, "write", "publish") /\ object[writer[o].digest] = "absent"
     \/ Writing(o, "write", "readback") /\ object[writer[o].digest] = "intact"
     \/ Writing(o, "write", "idle") /\ object[writer[o].digest] = "corrupt"

\* Create if absent: a concurrent publisher leaves the bytes there.
Publish(o) ==
  /\ Writing(o, "publish", "published")
  /\ \/ /\ object[writer[o].digest] = "absent"
        /\ object' = [object EXCEPT ![writer[o].digest] = "intact"]
        /\ age' = [age EXCEPT ![writer[o].digest] = 0]
     \/ /\ object[writer[o].digest] # "absent"
        /\ KeepStore

VerifyPublished(o) ==
  /\ KeepStore
  /\ \/ Writing(o, "published", "readback") /\ object[writer[o].digest] = "intact"
     \/ Writing(o, "published", "idle") /\ object[writer[o].digest] # "intact"

Readback(o) ==
  /\ KeepStore
  /\ \/ Writing(o, "readback", "commit") /\ object[writer[o].digest] = "intact"
     \/ Writing(o, "readback", "idle") /\ object[writer[o].digest] # "intact"

\* commitProjection: the receipt references the bytes that were read back.
CommitReceipt(o) ==
  /\ writer[o].pc = "commit"
  /\ Move(o, "idle")
  /\ receipt' = [receipt EXCEPT ![o] = writer[o].digest]
  /\ prompt' = [prompt EXCEPT ![o] = age[writer[o].digest] <= Grace]
  /\ KeepStore /\ UNCHANGED sweep /\ NoMishap

\* The host of the writer dies, or the repository does not answer.
Abandon(o) ==
  /\ writer[o].pc # "idle"
  /\ Move(o, "idle")
  /\ KeepStore /\ KeepReceipts /\ UNCHANGED sweep /\ NoMishap

-----------------------------------------------------------------------------
(* Orphan maintenance: runIfDue, which reconciles one page. *)

Sweeping(h, s) ==
  /\ sweep' = [sweep EXCEPT ![h] = s]
  /\ KeepReceipts /\ UNCHANGED writer

\* The first MaxScan objects after the cursor.
Listable(cursor) == {d \in Digests : d > cursor /\ object[d] # "absent"}
Page(cursor) == {d \in Listable(cursor) : Cardinality({e \in Listable(cursor) : e <= d}) <= MaxScan}
Last(page) == CHOOSE d \in page : \A e \in page : e <= d

\* Mutation: the last page leaves its cursor, as any other.
NextCursorKept(cursor) == IF Page(cursor) = {} THEN cursor ELSE Last(Page(cursor))

NextCursor(cursor) ==
  IF Page(cursor) = Listable(cursor) THEN None ELSE Last(Page(cursor))

\* Mutation: content of exactly the grace period is listed.
ExpiredEarly(d) == age[d] >= Grace

Expired(d) == age[d] > Grace

StartPage(h) ==
  LET s == sweep[h] IN
  /\ s.pc = "idle"
  /\ s.since >= s.delay
  /\ KeepStore
  /\ \/ /\ Sweeping(h, [s EXCEPT !.pc = "inspect", !.next = NextCursor(s.cursor),
                                !.todo = {d \in Page(s.cursor) : Expired(d)},
                                !.deleted = 0, !.issue = FALSE, !.since = 0])
        /\ NoMishap
     \/ /\ Sweeping(h, [s EXCEPT !.since = 0, !.delay = Backoff])
        /\ Mishap

Candidate(h) == CHOOSE d \in sweep[h].todo : \A e \in sweep[h].todo : d <= e
Done(h) == [sweep[h] EXCEPT !.pc = "inspect", !.todo = @ \ {Candidate(h)}]
DoneWithIssue(h) == [Done(h) EXCEPT !.issue = TRUE]

MayDelete(h) == sweep[h].deleted < MaxDelete

\* inspectStorageReference, before the limit of deletions is looked at.
Inspect(h) ==
  /\ sweep[h].pc = "inspect"
  /\ sweep[h].todo # {}
  /\ KeepStore
  /\ \/ /\ Referenced(Candidate(h)) \/ ~MayDelete(h)
        /\ Sweeping(h, Done(h)) /\ NoMishap
     \/ /\ ~Referenced(Candidate(h)) /\ MayDelete(h)
        /\ Sweeping(h, [sweep[h] EXCEPT !.pc = "recheck"]) /\ NoMishap
     \/ Sweeping(h, DoneWithIssue(h)) /\ Mishap

Recheck(h) ==
  /\ sweep[h].pc = "recheck"
  /\ KeepStore
  /\ \/ Referenced(Candidate(h)) /\ Sweeping(h, Done(h)) /\ NoMishap
     \/ /\ ~Referenced(Candidate(h))
        /\ Sweeping(h, [sweep[h] EXCEPT !.pc = "delete"]) /\ NoMishap
     \/ Sweeping(h, DoneWithIssue(h)) /\ Mishap

\* The store reads the bytes before it deletes them and refuses corrupt ones.
Delete(h) ==
  /\ sweep[h].pc = "delete"
  /\ UNCHANGED age
  /\ \/ /\ object[Candidate(h)] # "corrupt"
        /\ object' = [object EXCEPT ![Candidate(h)] = "absent"]
        /\ Sweeping(h, [Done(h) EXCEPT !.deleted = @ + 1]) /\ NoMishap
     \/ /\ object[Candidate(h)] = "corrupt"
        /\ UNCHANGED object
        /\ Sweeping(h, DoneWithIssue(h)) /\ NoMishap
     \/ /\ UNCHANGED object
        /\ Sweeping(h, DoneWithIssue(h)) /\ Mishap

CursorAfter(s) == IF s.issue THEN s.cursor ELSE s.next

DelayAfter(s) == IF s.issue THEN Backoff ELSE IF s.next = None THEN Interval ELSE 0

\* A page with an issue is run again after the backoff; otherwise the next page
\* follows at once, or the next sweep after the interval.
FinishPage(h) ==
  LET s == sweep[h] IN
  /\ s.pc = "inspect"
  /\ s.todo = {}
  /\ Sweeping(h, [s EXCEPT !.pc = "idle", !.cursor = CursorAfter(s), !.delay = DelayAfter(s)])
  /\ NoMishap /\ KeepStore

\* The cursor lives in the process.
Restart(h) ==
  /\ Mishap
  /\ sweep' = [sweep EXCEPT ![h] = FirstSweep]
  /\ KeepStore /\ KeepReceipts /\ UNCHANGED writer

-----------------------------------------------------------------------------
(* The environment. *)

Decay(d) ==
  /\ object[d] = "intact"
  /\ Mishap
  /\ object' = [object EXCEPT ![d] = "corrupt"]
  /\ KeepReceipts /\ UNCHANGED <<age, writer, sweep>>

Capped(n, most) == IF n < most THEN n + 1 ELSE n

Tick ==
  /\ age' = [d \in Digests |-> Capped(age[d], Grace + 1)]
  /\ sweep' = [h \in Hosts |-> [sweep[h] EXCEPT !.since = Capped(@, Longest)]]
  /\ KeepReceipts /\ UNCHANGED <<object, writer>> /\ NoMishap

WriterStep(o) ==
  \/ \E d \in Digests : Begin(o, d)
  \/ FindExisting(o) \/ Publish(o) \/ VerifyPublished(o) \/ Readback(o)
  \/ CommitReceipt(o) \/ Abandon(o)

SweepStep(h) == StartPage(h) \/ Inspect(h) \/ Recheck(h) \/ Delete(h) \/ FinishPage(h)

ArtifactStoreNext ==
  \/ \E o \in Operations : WriterStep(o)
  \/ \E h \in Hosts : SweepStep(h) \/ Restart(h)
  \/ \E d \in Digests : Decay(d)
  \/ Tick

ArtifactStoreSpec == ArtifactStoreInit /\ [][ArtifactStoreNext]_storeVars

\* Time passes and running hosts run their maintenance; no writer has to go on.
FairArtifactStoreSpec ==
  /\ ArtifactStoreSpec
  /\ WF_storeVars(Tick)
  /\ \A h \in Hosts : WF_storeVars(SweepStep(h))

-----------------------------------------------------------------------------
(* Properties. *)

ArtifactStoreTypeOK ==
  /\ object \in [Digests -> {"absent", "intact", "corrupt"}]
  /\ age \in [Digests -> 0 .. Grace + 1]
  /\ receipt \in [Operations -> Digests \cup {None}]
  /\ prompt \in [Operations -> BOOLEAN]
  /\ writer \in [Operations ->
       [pc : {"idle", "write", "publish", "published", "readback", "commit"},
        digest : Digests \cup {None}, tries : 0 .. MaxTries]]
  /\ sweep \in [Hosts ->
       [pc : {"idle", "inspect", "recheck", "delete"}, cursor : Digests \cup {None},
        next : Digests \cup {None}, todo : SUBSET Digests, deleted : 0 .. MaxDelete,
        issue : BOOLEAN, since : 0 .. Longest, delay : 0 .. Longest]]

\* The grace period protects a writer from the sweep that races it: when one
\* host sweeps, a receipt that is committed within the grace period of the write
\* never loses its bytes, although neither store nor repository locks anything.
PromptCommitKept == \A o \in Operations : prompt[o] => object[receipt[o]] # "absent"

\* Every orphan is collected in the end, whatever pages precede it, however often
\* the sweep fails or starts again; only a corrupt orphan may get in its way.
OrphansCollected ==
  <>[](\/ \E d \in Digests : object[d] = "corrupt" /\ ~Referenced(d)
       \/ \A d \in Digests : object[d] = "intact" => Referenced(d))

-----------------------------------------------------------------------------
(* What the documentation says, and the program does not do. *)

\* docs/PDF_EXPORT_DURABLE_ARTIFACT_PERSISTENCE.md:63-66: references are checked
\* twice before deletion, referenced content is retained even when several
\* artifacts share its digest.
ReferencedRetained == \A o \in Operations : receipt[o] # None => object[receipt[o]] # "absent"

\* docs/PDF_EXPORT_LOCAL_POSTGRES_S3_ADAPTERS.md:61-63: reconciliation can advance
\* beyond the first prefix without starvation.
NoOrphanStarved ==
  <>[](\A d \in Digests : object[d] = "intact" => Referenced(d))
=============================================================================
