---------------------------- MODULE DocumentStore ----------------------------
(***************************************************************************)
(* The package repository in memory, the mutation and the migration        *)
(* service over it, and a client that pages through the document library.  *)
(* A service awaits three calls of the repository - the receipt of its     *)
(* request, the document, the write - and other requests come in between.  *)
(* What the core makes of a package is an outcome; a package's content is  *)
(* the sequence of the edits in it.                                        *)
(***************************************************************************)
EXTENDS Naturals, FiniteSets, Sequences

CONSTANTS
  Documents,   \* the seeded documents: numbers, in code-unit order of their ids
  LocaleRank,  \* where the locale's order (localeCompare) puts each of them
  Callers,     \* concurrent callers of the two services
  Scenarios,   \* sets of requests that callers make together
  NoCall,      \* a caller without a request
  PageSize,    \* entries of a library page
  MaxCalls,    \* bound on the requests made
  MaxTime      \* bound on the clock

ASSUME DocumentStoreAssumption ==
  /\ Documents \subseteq Nat /\ IsFiniteSet(Documents) /\ LocaleRank \in [Documents -> Nat]
  /\ PageSize \in 1..100 /\ MaxCalls \in Nat /\ MaxTime \in Nat

VARIABLES
  records,     \* the document records
  mutations,   \* receipts of mutations
  migrations,  \* receipts of migrations, each with its source snapshot
  clock,       \* the time, as the process reads it
  calls,       \* each caller's request and how far its service is
  scenario,    \* what callers ask for
  made,        \* requests made so far
  walk         \* the client of the library

store == <<records, mutations, migrations>>
vars == <<store, clock, calls, scenario, made, walk>>

\* An optional value is a set of at most one.
None == {}

\* A seed is a package 2; it has no draft authoring context.
SeedRecord == [version |-> 2, content |-> <<>>, revision |-> 0, updatedAt |-> 0, draft |-> None]
Idle == [call |-> NoCall, at |-> "idle", requestedAt |-> 0, seen |-> None,
         answer |-> [status |-> "none", revision |-> 0]]

Init ==
  /\ records = [d \in Documents |-> SeedRecord]
  /\ mutations = {} /\ migrations = {}
  /\ clock = 0
  /\ calls = [c \in Callers |-> Idle]
  /\ scenario \in Scenarios
  /\ made = 0
  /\ walk = [open |-> FALSE, after |-> None, listed |-> <<>>, changed |-> {}]

Tick ==
  /\ clock < MaxTime
  /\ clock' = clock + 1
  /\ UNCHANGED <<store, calls, scenario, made, walk>>

---------------------------------------------------------------------------
(* Requests *)

Request(c) == calls[c].call
ReceiptsOf(r) ==
  {x \in IF r.kind = "migrate" THEN migrations ELSE mutations :
     x.call.document = r.document /\ x.call.request = r.request}

Says(status, revision) == [status |-> status, revision |-> revision]

\* A receipt answers the request it was written for, and refuses its id to any other.
Replayed(x, r) == Says(IF x.call = r THEN "applied" ELSE "rejected", x.record.revision)

\* Mutation: the repository trusts the service to have compared the payloads.
ReplayedUnread(x, r) == Says("applied", x.record.revision)

\* What the repository answers from the receipt of a request that was written
\* after its service had looked for one.
ReplayedByRepository(x, r) == Replayed(x, r)

Settle(c, answer) == calls' = [calls EXCEPT ![c].at = "return", ![c].answer = answer]

\* A service starts and looks for a receipt of its request.
Ask(c, r) ==
  /\ Request(c) = NoCall
  /\ made < MaxCalls
  /\ made' = made + 1
  /\ calls' = [calls EXCEPT ![c] = [Idle EXCEPT !.call = r, !.requestedAt = clock,
       !.at = IF ReceiptsOf(r) = {} THEN "read" ELSE "return",
       !.answer = IF ReceiptsOf(r) = {} THEN @ ELSE Replayed(CHOOSE x \in ReceiptsOf(r) : TRUE, r)]]
  /\ UNCHANGED <<store, clock, scenario, walk>>

Read(c) ==
  /\ calls[c].at = "read"
  /\ calls' = [calls EXCEPT ![c].at = "write",
       ![c].seen = {records[d] : d \in Documents \cap {Request(c).document}}]
  /\ UNCHANGED <<store, clock, scenario, made, walk>>

\* The service refuses the record it has read: the document is unknown, the
\* base revision is not its revision, the kind of the request does not fit its
\* version, or the core rejects the edit or blocks the migration.
Fits(r, seen) ==
  CASE r.kind = "migrate" -> seen.version = 2
    [] r.kind = "rich" -> seen.version = 3 /\ seen.draft # None
    [] OTHER -> TRUE

Refuse(c) ==
  /\ calls[c].at = "write"
  /\ LET r == Request(c) IN
     \/ calls[c].seen = None /\ Settle(c, Says("rejected", 0))
     \/ \E seen \in calls[c].seen :
          Settle(c, Says(IF seen.revision # r.base THEN "stale" ELSE "rejected", seen.revision))
  /\ UNCHANGED <<store, clock, scenario, made, walk>>

Accepts(c, seen) == seen.revision = Request(c).base /\ Fits(Request(c), seen)

\* Mutation: the read of the service is taken to be current.
TakenAsCurrent(r, seen) == TRUE

\* The repository writes if the document is as the service has read it.
StillCurrent(r, seen) == records[r.document].revision = seen.revision

\* Mutation: the time at which the request came in.
TimeOfRequest(c) == calls[c].requestedAt

\* updatedAt: the time read after the document was.
ReceivedAt(c) == clock

\* Every write of a version 3 package moves its draft authoring context along.
Written(c, seen) ==
  LET r == Request(c)
      revision == records[r.document].revision + 1
      version == IF r.kind = "migrate" THEN 3 ELSE seen.version IN
  [version |-> version,
   content |-> IF r.kind = "migrate" THEN seen.content ELSE Append(seen.content, r.edit),
   revision |-> revision, updatedAt |-> ReceivedAt(c),
   draft |-> IF version = 3 THEN {revision} ELSE None]

Change(d, record) ==
  /\ records' = [records EXCEPT ![d] = record]
  /\ walk' = [walk EXCEPT !.changed = @ \cup {d}]

\* writeMutation and migrate, on a request that the service accepts: the
\* receipt decides, then the revision.
Write(c) ==
  /\ calls[c].at = "write"
  /\ \E seen \in calls[c].seen :
       LET r == Request(c)
           current == records[r.document]
           record == Written(c, seen) IN
       /\ Accepts(c, seen)
       /\ \/ /\ \E x \in ReceiptsOf(r) : Settle(c, ReplayedByRepository(x, r))
             /\ UNCHANGED <<store, walk>>
          \/ /\ ReceiptsOf(r) = {} /\ ~StillCurrent(r, seen)
             /\ Settle(c, Says("stale", current.revision))
             /\ UNCHANGED <<store, walk>>
          \/ /\ ReceiptsOf(r) = {} /\ StillCurrent(r, seen)
             /\ Settle(c, Says("applied", record.revision))
             /\ Change(r.document, record)
             /\ IF r.kind = "migrate"
                THEN /\ migrations' = migrations \cup
                          {[call |-> r, record |-> record, snapshot |-> current]}
                     /\ UNCHANGED mutations
                ELSE /\ mutations' = mutations \cup {[call |-> r, record |-> record]}
                     /\ UNCHANGED migrations
  /\ UNCHANGED <<clock, scenario, made>>

Return(c) ==
  /\ calls[c].at = "return"
  /\ calls' = [calls EXCEPT ![c] = Idle]
  /\ UNCHANGED <<store, clock, scenario, made, walk>>

---------------------------------------------------------------------------
(* The document library *)

\* Latest first; documents of one time in the locale's order.
Before(d, e) ==
  \/ records[d].updatedAt > records[e].updatedAt
  \/ records[d].updatedAt = records[e].updatedAt /\ LocaleRank[d] < LocaleRank[e]

\* Mutation: the cursor is its time only.
EarlierOnly(d, cursor) == records[d].updatedAt < cursor.updatedAt

\* Documents of the cursor's time are compared by their code units.
Follows(d, cursor) ==
  \/ records[d].updatedAt < cursor.updatedAt
  \/ records[d].updatedAt = cursor.updatedAt /\ d > cursor.document

Rest(after) == {d \in Documents : \A cursor \in after : Follows(d, cursor)}

\* list: what the sorted rest begins with.  Documents of one time that the
\* locale does not tell apart come in any order.
Pages(rest) ==
  LET size == IF Cardinality(rest) > PageSize THEN PageSize ELSE Cardinality(rest) IN
  {page \in [1..size -> rest] :
     /\ \A i, j \in 1..size : i < j => page[i] # page[j] /\ ~Before(page[j], page[i])
     /\ \A d \in rest, j \in 1..size : (\A i \in 1..size : page[i] # d) => ~Before(d, page[j])}

\* readBackendDocumentLibrary: the cursor of the next page, if there are more.
CursorAfter(page, rest) ==
  IF Cardinality(rest) > PageSize
  THEN {[document |-> page[PageSize], updatedAt |-> records[page[PageSize]].updatedAt]} ELSE None

FirstPage ==
  /\ ~walk.open
  /\ \E page \in Pages(Rest(None)) :
       LET next == CursorAfter(page, Rest(None)) IN
       walk' = [open |-> next # None, after |-> next, listed |-> page, changed |-> {}]
  /\ UNCHANGED <<store, clock, calls, scenario, made>>

NextPage ==
  /\ walk.open
  /\ \E page \in Pages(Rest(walk.after)) :
       LET next == CursorAfter(page, Rest(walk.after)) IN
       walk' = [walk EXCEPT !.open = next # None, !.after = next, !.listed = @ \o page]
  /\ UNCHANGED <<store, clock, calls, scenario, made>>

Next ==
  \/ \E c \in Callers :
       (\E r \in scenario : Ask(c, r)) \/ Read(c) \/ Refuse(c) \/ Write(c) \/ Return(c)
  \/ FirstPage \/ NextPage
  \/ Tick

Spec == Init /\ [][Next]_vars

---------------------------------------------------------------------------
(* Properties *)

\* The ids of mutations and of migrations are told from each other.
SameId(q, r) == q.request = r.request /\ (q.kind = "migrate" <=> r.kind = "migrate")
ReceiptsFor(d) == {x \in mutations \cup migrations : x.call.document = d}

\* The content has the edit of each mutation of the document up to a revision,
\* at the place of that mutation among them.
HasEditsUpTo(content, d, revision) ==
  LET past == {x \in mutations : x.call.document = d /\ x.record.revision <= revision}
      place(x) == Cardinality({y \in past : y.record.revision <= x.record.revision}) IN
  /\ Len(content) = Cardinality(past)
  /\ \A x \in past : content[place(x)] = x.call.edit

\* One receipt wrote each revision, and each request id wrote one.
OneReceiptEach(d) ==
  /\ {x.record.revision : x \in ReceiptsFor(d)} = 1..records[d].revision
  /\ \A x, y \in ReceiptsFor(d) :
       x.record.revision = y.record.revision \/ SameId(x.call, y.call) => x = y

\* A migrated document keeps the package 2 it came from, and a draft context of
\* its own revision.
MigrationsOf(d) == {x \in migrations : x.call.document = d}
SourceKept(x, d) ==
  /\ x.snapshot.version = 2 /\ x.snapshot.revision = x.record.revision - 1
  /\ HasEditsUpTo(x.snapshot.content, d, x.snapshot.revision)
  /\ x.record.content = x.snapshot.content
VersionAddsUp(d) ==
  /\ records[d].version = IF MigrationsOf(d) = {} THEN 2 ELSE 3
  /\ records[d].draft = IF MigrationsOf(d) = {} THEN None ELSE {records[d].revision}
  /\ \A x \in MigrationsOf(d) : SourceKept(x, d)

\* A document is what its receipts tell, of both services, and its content has
\* every edit of a retained receipt once and in that order
\* (executeBackendMutation and executeBackendMigration evaluate what they have
\* read before and write it later).
HistoryAddsUp ==
  \A d \in Documents :
    /\ OneReceiptEach(d)
    /\ HasEditsUpTo(records[d].content, d, records[d].revision)
    /\ VersionAddsUp(d)

\* Who is told that a request is applied is told the revision which that very
\* request wrote, also when another request under its id overtook it
\* (the service asks for the receipt before it reads the document, the
\* repository asks again).
AppliedIsRetained ==
  \A c \in Callers : calls[c].answer.status = "applied" =>
    \E x \in mutations \cup migrations :
      x.call = Request(c) /\ x.record.revision = calls[c].answer.revision

\* A later revision never has an earlier time: writers that overlap take theirs
\* after their read, and only one of those that read a revision writes.
TimesFollowRevisions ==
  [][\A d \in Documents : records'[d].updatedAt >= records[d].updatedAt]_vars

\* The library's cursor: whoever follows it to the end meets every document
\* that did not change meanwhile once, and none twice, whatever was written
\* between two pages.
UnchangedListedOnce ==
  /\ \A i, j \in DOMAIN walk.listed : walk.listed[i] = walk.listed[j] => i = j
  /\ ~walk.open /\ walk.listed # <<>> =>
       \A d \in Documents \ walk.changed : \E i \in DOMAIN walk.listed : walk.listed[i] = d

---------------------------------------------------------------------------
(* What the documentation says, and the program does not do. *)

\* docs/MIGRATION_PERSISTENCE.md:64-65: "identical replay returns the original
\* target revision with `idempotency: replayed`".  A request that finds no
\* receipt, is overtaken by its own repetition and then reads the document is
\* told that its base revision is stale.
ReplayIsNotStale ==
  \A c \in Callers : calls[c].answer.status = "stale" =>
    \A x \in mutations \cup migrations : x.call # Request(c)
=============================================================================
