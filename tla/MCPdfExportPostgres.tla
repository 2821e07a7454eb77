------------------------ MODULE MCPdfExportPostgres ------------------------
(* What callers call with, one repository at a time: their tables are apart. *)
EXTENDS PdfExportPostgres

\* Hashes differ, and are in no order of the identities.
MCHashText(id) == (7 * id) % 101

\* A key asked for twice, with a new operation id, and with another payload.
Admissions ==
  {[kind |-> "admit", operation |-> 1, key |-> "k1", payload |-> "p1"],
   [kind |-> "admit", operation |-> 2, key |-> "k1", payload |-> "p1"],
   [kind |-> "admit", operation |-> 2, key |-> "k2", payload |-> "p2"]}

Move(transition, revision, stops) ==
  [kind |-> "transition", operation |-> 1, transition |-> transition, revision |-> revision,
   stops |-> stops]

\* A lifecycle that is initialized twice, a transition that is sent again with
\* the revision reread, one that follows, and one that stops the head.
Lifecycles ==
  {[kind |-> "initialize", operation |-> 1, binding |-> "b1"],
   [kind |-> "initialize", operation |-> 1, binding |-> "b2"],
   Move("t1", 0, FALSE), Move("t1", 1, FALSE), Move("t2", 1, TRUE)}

\* Two attempts' projections of one operation, and other operations' whose
\* artifact, job or persistence has an id of theirs.
Projection(operation, persistence, artifact, job, facts) ==
  [kind |-> "project", operation |-> operation, persistence |-> persistence,
   artifact |-> artifact, job |-> job, facts |-> facts]
Projections ==
  {Projection(1, 11, 21, 31, "f1"), Projection(1, 11, 21, 31, "f2"),
   Projection(2, 12, 21, 32, "f1"), Projection(2, 11, 22, 32, "f1"), Projection(3, 13, 23, 31, "f1")}

\* Two ends of one operation's workflow, another workflow with events of theirs
\* in another order, and another operation under their workflow id.
Ending(operation, workflow, events, facts) ==
  [kind |-> "complete", operation |-> operation, workflow |-> workflow, events |-> events,
   facts |-> facts]
Endings ==
  {Ending(1, 41, <<51, 52>>, "f1"), Ending(1, 41, <<51, 53>>, "f2"),
   Ending(2, 42, <<52, 51>>, "f1"), Ending(3, 41, <<54>>, "f1")}

MCScenarios == {Admissions, Lifecycles, Projections, Endings}
=============================================================================
