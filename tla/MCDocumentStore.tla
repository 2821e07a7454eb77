--------------------------- MODULE MCDocumentStore ---------------------------
(* Documents and what callers ask for together. *)
EXTENDS DocumentStore

MCDocuments == 1..3
MCLocaleRank == [d \in Documents |-> d]

\* Ids in which upper case meets lower case: the locale puts "a" before "B".
MixedCase == [d \in Documents |-> 4 - d]

Mutate(document, request, base, edit) ==
  [kind |-> "mutate", document |-> document, request |-> request, base |-> base, edit |-> edit]
Rich(document, request, base, edit) ==
  [kind |-> "rich", document |-> document, request |-> request, base |-> base, edit |-> edit]
Migrate(document, request, base) ==
  [kind |-> "migrate", document |-> document, request |-> request, base |-> base, edit |-> "none"]

\* One id with two payloads, and two edits of one base.
Races == {Mutate(1, "m1", 0, "e1"), Mutate(1, "m1", 0, "e2"), Mutate(1, "m2", 0, "e3"),
          Mutate(1, "m3", 1, "e4")}

\* A migration, repeated and against edits before and after it.
Upgrades == {Migrate(1, "g1", 0), Migrate(1, "g1", 1), Mutate(1, "m1", 0, "e1"),
             Rich(1, "m2", 1, "e2")}

\* Edits of two documents, and of one that does not exist.
Moves == {Mutate(1, "m1", 0, "e1"), Mutate(2, "m1", 0, "e1"), Mutate(2, "m2", 1, "e2"),
          Mutate(9, "m1", 0, "e1")}

MCScenarios == {Races, Upgrades, Moves}
=============================================================================
