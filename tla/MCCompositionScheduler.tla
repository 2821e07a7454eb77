------------------------ MODULE MCCompositionScheduler ------------------------
(* A document of two transitions: a window that closes pages, then a demand-free *)
(* continuation. *)
EXTENDS CompositionScheduler

MCDocument == <<[window |-> TRUE, pages |-> TRUE], [window |-> FALSE, pages |-> FALSE]>>
=============================================================================
