----------------------- MODULE MCDocGenExportRuntime -----------------------
(* Model-checking instance of DocGenExportRuntime: tokens name worker and  *)
(* attempt, and the clients ask for one document or each for its own.      *)
EXTENDS DocGenExportRuntime, TLC

WorkerTokens == Workers \X (1 .. MaxAttempts)
OneOrOwn == {[c \in Clients |-> "one"], [c \in Clients |-> c]}
=============================================================================
