------------------------ MODULE MCPdfExportExecution ------------------------
(* Model-checking instance of PdfExportExecution: tokens name worker and attempt. *)
EXTENDS PdfExportExecution, TLC

WorkerTokens == Workers \X (1 .. MaxAttempts)
WorkerSymmetry == Permutations(Workers)
=============================================================================
