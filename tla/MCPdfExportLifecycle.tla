------------------------ MODULE MCPdfExportLifecycle ------------------------
(* Model-checking instance of PdfExportLifecycle: tokens are interchangeable. *)
EXTENDS PdfExportLifecycle, TLC

TokenSymmetry == Permutations(Tokens)
=============================================================================
