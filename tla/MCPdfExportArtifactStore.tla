---------------------- MODULE MCPdfExportArtifactStore ----------------------
(* Model-checking instance of PdfExportArtifactStore: operations are interchangeable. *)
EXTENDS PdfExportArtifactStore, TLC

OperationSymmetry == Permutations(Operations)
=============================================================================
