------------------------ MODULE MCDocumentIngestion ------------------------
(* An ingestion and a second one, two callbacks, one reader, one editor. *)
EXTENDS DocumentIngestion
=============================================================================
