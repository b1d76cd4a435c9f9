--------------------------- MODULE MCTemplateSync ---------------------------
(* Small instances of TemplateSync for TLC. *)
EXTENDS TemplateSync
=============================================================================
