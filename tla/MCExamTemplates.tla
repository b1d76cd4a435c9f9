-------------------------- MODULE MCExamTemplates --------------------------
(* Small instances of ExamTemplates for TLC. *)
EXTENDS ExamTemplates, TLC

=============================================================================
