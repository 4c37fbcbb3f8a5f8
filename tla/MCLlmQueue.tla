------------------------------ MODULE MCLlmQueue ------------------------------
(***************************************************************************)
(* LlmQueue with one text watched for its answer.                          *)
(***************************************************************************)
EXTENDS LlmQueue

CONSTANT t1

(* A listed question of the deferred lane is answered unless orphans take  *)
(* the batch: for one text, the texts being interchangeable (no constant   *)
(* or definition tells them apart).                                        *)
QuestionIsAnswered == IsAnswered(t1)
=============================================================================
