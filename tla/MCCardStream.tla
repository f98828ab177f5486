---------------------------- MODULE MCCardStream ----------------------------
(* CardStream with an empty and an overlong final text. *)
EXTENDS CardStream

MCFinalTexts == {<<>>, <<11, 12, 13>>}
MCErrText == <<99>>
=============================================================================
