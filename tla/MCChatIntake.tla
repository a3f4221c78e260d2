---------------------------- MODULE MCChatIntake ----------------------------
(* Two users, one of whom writes twice, before or around the other. *)
EXTENDS ChatIntake

TwoWrite == {<<1, 1, 2>>, <<1, 2, 1>>}
=============================================================================
