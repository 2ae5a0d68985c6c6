----------------------------- MODULE MCHelpChat -----------------------------
(* The chat of one reader, who may have responded before the first message  *)
(* or after it, and one coordinator's call at a time.                       *)
EXTENDS HelpChat, TLC
CONSTANTS helper, s1
=============================================================================
