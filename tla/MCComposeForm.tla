--------------------------- MODULE MCComposeForm ---------------------------
(***************************************************************************)
(* The writer's page on a small instance: characters of one to four bytes  *)
(* against a limit of five, which one text fits exactly and one exceeds by *)
(* a byte; keys of two bytes (like the 32 of the code they leave two bits  *)
(* of the last digit unused and one character of padding), one with both   *)
(* digits whose characters base64url replaces; two letters.                *)
(***************************************************************************)
EXTENDS ComposeForm

MCInputs == {<<>>, <<32>>, <<32, 127, 65535>>, <<2047, 65536>>}
MCTtls == {3600, 86400}
MCKeys == {<<0, 255>>, <<251, 240>>}
MCBase == <<1>>
=============================================================================
