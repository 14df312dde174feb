----------------------------- MODULE MCParseFile -----------------------------
(* ParseFile on all short texts over the alphabets of MCCommands. *)
EXTENDS ParseFile, MCCommands
===============================================================================
