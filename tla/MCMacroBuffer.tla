---------------------------- MODULE MCMacroBuffer ----------------------------
(* MacroBuffer on all short texts over the alphabets of MCCommands. *)
EXTENDS MacroBuffer, MCCommands
===============================================================================
