------------------------------ MODULE MCWidget ------------------------------
(* Widget, with its constants from the configuration.                       *)
EXTENDS Widget
=============================================================================
