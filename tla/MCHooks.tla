------------------------------ MODULE MCHooks -------------------------------
(* An instance of Hooks for TLC.                                           *)
EXTENDS Hooks

CONSTANT j1
=============================================================================
