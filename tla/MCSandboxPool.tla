---------------------------- MODULE MCSandboxPool ----------------------------
(* SandboxPool checked with two slots and two replacements, and with one    *)
(* slot and three replacements for the worker that starts too late.         *)
EXTENDS SandboxPool
=============================================================================
