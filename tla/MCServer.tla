------------------------------ MODULE MCServer ------------------------------
(* Server checked with two requests, three runtimes (two reloads) and every *)
(* limit at one, so that capacity, probe and stream refusals all happen.    *)
EXTENDS Server

CONSTANTS q1, q2

MCRequests == {q1, q2}
=============================================================================
