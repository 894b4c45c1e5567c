---------------------------- MODULE MCStreamDebug ----------------------------
(***************************************************************************)
(* StreamDebug with r1 and r2 in one session, as all requests of a server    *)
(* are, and r3 in one of its own; the two steps of a plan have one command. *)
(***************************************************************************)
EXTENDS StreamDebug

CONSTANTS r1, r2, r3, s1, s2

MixedSessionOf == [r \in Requests |-> IF r = r3 THEN s2 ELSE s1]
SameCommand == [k \in 1..NumSteps |-> 1]
=============================================================================
