---------------------------- MODULE MCSessionGate ----------------------------
(***************************************************************************)
(* Small instances of SessionGate for TLC.                                 *)
(***************************************************************************)
EXTENDS SessionGateProps, TLC

CONSTANTS m1, m2, m3, r1, r2, q1, s1, x1

\* Every call is made by a goroutine of its own.
Unordered == [c \in Call |-> {}]

\* The goroutine that makes the first mutation takes a snapshot after it, and
\* then closes the session.
MutateThenClose == [c \in Call |-> IF c = s1 THEN {m1} ELSE IF c = x1 THEN {s1} ELSE {}]
==============================================================================
