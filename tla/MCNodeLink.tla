----------------------------- MODULE MCNodeLink -----------------------------
(* Two slaves whose coins can carry the same timestamp, and a ring that     *)
(* wraps while old datagrams still arrive.                                  *)
EXTENDS NodeLink

CONSTANTS s, t

InStep == [x \in {s, t} |-> 0]

\* The ring is just large enough for slaves in step with the master.
ASSUME RingFits == RingSuffices(0)
=============================================================================
