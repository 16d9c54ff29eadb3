--------------------------- MODULE MCProcessTable ---------------------------
(* Values of ProcessTableCalls's constants for TLC. *)
EXTENDS ProcessTableCalls

\* One register set is enough: the table never looks into those it is given.
MCContext == {[pc |-> "P3", sp |-> 1, r0 |-> 1]}
=============================================================================
