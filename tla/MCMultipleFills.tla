--------------------------- MODULE MCMultipleFills ---------------------------
(* An order of ten units in four parts, with fills nested three deep.        *)
EXTENDS MultipleFills

const_SecretHash == [i \in 0 .. Parts |-> 100 + i]
const_NoHash == 0
=============================================================================
