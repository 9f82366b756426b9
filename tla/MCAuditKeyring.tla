--------------------------- MODULE MCAuditKeyring ---------------------------
(***************************************************************************)
(* AuditKeyring for TLC.                                                   *)
(***************************************************************************)
EXTENDS AuditKeyring, TLC

CONSTANTS root, k1, k2, k3, c1, c2, c3

MCSymmetry == Permutations(Command) \union Permutations(Key \ {Root})
=============================================================================
