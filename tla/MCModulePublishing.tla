------------------------- MODULE MCModulePublishing -------------------------
(***************************************************************************)
(* Two threads racing in record over two module paths.                   *)
(***************************************************************************)
EXTENDS ModulePublishing, TLC

CONSTANTS t1, t2, m1, m2

MCThreads == {t1, t2}
MCPaths == {m1, m2}
Symmetry == Permutations(MCThreads) \cup Permutations(MCPaths)
=============================================================================
