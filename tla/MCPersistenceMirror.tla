------------------------ MODULE MCPersistenceMirror ------------------------
(* PersistenceMirror on small instances. *)
EXTENDS PersistenceMirror, TLC

Symmetry == Permutations(Docs) \cup Permutations(Contents \ {Empty})
=============================================================================
