------------------------------- MODULE MCMesh -------------------------------
(* Mesh with two parents and three layers: root, child, and a place to move *)
(* to.                                                                      *)
EXTENDS Mesh
CONSTANTS router, node, none
MCParents == {router, node}
MCOtherEvents == {"NO_PARENT_FOUND"}
============================================================================
