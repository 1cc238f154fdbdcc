--------------------------- MODULE MCTaskManager ---------------------------
(* Two calls of a one-slot category, one of which declares a runtime past  *)
(* the stale limit, and one of a two-slot category; a history of one task. *)
EXTENDS TaskManager, TLC

CONSTANTS c1, c2, c3, Desktop, Shell

MCCategoryOf == c1 :> Desktop @@ c2 :> Desktop @@ c3 :> Shell

MCRuntimeOf == c1 :> 0 @@ c2 :> 2 @@ c3 :> 0

MCLimit == Desktop :> 1 @@ Shell :> 2
=============================================================================
