----------------------------- MODULE MCMigrate -----------------------------
(***************************************************************************)
(* Small instances of Migrate: two replicas of the new image start while   *)
(* one of the image before it is still there (a rollout, or a first start).*)
(***************************************************************************)
EXTENDS Migrate, TLC

CONSTANTS old, new1, new2

ImageFiles == (old :> 2) @@ (new1 :> 3) @@ (new2 :> 3)
=============================================================================
