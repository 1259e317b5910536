---------------------------- MODULE MCCatalogStore ----------------------------
(* Three catalog versions: the seeded one, an older and a newer candidate. *)
EXTENDS CatalogStore
=============================================================================
