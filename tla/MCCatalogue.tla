---------------------------- MODULE MCCatalogue ----------------------------
(* Catalogue.tla on a small instance. *)
EXTENDS Catalogue, TLC

CONSTANTS home, pets, rent, food   \* model values

DefaultSet == << <<home, None>>, <<home, rent>> >>
=============================================================================
