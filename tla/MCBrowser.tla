----------------------------- MODULE MCBrowser -----------------------------
(* Browser.tla on a small instance. *)
EXTENDS Browser, TLC

CONSTANTS left, right, c1, c2, c3   \* model values
=============================================================================
