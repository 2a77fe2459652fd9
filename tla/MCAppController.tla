--------------------------- MODULE MCAppController ---------------------------
(* The controller alone, driven by arbitrary callers on small limits.      *)
EXTENDS AppController
=============================================================================
