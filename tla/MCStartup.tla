----------------------------- MODULE MCStartup ------------------------------
(* Small instances of Startup, given by their configurations alone. *)
EXTENDS Startup
=============================================================================
