----------------------------- MODULE MCPlugins -----------------------------
(* The instance of Plugins that TLC checks. *)
EXTENDS Plugins
=============================================================================
