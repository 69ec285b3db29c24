---------------------------- MODULE MCEmbeddedApp ----------------------------
(***************************************************************************)
(* A small instance of EmbeddedApp for TLC: an app with a root and one     *)
(* page more, and somewhere else to go.                                    *)
(***************************************************************************)
EXTENDS EmbeddedApp
=============================================================================
