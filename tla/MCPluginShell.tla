---------------------------- MODULE MCPluginShell ----------------------------
(* Instances of PluginShell for TLC.                                       *)
EXTENDS PluginShell, TLC
=============================================================================
