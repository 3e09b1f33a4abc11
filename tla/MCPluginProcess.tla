-------------------------- MODULE MCPluginProcess --------------------------
(***************************************************************************)
(* Instances of PluginProcess for TLC.                                     *)
(***************************************************************************)
EXTENDS PluginProcess

\* All CPUs are online: the IDs are the positions.  Or discovery fails.
AllOnline == {<<0, 1>>, <<>>}
=============================================================================
