-------------------------- MODULE MCPluginManager --------------------------
(* Instances of PluginManager for TLC. *)
EXTENDS PluginManager

CONSTANTS omo, omoSlim    \* oh-my-opencode and oh-my-opencode-slim

Unrelated == {}
Related   == {<<omo, omoSlim>>}
============================================================================
