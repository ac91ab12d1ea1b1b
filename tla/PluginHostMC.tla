----------------------------- MODULE PluginHostMC -----------------------------
(* Instances of PluginHost: settings as model values.                          *)
EXTENDS PluginHost
=============================================================================
