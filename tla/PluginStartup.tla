--------------------------- MODULE PluginStartup ---------------------------
(* The plugin manager (PluginManager, extended) and, under its own name, the *)
(* search for the order in which it takes the plugins.                       *)
EXTENDS PluginManager

CONSTANT Registered  \* the keys of self.plugins, in their order

ASSUME RegisteredAssumption == Registered \in Seq(Plugins)

VARIABLES deps, resolved, visiting, calls, root, raised

search == <<deps, resolved, visiting, calls, root, raised>>

Search == INSTANCE PluginOrder

\* What PluginOrder says of the search.
ResolvesOrder == Search!ResolvesOrder
=============================================================================
