--------------------------- MODULE PluginManager ---------------------------
(***************************************************************************)
(* PluginManager (plugins/manager.py): startup, rollback, shutdown and the *)
(* health refresh.  One owner (the FastAPI lifespan of core/app.py) calls  *)
(* startup() and shutdown(), one call at a time and in any order; requests *)
(* call refresh_health() at any moment.                                    *)
(*                                                                         *)
(* One action is the code between two awaits of a plugin hook.  A plugin   *)
(* registers one service, named by the plugin.  Calls that raise before    *)
(* they change anything (startup() of a started manager, an unknown        *)
(* configured plugin) leave the state as it is and are not actions.        *)
(***************************************************************************)
EXTENDS Naturals, Sequences, FiniteSets, SequencesExt

CONSTANTS
  Plugins,
  Order,       \* what _resolve_order() returns (module PluginOrder)
  Deps,        \* metadata.dependencies, those that are installed
  Refreshers,  \* requests that call refresh_health()
  MaxCancels   \* bound on cancellations of startup() and shutdown()

ASSUME OrderAssumption ==
  /\ Order \in Seq(Plugins)
  /\ \A p \in Plugins : \E i \in DOMAIN Order : Order[i] = p
  /\ \A i, j \in DOMAIN Order : Order[i] = Order[j] => i = j
ASSUME DepsAssumption ==
  /\ Deps \in [Plugins -> SUBSET Plugins]
  /\ \A i, j \in DOMAIN Order : Order[i] \in Deps[Order[j]] => i < j
ASSUME MaxCancelsAssumption == MaxCancels \in Nat

VARIABLES
  enabled,          \* the tri-state flag: "on", "off" or "auto" (enabled=None)
  defective,        \* plugins with an unknown or missing dependency or bad config
  started_plugins,
  active_plugins,
  contexts,         \* the plugins with an entry in _contexts
  services,         \* the plugins whose service is registered
  started,          \* _started
  health,           \* the HealthRegistry
  up,               \* plugins whose startup() was called and not yet undone
  broken,           \* plugins of up whose last shutdown() raised
  owner,            \* the owner's call in progress
  refresh,          \* the plugins each refresh_health() is waiting for
  cancels

config == <<enabled, defective>>
registry == <<started_plugins, active_plugins, contexts, services, started>>
plugin == <<up, broken>>

vars == <<config, registry, plugin, health, owner, refresh, cancels>>

Snapshots == [services: SUBSET Plugins, contexts: SUBSET Plugins,
              started_plugins: Seq(Plugins), active_plugins: SUBSET Plugins,
              started: BOOLEAN]

Labels == {"idle", "plugins", "starting", "checking", "stopping"}

TypeOK ==
  /\ enabled \in [Plugins -> {"on", "off", "auto"}]
  /\ defective \subseteq Plugins
  /\ started_plugins \in Seq(Plugins)
  /\ active_plugins \subseteq Plugins
  /\ contexts \subseteq Plugins
  /\ services \subseteq Plugins
  /\ started \in BOOLEAN
  /\ health \in [Plugins -> {"none", "healthy", "unhealthy", "disabled"}]
  /\ up \subseteq Plugins
  /\ broken \subseteq Plugins
  /\ owner \in [pc: Labels, todo: Seq(Plugins), rollback: BOOLEAN,
                error: BOOLEAN, snapshot: Snapshots]
  /\ owner.pc \in {"starting", "checking"} => owner.todo # << >>
  /\ refresh \in [Refreshers -> SUBSET Plugins]
  /\ cancels \in 0 .. MaxCancels

\* _startup_snapshot()
Snapshot == [services |-> services, contexts |-> contexts,
             started_plugins |-> started_plugins, active_plugins |-> active_plugins,
             started |-> started]

Init ==
  /\ enabled \in [Plugins -> {"on", "off", "auto"}]
  /\ defective \in SUBSET Plugins
  /\ started_plugins = << >>
  /\ active_plugins = {} /\ contexts = {} /\ services = {}
  /\ started = FALSE
  /\ health = [p \in Plugins |-> "none"]
  /\ up = {} /\ broken = {}
  /\ owner = [pc |-> "idle", todo |-> << >>, rollback |-> FALSE, error |-> FALSE,
              snapshot |-> Snapshot]
  /\ refresh = [r \in Refreshers |-> {}]
  /\ cancels = 0

-----------------------------------------------------------------------------
(* startup()                                                               *)

CallStartup ==
  /\ owner.pc = "idle"
  /\ ~started
  /\ owner' = [owner EXCEPT !.pc = "plugins", !.todo = Order, !.snapshot = Snapshot]
  /\ UNCHANGED <<config, registry, plugin, health, refresh, cancels>>

\* The plugin at the head of the list, while owner.pc = "plugins".
Starts(p) == owner.pc = "plugins" /\ owner.todo # << >> /\ p = Head(owner.todo)

\* The plugin of the hook the owner is waiting for.
Awaits(p, label) == owner.pc = label /\ owner.todo # << >> /\ p = Head(owner.todo)

Continues == owner' = [owner EXCEPT !.pc = "plugins", !.todo = Tail(@)]

\* startup() raises: _rollback_startup() calls shutdown().
RollsBack ==
  owner' = [owner EXCEPT !.pc = "stopping", !.todo = Reverse(started_plugins),
                         !.rollback = TRUE, !.error = FALSE]

Startable(p) == p \notin defective /\ Deps[p] \subseteq active_plugins

\* Disabled by config, or by a problem that an automatic plugin may have.
SkipPlugin(p) ==
  /\ Starts(p)
  /\ \/ enabled[p] = "off"
     \/ enabled[p] = "auto" /\ ~Startable(p)
  /\ health' = [health EXCEPT ![p] = "disabled"]
  /\ Continues
  /\ UNCHANGED <<config, registry, plugin, refresh, cancels>>

\* An explicitly enabled plugin with the same problem fails the startup.
RefusePlugin(p) ==
  /\ Starts(p)
  /\ enabled[p] = "on"
  /\ ~Startable(p)
  /\ RollsBack
  /\ UNCHANGED <<config, registry, plugin, health, refresh, cancels>>

Enabled(p) == Starts(p) /\ enabled[p] # "off" /\ Startable(p)

\* register() raises or registers services it may not: the plugin has a context
\* and is not in started_plugins.
RegisterFails(p) ==
  /\ Enabled(p)
  /\ contexts' = contexts \cup {p}
  /\ RollsBack
  /\ UNCHANGED <<config, started_plugins, active_plugins, services, started,
                 plugin, health, refresh, cancels>>

\* Mutant: the plugin joins started_plugins only when its startup() has returned.
RegisterOnly(p) ==
  /\ Enabled(p)
  /\ contexts' = contexts \cup {p}
  /\ up' = up \cup {p}
  /\ owner' = [owner EXCEPT !.pc = "starting"]
  /\ UNCHANGED <<config, started_plugins, active_plugins, services, started,
                 broken, health, refresh, cancels>>

\* register(), and plugin.startup() is called.
RegisterPlugin(p) ==
  /\ Enabled(p)
  /\ contexts' = contexts \cup {p}
  /\ started_plugins' = Append(started_plugins, p)
  /\ up' = up \cup {p}
  /\ broken' = broken \ {p}
  /\ owner' = [owner EXCEPT !.pc = "starting"]
  /\ UNCHANGED <<config, active_plugins, services, started, health, refresh, cancels>>

\* plugin.startup() returns: the plugin is active, and its health is checked.
PluginStarts(p) ==
  /\ Awaits(p, "starting")
  /\ active_plugins' = active_plugins \cup {p}
  /\ owner' = [owner EXCEPT !.pc = "checking"]
  /\ UNCHANGED <<config, started_plugins, contexts, services, started,
                 plugin, health, refresh, cancels>>

\* plugin.startup() raises, or its services are refused afterwards.
PluginStartFails(p) ==
  /\ Awaits(p, "starting")
  /\ RollsBack
  /\ UNCHANGED <<config, registry, plugin, health, refresh, cancels>>

CheckPasses(p) ==
  /\ Awaits(p, "checking")
  /\ health' = [health EXCEPT ![p] = "healthy"]
  /\ services' = services \cup {p}
  /\ Continues
  /\ UNCHANGED <<config, started_plugins, active_plugins, contexts, started,
                 plugin, refresh, cancels>>

\* The health check fails, raises or times out.
CheckFails(p) ==
  /\ Awaits(p, "checking")
  /\ health' = [health EXCEPT ![p] = "unhealthy"]
  /\ RollsBack
  /\ UNCHANGED <<config, registry, plugin, refresh, cancels>>

StartupReturns ==
  /\ owner.pc = "plugins" /\ owner.todo = << >>
  /\ started' = TRUE
  /\ owner' = [owner EXCEPT !.pc = "idle"]
  /\ UNCHANGED <<config, started_plugins, active_plugins, contexts, services,
                 plugin, health, refresh, cancels>>

StartPlugin(p) ==
  \/ SkipPlugin(p) \/ RefusePlugin(p) \/ RegisterFails(p) \/ RegisterPlugin(p)
  \/ PluginStarts(p) \/ PluginStartFails(p) \/ CheckPasses(p) \/ CheckFails(p)

-----------------------------------------------------------------------------
(* shutdown()                                                              *)

\* Mutant: plugins are stopped in the order they were started.
CallShutdownForward ==
  /\ owner.pc = "idle"
  /\ owner' = [owner EXCEPT !.pc = "stopping", !.todo = started_plugins,
                            !.rollback = FALSE, !.error = FALSE]
  /\ UNCHANGED <<config, registry, plugin, health, refresh, cancels>>

CallShutdown ==
  /\ owner.pc = "idle"
  /\ owner' = [owner EXCEPT !.pc = "stopping", !.todo = Reverse(started_plugins),
                            !.rollback = FALSE, !.error = FALSE]
  /\ UNCHANGED <<config, registry, plugin, health, refresh, cancels>>

\* plugin.shutdown() returns; a plugin listed twice has lost its context by the
\* second time and is only taken off the list.
PluginStops(p) ==
  /\ Awaits(p, "stopping")
  /\ started_plugins' = RemoveFirst(started_plugins, p)
  /\ contexts' = contexts \ {p}
  /\ active_plugins' = active_plugins \ {p}
  /\ IF p \in contexts
     THEN up' = up \ {p} /\ broken' = broken \ {p}
     ELSE UNCHANGED plugin
  /\ owner' = [owner EXCEPT !.todo = Tail(@)]
  /\ UNCHANGED <<config, services, started, health, refresh, cancels>>

\* Mutant: a plugin whose shutdown() failed is tried again after the others.
PluginStopRequeues(p) ==
  /\ Awaits(p, "stopping")
  /\ p \in contexts
  /\ broken' = broken \cup {p}
  /\ owner' = [owner EXCEPT !.todo = Append(Tail(@), p), !.error = TRUE]
  /\ UNCHANGED <<config, registry, up, health, refresh, cancels>>

\* plugin.shutdown() raises: its state is kept and the others are still stopped.
PluginStopFails(p) ==
  /\ Awaits(p, "stopping")
  /\ p \in contexts
  /\ broken' = broken \cup {p}
  /\ owner' = [owner EXCEPT !.todo = Tail(@), !.error = TRUE]
  /\ UNCHANGED <<config, registry, up, health, refresh, cancels>>

StopPlugin(p) == PluginStops(p) \/ PluginStopFails(p)

\* Mutant: the services outlive the plugins.
ShutdownKeepsServices ==
  /\ owner.pc = "stopping" /\ owner.todo = << >> /\ ~owner.rollback
  /\ started' = (started /\ owner.error)
  /\ owner' = [owner EXCEPT !.pc = "idle"]
  /\ UNCHANGED <<config, started_plugins, active_plugins, contexts, services, plugin,
                 health, refresh, cancels>>

\* shutdown() called by the owner returns, or raises the first error.
ShutdownReturns ==
  /\ owner.pc = "stopping" /\ owner.todo = << >> /\ ~owner.rollback
  /\ IF owner.error
     THEN UNCHANGED <<services, started>>
     ELSE services' = {} /\ started' = FALSE
  /\ owner' = [owner EXCEPT !.pc = "idle"]
  /\ UNCHANGED <<config, started_plugins, active_plugins, contexts, plugin,
                 health, refresh, cancels>>

\* _rollback_startup() swallows the error and restores the snapshot.
RollbackReturns ==
  /\ owner.pc = "stopping" /\ owner.todo = << >> /\ owner.rollback
  /\ services' = owner.snapshot.services
  /\ contexts' = owner.snapshot.contexts
  /\ started_plugins' = owner.snapshot.started_plugins
  /\ active_plugins' = owner.snapshot.active_plugins
  /\ started' = owner.snapshot.started
  /\ owner' = [owner EXCEPT !.pc = "idle"]
  /\ UNCHANGED <<config, plugin, health, refresh, cancels>>

\* CancelledError is no Exception: neither handler of startup() and shutdown()
\* sees it, and the call ends where it waits.
Cancel ==
  /\ cancels < MaxCancels
  /\ \E p \in Plugins, label \in {"starting", "checking", "stopping"} : Awaits(p, label)
  /\ cancels' = cancels + 1
  /\ owner' = [owner EXCEPT !.pc = "idle"]
  /\ UNCHANGED <<config, registry, plugin, health, refresh>>

-----------------------------------------------------------------------------
(* refresh_health(): the plugins are chosen first, and their statuses are  *)
(* written when the last check has ended.                                  *)

CallRefresh(r) ==
  /\ refresh[r] = {}
  /\ refresh' = [refresh EXCEPT ![r] = Range(started_plugins) \cap active_plugins \cap contexts]
  /\ UNCHANGED <<config, registry, plugin, health, owner, cancels>>

RefreshReturns(r) ==
  /\ refresh[r] # {}
  /\ \E status \in [refresh[r] -> {"healthy", "unhealthy"}] :
       health' = [p \in Plugins |-> IF p \in refresh[r] THEN status[p] ELSE health[p]]
  /\ refresh' = [refresh EXCEPT ![r] = {}]
  /\ UNCHANGED <<config, registry, plugin, owner, cancels>>

-----------------------------------------------------------------------------
OwnerStep ==
  \/ StartupReturns \/ ShutdownReturns \/ RollbackReturns
  \/ \E p \in Plugins : StartPlugin(p) \/ StopPlugin(p)

Next ==
  \/ CallStartup \/ CallShutdown \/ OwnerStep \/ Cancel
  \/ \E r \in Refreshers : CallRefresh(r) \/ RefreshReturns(r)

Spec == Init /\ [][Next]_vars

\* The hooks of the plugins return or raise.
FairSpec == Spec /\ WF_vars(OwnerStep)

-----------------------------------------------------------------------------
(* Properties                                                              *)

\* A plugin outlives no plugin it depends on: whatever fails or is rolled back, the
\* dependencies of an active plugin are active, unless its own shutdown() failed or a
\* call was cancelled.
DependenciesActive ==
  cancels = 0 => \A p \in active_plugins \ broken : Deps[p] \subseteq active_plugins

\* Between calls, every plugin that is up and whose shutdown() has not failed is
\* one that the next shutdown() will stop, after rollbacks and cancellations too.
NoOrphans ==
  owner.pc = "idle" => up \ broken \subseteq Range(started_plugins) \cap contexts

\* A failed startup leaves no service of a plugin that it started; a started manager
\* offers the services of exactly the plugins that run.
ServicesMatchPlugins ==
  owner.pc = "idle" /\ broken = {} /\ cancels = 0 =>
    services = IF started THEN active_plugins ELSE {}

\* A manager that runs reports as disabled exactly the plugins it did not start.
DisabledReported ==
  owner.pc = "idle" /\ started /\ broken = {} /\ cancels = 0 =>
    \A p \in Plugins : health[p] = "disabled" <=> p \notin active_plugins

\* Whatever failed on the way, services and health agree with the plugins that run.
RegistriesAgree == TypeOK /\ ServicesMatchPlugins /\ DisabledReported

\* docs/architecture.md:39, docs/release-readiness.md:113: a plugin whose shutdown()
\* failed keeps the state a later shutdown() needs.
FailedShutdownKeepsState ==
  owner.pc = "idle" => broken \subseteq Range(started_plugins) \cap contexts

\* A call of startup() or shutdown() ends when the hooks of the plugins do.
CallsEnd == owner.pc # "idle" ~> owner.pc = "idle"
=============================================================================
