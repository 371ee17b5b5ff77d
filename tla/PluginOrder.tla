---------------------------- MODULE PluginOrder ----------------------------
(***************************************************************************)
(* PluginManager._resolve_order() (plugins/manager.py): the depth-first    *)
(* search that orders the installed plugins, checked against what an order *)
(* of dependencies is.  One action is the code between two calls or        *)
(* returns of visit().  Only installed dependencies are followed, so the   *)
(* graph has no other nodes.                                               *)
(***************************************************************************)
EXTENDS Naturals, Sequences, SequencesExt

CONSTANT Registered  \* the plugins, in the order in which they were given

VARIABLES
  deps,      \* metadata.dependencies of each plugin
  resolved,
  visiting,
  calls,     \* the calls of visit() in progress, the inner ones later
  root,      \* the place of the loop over the plugins
  raised     \* visit() has raised PluginDependencyError

searchVars == <<deps, resolved, visiting, calls, root, raised>>

Installed == Range(Registered)

\* Lists of distinct dependencies, the plugin itself not excluded.
DependencyLists == {l \in BoundedSeq(Installed, Len(Registered)) : IsInjective(l)}

\* A call of visit(), and the place of its loop over the dependencies.
Call(name) == [name |-> name, at |-> 1]

Init ==
  /\ deps \in [Installed -> DependencyLists]
  /\ resolved = << >>
  /\ visiting = {}
  /\ calls = << >>
  /\ root = 1
  /\ raised = FALSE

-----------------------------------------------------------------------------

\* Mutant: a plugin counts as visited as soon as it is entered.
VisitedOnEntry == Range(resolved) \cup visiting

visited == Range(resolved)

\* visit(name), called from the last of callers, up to the next call or return of visit().
Visit(name, callers) ==
  /\ \/ /\ name \in visited
        /\ calls' = callers
        /\ UNCHANGED <<visiting, raised>>
     \/ /\ name \in visiting \ visited
        /\ calls' = << >>
        /\ raised' = TRUE
        /\ UNCHANGED visiting
     \/ /\ name \notin visiting \cup visited
        /\ visiting' = visiting \cup {name}
        /\ calls' = Append(callers, Call(name))
        /\ UNCHANGED raised
  /\ UNCHANGED <<deps, resolved>>

\* for name in self.plugins
VisitPlugin ==
  /\ ~raised /\ calls = << >> /\ root <= Len(Registered)
  /\ root' = root + 1
  /\ Visit(Registered[root], << >>)

Needs(call) == deps[call.name]

\* for dependency in plugin.metadata.dependencies
VisitDependency ==
  /\ calls # << >>
  /\ LET call == Last(calls) IN
     /\ call.at <= Len(Needs(call))
     /\ Visit(Needs(call)[call.at], [calls EXCEPT ![Len(calls)].at = @ + 1])
  /\ UNCHANGED root

\* The loop has ended, and visit() returns.
Leave ==
  /\ calls # << >>
  /\ LET call == Last(calls) IN
     /\ call.at > Len(Needs(call))
     /\ visiting' = visiting \ {call.name}
     /\ resolved' = Append(resolved, call.name)
     /\ calls' = Front(calls)
  /\ UNCHANGED <<deps, root, raised>>

Returned == ~raised /\ calls = << >> /\ root > Len(Registered)

\* _resolve_order() has raised or returned.
Stay == (raised \/ Returned) /\ UNCHANGED searchVars

Next == VisitPlugin \/ VisitDependency \/ Leave \/ Stay

Spec == Init /\ [][Next]_searchVars

-----------------------------------------------------------------------------
(* Reference                                                               *)

\* A dependency cycle: plugins each of which needs one of them.
Cyclic ==
  \E S \in (SUBSET Installed) \ {{}} : \A p \in S : Range(deps[p]) \cap S # {}

\* _resolve_order() raises exactly when the dependencies are circular, even if the
\* plugins of the cycle are disabled: every installed plugin is visited.
RaisesIffCyclic == (raised => Cyclic) /\ (Returned => ~Cyclic)

\* Otherwise it lists every plugin once, after all the plugins it depends on.
DependenciesFirst ==
  Returned =>
    /\ Range(resolved) = Installed
    /\ IsInjective(resolved)
    /\ \A i, j \in DOMAIN resolved : resolved[i] \in Range(deps[resolved[j]]) => i < j

\* The search is one for dependency orders.
ResolvesOrder == RaisesIffCyclic /\ DependenciesFirst

\* Every search ends, whatever depends on what.
Ends == <>(raised \/ Returned)
=============================================================================
