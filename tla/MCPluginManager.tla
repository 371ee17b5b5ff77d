-------------------------- MODULE MCPluginManager --------------------------
(* Small instances of PluginStartup: of the manager and, beside it, of the    *)
(* search for an order, on every dependency graph over three plugins.         *)
EXTENDS PluginStartup, TLC

CONSTANTS a, b, c, r

\* b needs a; c needs a and b.
Three == <<a, b, c>>
ThreeDeps == (a :> {}) @@ (b :> {a}) @@ (c :> {a, b})

\* c alone needs a.
Two == <<a, c>>
TwoDeps == (a :> {}) @@ (c :> {a})

VARIABLE part  \* a behaviour is one of the manager or one of the search

MCInit ==
  /\ part \in {"manager", "order"}
  /\ Search!Init /\ (part = "order" \/ \A p \in Plugins : deps[p] = << >>)
  /\ Init
  /\ part = "order" => defective = {} /\ \A p \in Plugins : enabled[p] = "on"

\* Requests refresh the health, and calls are cancelled, where b is off.
Quiet == b \in Plugins /\ enabled[b] # "off" => UNCHANGED <<refresh, cancels>>

MCNext ==
  \/ part = "manager" /\ Next /\ Quiet /\ UNCHANGED <<search, part>>
  \/ part = "order" /\ Search!Next /\ UNCHANGED <<vars, part>>

MCSpec ==
  /\ MCInit /\ [][MCNext]_<<vars, search, part>>
  /\ WF_vars(part = "manager" /\ OwnerStep)
  /\ WF_search(part = "order" /\ Search!Next)

\* Every call of startup() or shutdown() ends, and so does every search.
EveryCallEnds == CallsEnd /\ (part = "order" => Search!Ends)
=============================================================================
