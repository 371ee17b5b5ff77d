------------------------ MODULE PluginManagerProofs ------------------------
(***************************************************************************)
(* The plugin manager, for every set of plugins with any dependencies that *)
(* its order respects, any configuration and any failure of the hooks:     *)
(* what is up can be stopped, nothing outlives what it depends on, and the *)
(* registries agree with the plugins that run.  And the search for their   *)
(* order, on any dependency graph.                                         *)
(***************************************************************************)
EXTENDS PluginStartup, SequenceTheorems, WellFoundedInduction, TLAPS

\* The place of each plugin in the order.
Place == [p \in Plugins |-> CHOOSE i \in DOMAIN Order : Order[i] = p]

Ascending(s) == \A i, j \in DOMAIN s : i < j => Place[s[i]] < Place[s[j]]
Descending(s) == \A i, j \in DOMAIN s : i < j => Place[s[j]] < Place[s[i]]

\* What is up can be stopped: it is registered, and shutdown() has it still to do.
Stoppable ==
  /\ up \ broken \subseteq Range(started_plugins) \cap contexts
  /\ owner.pc = "stopping" => up \ broken \subseteq Range(owner.todo)

\* The plugins are listed in the order of their dependencies.
Listed ==
  /\ Ascending(started_plugins)
  /\ active_plugins \subseteq Range(started_plugins)
  /\ \A p \in active_plugins \ broken : Deps[p] \subseteq active_plugins

\* A set that has every plugin that the configuration lets start beside it.
Closed(W) ==
  \A p \in Plugins :
    enabled[p] # "off" /\ p \notin defective /\ Deps[p] \subseteq W => p \in W

\* No startup() starts what the configuration excludes, and no refresh_health() asks it.
Eligible ==
  \A W \in SUBSET Plugins : Closed(W) =>
    /\ Range(started_plugins) \subseteq W
    /\ \A r \in Refreshers : refresh[r] \subseteq W

Nothing == started_plugins = << >> /\ active_plugins = {} /\ services = {}

\* Between calls a manager that is not started has nothing, and one that is agrees.
AtRest ==
  owner.pc = "idle" =>
    /\ ~started => Nothing
    /\ started /\ broken = {} =>
         /\ services = active_plugins
         /\ Closed(active_plugins)
         /\ \A p \in Plugins : health[p] = "disabled" <=> p \notin active_plugins

Nowhere(snapshot) ==
  /\ snapshot.services = {} /\ snapshot.active_plugins = {}
  /\ snapshot.started_plugins = << >> /\ ~snapshot.started

InStartup == owner.pc \in {"plugins", "starting", "checking"}

\* How many plugins of the order startup() has decided about.
Decided == Len(Order) - Len(owner.todo)

\* The plugin whose hook startup() waits for.
Current == IF owner.pc = "plugins" THEN {} ELSE {Order[Decided + 1]}

\* startup() goes through the order: what it has decided about is started or excluded.
StartsInOrder ==
  InStartup =>
    /\ ~started /\ Nowhere(owner.snapshot)
    /\ Len(owner.todo) <= Len(Order)
    /\ \A i \in DOMAIN owner.todo : owner.todo[i] = Order[Decided + i]
    /\ Current \subseteq Range(started_plugins)
    /\ \A p \in Range(started_plugins) \ Current : Place[p] <= Decided
    /\ active_plugins = Range(started_plugins) \ (IF owner.pc = "starting" THEN Current ELSE {})
    /\ services = Range(started_plugins) \ Current
    /\ \A p \in Current : Deps[p] \subseteq active_plugins
    /\ \A p \in Plugins : Place[p] <= Decided =>
         /\ health[p] = "disabled" <=> p \notin Range(started_plugins)
         /\ /\ enabled[p] # "off" /\ p \notin defective
            /\ Deps[p] \subseteq Range(started_plugins)
            => p \in Range(started_plugins)

\* shutdown() goes through the list from its end; what it has passed has failed.
StopsInOrder ==
  owner.pc = "stopping" =>
    /\ Descending(owner.todo)
    /\ Range(owner.todo) \subseteq Range(started_plugins)
    /\ active_plugins \ broken \subseteq Range(owner.todo)
    /\ ~owner.error => Range(started_plugins) \subseteq Range(owner.todo)
    /\ owner.error =>
         \E p \in broken \cap Range(started_plugins) : p \notin Range(owner.todo)
    /\ owner.rollback => ~started /\ Nowhere(owner.snapshot)
    /\ ~owner.rollback /\ ~started => Nothing

Undisturbed == Listed /\ Eligible /\ AtRest /\ StartsInOrder /\ StopsInOrder

IInv == TypeOK /\ Stoppable /\ (cancels = 0 => Undisturbed)

-----------------------------------------------------------------------------
(* Sequences of plugins.                                                   *)

\* Every plugin has one place, and what it depends on has an earlier one.
LEMMA Places ==
  /\ Len(Order) \in Nat /\ DOMAIN Order = 1 .. Len(Order)
  /\ \A p \in Plugins : Place[p] \in 1 .. Len(Order) /\ Order[Place[p]] = p
  /\ \A i \in 1 .. Len(Order) : Order[i] \in Plugins /\ Place[Order[i]] = i
  /\ \A p \in Plugins : \A q \in Deps[p] : q \in Plugins /\ Place[q] < Place[p]
<1>1. Len(Order) \in Nat /\ DOMAIN Order = 1 .. Len(Order)
      /\ \A i \in 1 .. Len(Order) : Order[i] \in Plugins
  BY OrderAssumption
<1>2. \A p \in Plugins : Place[p] \in DOMAIN Order /\ Order[Place[p]] = p
  BY OrderAssumption DEF Place
<1>3. \A i \in DOMAIN Order : Place[Order[i]] = i
  <2> TAKE i \in DOMAIN Order
  <2>1. Order[i] \in Plugins
    BY <1>1
  <2>2. Place[Order[i]] \in DOMAIN Order /\ Order[Place[Order[i]]] = Order[i]
    BY <2>1, <1>2
  <2> QED
    BY <2>2, OrderAssumption
<1>4. \A p \in Plugins : \A q \in Deps[p] : q \in Plugins /\ Place[q] < Place[p]
  <2> SUFFICES ASSUME NEW p \in Plugins, NEW q \in Deps[p]
               PROVE  q \in Plugins /\ Place[q] < Place[p]
    OBVIOUS
  <2>1. q \in Plugins
    BY DepsAssumption
  <2>2. /\ Place[p] \in DOMAIN Order /\ Order[Place[p]] = p
        /\ Place[q] \in DOMAIN Order /\ Order[Place[q]] = q
    BY <2>1, <1>2
  <2>3. Order[Place[q]] \in Deps[Order[Place[p]]]
    BY <2>2
  <2> QED
    BY <2>1, <2>2, <2>3, DepsAssumption
<1> QED
  BY <1>1, <1>2, <1>3, <1>4

\* What Range has of a sequence.
LEMMA Ranges ==
  ASSUME NEW s \in Seq(Plugins)
  PROVE  /\ Len(s) \in Nat /\ DOMAIN s = 1 .. Len(s)
         /\ Range(s) \subseteq Plugins
         /\ \A q : q \in Range(s) <=> \E i \in 1 .. Len(s) : s[i] = q
         /\ Range(s) = {} => s = << >>
         /\ Range(<< >>) = {}
BY DEF Range

\* The list with one more plugin at its end.
LEMMA Appended ==
  ASSUME NEW s \in Seq(Plugins), NEW p \in Plugins
  PROVE  /\ Append(s, p) \in Seq(Plugins)
         /\ Range(Append(s, p)) = Range(s) \cup {p}
         /\ Ascending(s) /\ (\A q \in Range(s) : Place[q] < Place[p]) => Ascending(Append(s, p))
<1> DEFINE t == Append(s, p)
<1>1. /\ t \in Seq(Plugins) /\ Len(t) = Len(s) + 1 /\ Len(s) \in Nat
      /\ \A i \in 1 .. Len(s) : t[i] = s[i]
      /\ t[Len(s) + 1] = p
      /\ DOMAIN t = 1 .. Len(s) + 1 /\ DOMAIN s = 1 .. Len(s)
  OBVIOUS
<1> HIDE DEF t
<1>2. Range(t) = Range(s) \cup {p}
  <2>1. \A q \in Range(t) : q \in Range(s) \cup {p}
    BY <1>1 DEF Range
  <2>2. \A q \in Range(s) : q \in Range(t)
    BY <1>1 DEF Range
  <2>3. p \in Range(t)
    BY <1>1 DEF Range
  <2> QED
    BY <2>1, <2>2, <2>3
<1>3. ASSUME Ascending(s), \A q \in Range(s) : Place[q] < Place[p]
      PROVE  Ascending(t)
  <2> SUFFICES ASSUME NEW i \in DOMAIN t, NEW j \in DOMAIN t, i < j
               PROVE  Place[t[i]] < Place[t[j]]
    BY DEF Ascending
  <2>1. CASE j = Len(s) + 1
    <3>1. i \in DOMAIN s /\ t[i] = s[i] /\ t[j] = p
      BY <1>1, <2>1
    <3>2. s[i] \in Range(s)
      BY <3>1 DEF Range
    <3> QED
      BY <3>1, <3>2, <1>3
  <2>2. CASE j # Len(s) + 1
    <3>1. i \in DOMAIN s /\ j \in DOMAIN s /\ t[i] = s[i] /\ t[j] = s[j]
      BY <1>1, <2>2
    <3> QED
      BY <3>1, <1>3 DEF Ascending
  <2> QED
    BY <2>1, <2>2
<1> QED
  BY <1>1, <1>2, <1>3 DEF t

\* The list from its end.
LEMMA Reversed ==
  ASSUME NEW s \in Seq(Plugins)
  PROVE  /\ Reverse(s) \in Seq(Plugins)
         /\ Range(Reverse(s)) = Range(s)
         /\ Ascending(s) => Descending(Reverse(s))
<1> DEFINE t == Reverse(s)
<1>1. Len(s) \in Nat /\ DOMAIN s = 1 .. Len(s) /\ \A i \in 1 .. Len(s) : s[i] \in Plugins
  OBVIOUS
<1>2. /\ DOMAIN t = 1 .. Len(s) /\ \A i \in 1 .. Len(s) : t[i] = s[(Len(s) - i) + 1]
      /\ t \in [1 .. Len(s) -> Plugins]
  <2>1. \A i \in 1 .. Len(s) : (Len(s) - i) + 1 \in 1 .. Len(s)
    BY <1>1
  <2> QED
    BY <2>1, <1>1 DEF Reverse
<1>3. t \in Seq(Plugins)
  BY <1>1, <1>2
<1> HIDE DEF t
<1>4. Range(t) = Range(s)
  <2>1. \A i \in 1 .. Len(s) : t[i] \in Range(s)
    <3> TAKE i \in 1 .. Len(s)
    <3>1. (Len(s) - i) + 1 \in DOMAIN s
      BY <1>1
    <3> QED
      BY <3>1, <1>2 DEF Range
  <2>2. \A i \in 1 .. Len(s) : s[i] \in Range(t)
    <3> TAKE i \in 1 .. Len(s)
    <3>1. (Len(s) - i) + 1 \in DOMAIN t /\ (Len(s) - ((Len(s) - i) + 1)) + 1 = i
      BY <1>1, <1>2
    <3>2. t[(Len(s) - i) + 1] = s[i]
      BY <3>1, <1>2
    <3> QED
      BY <3>1, <3>2 DEF Range
  <2> QED
    BY <2>1, <2>2, <1>1, <1>2 DEF Range
<1>5. ASSUME Ascending(s) PROVE Descending(t)
  <2> SUFFICES ASSUME NEW i \in DOMAIN t, NEW j \in DOMAIN t, i < j
               PROVE  Place[t[j]] < Place[t[i]]
    BY DEF Descending
  <2>1. /\ (Len(s) - j) + 1 \in DOMAIN s /\ (Len(s) - i) + 1 \in DOMAIN s
        /\ (Len(s) - j) + 1 < (Len(s) - i) + 1
    BY <1>1, <1>2
  <2> QED
    BY <2>1, <1>2, <1>5 DEF Ascending
<1> QED
  BY <1>3, <1>4, <1>5 DEF t

\* The list without its first plugin.
LEMMA Taken ==
  ASSUME NEW s \in Seq(Plugins), s # << >>
  PROVE  /\ Tail(s) \in Seq(Plugins) /\ Head(s) \in Plugins
         /\ Len(Tail(s)) = Len(s) - 1 /\ Len(s) \in Nat \ {0}
         /\ DOMAIN Tail(s) = 1 .. Len(s) - 1
         /\ \A i \in 1 .. Len(s) - 1 : Tail(s)[i] = s[i + 1]
         /\ Head(s) = s[1]
         /\ Range(s) = Range(Tail(s)) \cup {Head(s)}
         /\ Descending(s) =>
              Descending(Tail(s)) /\ \A q \in Range(Tail(s)) : Place[q] < Place[Head(s)]
<1> DEFINE t == Tail(s)
<1>1. /\ t \in Seq(Plugins) /\ Head(s) \in Plugins
      /\ Len(t) = Len(s) - 1 /\ Len(s) \in Nat \ {0}
      /\ DOMAIN s = 1 .. Len(s) /\ DOMAIN t = 1 .. Len(s) - 1
      /\ \A i \in 1 .. Len(s) - 1 : t[i] = s[i + 1]
      /\ Head(s) = s[1]
  OBVIOUS
<1> HIDE DEF t
<1>2. Range(s) = Range(t) \cup {Head(s)}
  <2>1. \A i \in DOMAIN s : s[i] \in Range(t) \cup {Head(s)}
    <3> TAKE i \in DOMAIN s
    <3>1. CASE i = 1
      BY <3>1, <1>1
    <3>2. CASE i # 1
      <4>1. i - 1 \in 1 .. Len(s) - 1 /\ (i - 1) + 1 = i
        BY <3>2, <1>1
      <4>2. t[i - 1] = s[i]
        BY <4>1, <1>1
      <4> QED
        BY <4>1, <4>2, <1>1 DEF Range
    <3> QED
      BY <3>1, <3>2
  <2>2. \A i \in DOMAIN t : t[i] \in Range(s)
    <3> TAKE i \in DOMAIN t
    <3>1. i + 1 \in DOMAIN s /\ t[i] = s[i + 1]
      BY <1>1
    <3> QED
      BY <3>1 DEF Range
  <2>3. Head(s) \in Range(s)
    BY <1>1 DEF Range
  <2> QED
    BY <2>1, <2>2, <2>3 DEF Range
<1>3. ASSUME Descending(s)
      PROVE  Descending(t) /\ \A q \in Range(t) : Place[q] < Place[Head(s)]
  <2>1. ASSUME NEW i \in DOMAIN t
        PROVE  i + 1 \in DOMAIN s /\ t[i] = s[i + 1] /\ 1 \in DOMAIN s /\ 1 < i + 1
    BY <1>1
  <2>2. ASSUME NEW i \in DOMAIN t PROVE Place[t[i]] < Place[Head(s)]
    BY <2>1, <2>2, <1>1, <1>3 DEF Descending
  <2>3. ASSUME NEW i \in DOMAIN t, NEW j \in DOMAIN t, i < j
        PROVE  Place[t[j]] < Place[t[i]]
    <3>1. i + 1 < j + 1
      BY <2>3, <1>1
    <3> QED
      BY <3>1, <2>1, <1>3 DEF Descending
  <2> QED
    BY <2>2, <2>3 DEF Range, Descending
<1> QED
  BY <1>1, <1>2, <1>3 DEF t

\* Min of a set of naturals.
LEMMA Smallest ==
  ASSUME NEW S, S \subseteq Nat, S # {}
  PROVE  Min(S) \in S
<1>1. PICK x \in S : \A y \in S : ~(<<y, x>> \in OpToRel(<, Nat))
  BY NatLessThanWellFounded, WFMin
<1>2. \A y \in S : x <= y
  <2> SUFFICES ASSUME NEW y \in S PROVE ~(y < x)
    OBVIOUS
  <2> QED
    BY <1>1 DEF OpToRel
<1> QED
  BY <1>2 DEF Min

\* The length of the part of a list behind a place.
LEMMA Lengths ==
  ASSUME NEW m \in Nat, NEW n \in Nat, m <= n
  PROVE  (IF m + 1 <= n THEN n - (m + 1) + 1 ELSE 0) = n - m
OBVIOUS

\* A list without the place i.
LEMMA Cut ==
  ASSUME NEW s \in Seq(Plugins), NEW i \in 1 .. Len(s)
  PROVE  /\ RemoveAt(s, i) \in Seq(Plugins)
         /\ Len(RemoveAt(s, i)) = Len(s) - 1 /\ Len(s) \in Nat
         /\ \A j \in 1 .. Len(s) - 1 :
              RemoveAt(s, i)[j] = IF j < i THEN s[j] ELSE s[j + 1]
<1> DEFINE u == SubSeq(s, 1, i - 1)
           v == SubSeq(s, i + 1, Len(s))
<1>1. Len(s) \in Nat /\ i \in Nat /\ 1 <= i /\ i <= Len(s) /\ DOMAIN s = 1 .. Len(s)
  OBVIOUS
<1>2. u \in Seq(Plugins) /\ Len(u) = i - 1 /\ \A j \in 1 .. i - 1 : u[j] = s[j]
  BY <1>1
<1>3. /\ v \in Seq(Plugins) /\ Len(v) = Len(s) - i
      /\ \A j \in 1 .. Len(s) - i : v[j] = s[i + j]
  <2>1. /\ v \in Seq(Plugins)
        /\ Len(v) = IF i + 1 <= Len(s) THEN Len(s) - (i + 1) + 1 ELSE 0
        /\ \A j \in 1 .. Len(s) - (i + 1) + 1 : v[j] = s[(i + 1) + j - 1]
    BY <1>1, SubSeqProperties
  <2> HIDE DEF v
  <2>2. Len(v) = Len(s) - i
    BY <2>1, <1>1, Lengths
  <2>3. \A j \in 1 .. Len(s) - i : v[j] = s[i + j]
    <3> TAKE j \in 1 .. Len(s) - i
    <3>1. j \in 1 .. Len(s) - (i + 1) + 1 /\ (i + 1) + j - 1 = i + j
      BY <1>1
    <3> QED
      BY <3>1, <2>1
  <2> QED
    BY <2>1, <2>2, <2>3
<1> HIDE DEF u, v
<1>4. /\ u \o v \in Seq(Plugins) /\ Len(u \o v) = Len(s) - 1
      /\ \A j \in 1 .. Len(s) - 1 : (u \o v)[j] = IF j <= i - 1 THEN u[j] ELSE v[j - (i - 1)]
  <2>1. /\ u \o v \in Seq(Plugins) /\ Len(u \o v) = Len(u) + Len(v)
        /\ \A j \in 1 .. Len(u) + Len(v) :
             (u \o v)[j] = IF j <= Len(u) THEN u[j] ELSE v[j - Len(u)]
    BY <1>2, <1>3, ConcatProperties
  <2>2. Len(u) = i - 1 /\ Len(u) + Len(v) = Len(s) - 1
    BY <1>1, <1>2, <1>3
  <2> QED
    BY <2>1, <2>2
<1>5. ASSUME NEW j \in 1 .. Len(s) - 1
      PROVE  (u \o v)[j] = IF j < i THEN s[j] ELSE s[j + 1]
  <2>1. CASE j < i
    BY <2>1, <1>1, <1>2, <1>4
  <2>2. CASE ~(j < i)
    <3>1. j - (i - 1) \in 1 .. Len(s) - i /\ i + (j - (i - 1)) = j + 1
      BY <2>2, <1>1
    <3> QED
      BY <2>2, <3>1, <1>1, <1>3, <1>4
  <2> QED
    BY <2>1, <2>2
<1> QED
  BY <1>1, <1>4, <1>5 DEF u, v, RemoveAt

\* list.remove(p) takes the one entry of p from a list in order.
LEMMA Removed ==
  ASSUME NEW s \in Seq(Plugins), NEW p \in Plugins
  PROVE  /\ RemoveFirst(s, p) \in Seq(Plugins)
         /\ Range(s) \ {p} \subseteq Range(RemoveFirst(s, p))
         /\ Ascending(s) =>
              /\ Ascending(RemoveFirst(s, p))
              /\ Range(RemoveFirst(s, p)) = Range(s) \ {p}
<1>1. CASE ~ \E i \in 1 .. Len(s) : s[i] = p
  <2>1. RemoveFirst(s, p) = s
    BY <1>1 DEF RemoveFirst
  <2>2. p \notin Range(s)
    BY <1>1 DEF Range
  <2> QED
    BY <2>1, <2>2
<1>2. CASE \E i \in 1 .. Len(s) : s[i] = p
  <2> DEFINE I == {i \in 1 .. Len(s) : s[i] = p}
             i == Min(I)
  <2>1. i \in I
    <3>1. I \subseteq Nat /\ I # {}
      BY <1>2
    <3> QED
      BY <3>1, Smallest
  <2>2. RemoveFirst(s, p) = RemoveAt(s, i)
    BY <1>2, <2>1 DEF RemoveFirst, SelectInSeq
  <2> HIDE DEF i
  <2>3. i \in 1 .. Len(s) /\ s[i] = p
    BY <2>1
  <2> DEFINE t == RemoveAt(s, i)
  <2>4. /\ t \in Seq(Plugins) /\ Len(t) = Len(s) - 1 /\ Len(s) \in Nat
        /\ DOMAIN t = 1 .. Len(s) - 1 /\ DOMAIN s = 1 .. Len(s)
        /\ \A j \in 1 .. Len(s) - 1 : t[j] = IF j < i THEN s[j] ELSE s[j + 1]
    <3>1. /\ t \in Seq(Plugins) /\ Len(t) = Len(s) - 1 /\ Len(s) \in Nat
          /\ \A j \in 1 .. Len(s) - 1 : t[j] = IF j < i THEN s[j] ELSE s[j + 1]
      BY <2>3, Cut
    <3> HIDE DEF t
    <3>2. DOMAIN t = 1 .. Len(s) - 1 /\ DOMAIN s = 1 .. Len(s)
      BY <3>1, LenProperties
    <3> QED  BY <3>1, <3>2
  <2> HIDE DEF t
  <2>5. \A q \in Range(s) \ {p} : q \in Range(t)
    <3> TAKE q \in Range(s) \ {p}
    <3>1. PICK k \in 1 .. Len(s) : s[k] = q
      BY <2>4 DEF Range
    <3>2. k # i
      BY <3>1, <2>3
    <3>3. CASE k < i
      BY <3>1, <3>3, <2>3, <2>4 DEF Range
    <3>4. CASE i < k
      <4>1. k - 1 \in 1 .. Len(s) - 1 /\ ~(k - 1 < i) /\ (k - 1) + 1 = k
        BY <3>4, <2>3, <2>4
      <4>2. t[k - 1] = q
        BY <4>1, <3>1, <2>4
      <4> QED
        BY <4>1, <4>2, <2>4 DEF Range
    <3> QED
      BY <3>2, <3>3, <3>4, <2>3, <2>4
  <2> DEFINE At(j) == IF j < i THEN j ELSE j + 1
  <2>6. ASSUME NEW j \in DOMAIN t
        PROVE  At(j) \in DOMAIN s /\ At(j) # i /\ t[j] = s[At(j)] /\ At(j) \in Nat
    BY <2>3, <2>4
  <2>7. ASSUME NEW j \in DOMAIN t, NEW k \in DOMAIN t, j < k PROVE At(j) < At(k)
    BY <2>3, <2>4, <2>7
  <2> HIDE DEF At
  <2>8. ASSUME Ascending(s)
        PROVE  Ascending(t) /\ Range(t) = Range(s) \ {p}
    <3>1. Ascending(t)
      <4> SUFFICES ASSUME NEW j \in DOMAIN t, NEW k \in DOMAIN t, j < k
                   PROVE  Place[t[j]] < Place[t[k]]
        BY DEF Ascending
      <4> QED
        BY <2>6, <2>7, <2>8 DEF Ascending
    <3>2. ASSUME NEW j \in DOMAIN t PROVE t[j] \in Range(s) \ {p}
      <4>1. At(j) \in DOMAIN s /\ At(j) # i /\ t[j] = s[At(j)] /\ At(j) \in Nat
        BY <2>6
      <4>2. Place[s[At(j)]] \in Nat /\ Place[p] \in Nat /\ i \in DOMAIN s /\ i \in Nat
        BY <4>1, <2>3, <2>4, Places
      <4>3. At(j) < i \/ i < At(j)
        BY <4>1, <4>2
      <4>4. Place[s[At(j)]] < Place[p] \/ Place[p] < Place[s[At(j)]]
        BY <4>1, <4>2, <4>3, <2>3, <2>8 DEF Ascending
      <4>5. s[At(j)] # p
        BY <4>2, <4>4
      <4> QED
        BY <4>1, <4>5 DEF Range
    <3> QED
      BY <3>1, <3>2, <2>5 DEF Range
  <2> QED
    BY <2>2, <2>4, <2>5, <2>8 DEF t
<1> QED
  BY <1>1, <1>2

-----------------------------------------------------------------------------
(* Types.                                                                  *)

\* What the calls do to the record of the owner keeps its type.
Owners == [pc: Labels, todo: Seq(Plugins), rollback: BOOLEAN, error: BOOLEAN,
           snapshot: Snapshots]

\* The list to stop, and what is left of the list, are lists of plugins.
LEMMA Lists ==
  ASSUME TypeOK
  PROVE  /\ owner \in Owners
         /\ Order \in Seq(Plugins)
         /\ Reverse(started_plugins) \in Seq(Plugins)
         /\ owner.todo # << >> => Tail(owner.todo) \in Seq(Plugins)
         /\ \A p \in Plugins : /\ RemoveFirst(started_plugins, p) \in Seq(Plugins)
                              /\ Append(started_plugins, p) \in Seq(Plugins)
         /\ Snapshot \in Snapshots
<1>1. owner \in Owners /\ started_plugins \in Seq(Plugins) /\ owner.todo \in Seq(Plugins)
  BY DEF TypeOK, Owners
<1>2. Snapshot \in Snapshots
  BY DEF TypeOK, Snapshot, Snapshots
<1>3. \A p \in Plugins : /\ RemoveFirst(started_plugins, p) \in Seq(Plugins)
                        /\ Append(started_plugins, p) \in Seq(Plugins)
  BY <1>1, Removed, Appended
<1> QED
  BY <1>1, <1>2, <1>3, OrderAssumption, Reversed, Taken

\* Every initial state has the types.
LEMMA InitTyped == Init => TypeOK
<1> SUFFICES ASSUME Init PROVE TypeOK
  OBVIOUS
<1>1. cancels \in 0 .. MaxCancels
  BY MaxCancelsAssumption DEF Init
<1>2. Snapshot \in Snapshots
  <2>1. << >> \in Seq(Plugins)
    OBVIOUS
  <2>2. /\ services \in SUBSET Plugins /\ contexts \in SUBSET Plugins
        /\ started_plugins \in Seq(Plugins) /\ active_plugins \in SUBSET Plugins
        /\ started \in BOOLEAN
    BY <2>1 DEF Init
  <2> QED
    BY <2>2 DEF Snapshot, Snapshots
<1>3. owner \in Owners /\ owner.pc = "idle"
  BY <1>2 DEF Init, Owners, Labels
<1> QED
  BY <1>1, <1>3 DEF Init, TypeOK, Owners

\* The calls of the owner and their returns.
LEMMA CallsTyped ==
  ASSUME TypeOK,
         CallStartup \/ CallShutdown \/ StartupReturns \/ ShutdownReturns \/ RollbackReturns
         \/ Cancel
  PROVE  TypeOK'
<1> USE Lists DEF Labels
<1>1. CASE CallStartup
  BY <1>1 DEF CallStartup, TypeOK, Owners, config, registry, plugin
<1>2. CASE CallShutdown
  BY <1>2 DEF CallShutdown, TypeOK, Owners, config, registry, plugin
<1>3. CASE StartupReturns
  BY <1>3 DEF StartupReturns, TypeOK, Owners, config, registry, plugin
<1>4. CASE ShutdownReturns
  BY <1>4 DEF ShutdownReturns, TypeOK, Owners, config, registry, plugin
<1>5. CASE RollbackReturns
  BY <1>5 DEF RollbackReturns, TypeOK, Owners, Snapshots, config, registry, plugin
<1>6. CASE Cancel
  <2>1. cancels' \in 0 .. MaxCancels
    BY <1>6, MaxCancelsAssumption DEF Cancel, TypeOK
  <2> QED
    BY <1>6, <2>1 DEF Cancel, TypeOK, Owners, config, registry, plugin
<1> QED
  BY <1>1, <1>2, <1>3, <1>4, <1>5, <1>6

\* The steps of startup() about one plugin.
LEMMA StartsTyped ==
  ASSUME TypeOK, NEW p \in Plugins, StartPlugin(p)
  PROVE  TypeOK'
<1> USE Lists DEF Labels, Starts, Awaits, Enabled, Continues, RollsBack
<1>1. CASE SkipPlugin(p)
  BY <1>1 DEF SkipPlugin, TypeOK, Owners, config, registry, plugin
<1>2. CASE RefusePlugin(p)
  BY <1>2 DEF RefusePlugin, TypeOK, Owners, config, registry, plugin
<1>3. CASE RegisterFails(p)
  BY <1>3 DEF RegisterFails, TypeOK, Owners, config, registry, plugin
<1>4. CASE RegisterPlugin(p)
  BY <1>4 DEF RegisterPlugin, TypeOK, Owners, config, registry, plugin
<1>5. CASE PluginStarts(p)
  BY <1>5 DEF PluginStarts, TypeOK, Owners, config, registry, plugin
<1>6. CASE PluginStartFails(p)
  BY <1>6 DEF PluginStartFails, TypeOK, Owners, config, registry, plugin
<1>7. CASE CheckPasses(p)
  BY <1>7 DEF CheckPasses, TypeOK, Owners, config, registry, plugin
<1>8. CASE CheckFails(p)
  BY <1>8 DEF CheckFails, TypeOK, Owners, config, registry, plugin
<1> QED
  BY <1>1, <1>2, <1>3, <1>4, <1>5, <1>6, <1>7, <1>8 DEF StartPlugin

\* The steps of shutdown() about one plugin.
LEMMA StopsTyped ==
  ASSUME TypeOK, NEW p \in Plugins, StopPlugin(p)
  PROVE  TypeOK'
<1> USE Lists DEF Labels, Awaits
<1>1. CASE PluginStops(p)
  BY <1>1 DEF PluginStops, TypeOK, Owners, config, registry, plugin
<1>2. CASE PluginStopFails(p)
  BY <1>2 DEF PluginStopFails, TypeOK, Owners, config, registry, plugin
<1> QED
  BY <1>1, <1>2 DEF StopPlugin

\* The steps of refresh_health().
LEMMA RefreshesTyped ==
  ASSUME TypeOK, NEW r \in Refreshers, CallRefresh(r) \/ RefreshReturns(r)
  PROVE  TypeOK'
<1>1. CASE CallRefresh(r)
  BY <1>1 DEF CallRefresh, TypeOK, config, registry, plugin
<1>2. CASE RefreshReturns(r)
  BY <1>2 DEF RefreshReturns, TypeOK, config, registry, plugin
<1> QED
  BY <1>1, <1>2

\* Every step keeps the types.
LEMMA StepsTyped ==
  ASSUME TypeOK, [Next]_vars
  PROVE  TypeOK'
<1>1. CASE UNCHANGED vars
  BY <1>1 DEF TypeOK, vars, config, registry, plugin
<1> QED
  BY <1>1, CallsTyped, StartsTyped, StopsTyped, RefreshesTyped DEF Next, OwnerStep

-----------------------------------------------------------------------------
(* What is up can be stopped.                                              *)

\* The steps of the owner between the hooks keep what is up stoppable.
LEMMA CallsKeepStoppable ==
  ASSUME TypeOK, Stoppable,
         CallStartup \/ CallShutdown \/ StartupReturns \/ ShutdownReturns \/ RollbackReturns
         \/ Cancel
  PROVE  Stoppable'
<1>0. started_plugins \in Seq(Plugins) /\ Range(Reverse(started_plugins)) = Range(started_plugins)
      /\ owner \in Owners
  BY Lists, Reversed DEF TypeOK
<1>1. CASE CallStartup
  BY <1>0, <1>1 DEF CallStartup, Stoppable, Owners, config, registry, plugin
<1>2. CASE CallShutdown
  BY <1>0, <1>2 DEF CallShutdown, Stoppable, Owners, config, registry, plugin
<1>3. CASE StartupReturns
  BY <1>0, <1>3 DEF StartupReturns, Stoppable, Owners, config, registry, plugin
<1>4. CASE ShutdownReturns
  BY <1>0, <1>4 DEF ShutdownReturns, Stoppable, Owners, config, registry, plugin
<1>5. CASE RollbackReturns
  <2>1. up \ broken = {}
    <3>1. Range(owner.todo) = {}
      BY <1>5 DEF RollbackReturns, Range
    <3> QED
      BY <1>5, <3>1 DEF RollbackReturns, Stoppable
  <2> QED
    BY <1>0, <1>5, <2>1 DEF RollbackReturns, Stoppable, Owners, plugin
<1>6. CASE Cancel
  BY <1>0, <1>6 DEF Cancel, Stoppable, Owners, config, registry, plugin
<1> QED
  BY <1>1, <1>2, <1>3, <1>4, <1>5, <1>6

\* A plugin is up only once it is listed with a context; a failed startup stops the list.
LEMMA StartsKeepStoppable ==
  ASSUME TypeOK, Stoppable, NEW p \in Plugins, StartPlugin(p)
  PROVE  Stoppable'
<1>0. /\ Range(Reverse(started_plugins)) = Range(started_plugins)
      /\ Range(Append(started_plugins, p)) = Range(started_plugins) \cup {p}
      /\ owner \in Owners
  BY Lists, Reversed, Appended DEF TypeOK
<1> USE <1>0 DEF Starts, Awaits, Enabled, Continues, RollsBack, Stoppable, Owners
<1>1. CASE SkipPlugin(p)
  BY <1>1 DEF SkipPlugin, registry, plugin
<1>2. CASE RefusePlugin(p)
  BY <1>2 DEF RefusePlugin, registry, plugin
<1>3. CASE RegisterFails(p)
  BY <1>3 DEF RegisterFails, plugin
<1>4. CASE RegisterPlugin(p)
  BY <1>4 DEF RegisterPlugin
<1>5. CASE PluginStarts(p)
  BY <1>5 DEF PluginStarts, plugin
<1>6. CASE PluginStartFails(p)
  BY <1>6 DEF PluginStartFails, registry, plugin
<1>7. CASE CheckPasses(p)
  BY <1>7 DEF CheckPasses, plugin
<1>8. CASE CheckFails(p)
  BY <1>8 DEF CheckFails, registry, plugin
<1> QED
  BY <1>1, <1>2, <1>3, <1>4, <1>5, <1>6, <1>7, <1>8 DEF StartPlugin

\* A plugin leaves the lists when its shutdown() has returned, and only that one does.
LEMMA StopsKeepStoppable ==
  ASSUME TypeOK, Stoppable, NEW p \in Plugins, StopPlugin(p)
  PROVE  Stoppable'
<1>1. /\ owner \in Owners /\ owner.pc = "stopping"
      /\ Range(owner.todo) = Range(Tail(owner.todo)) \cup {p}
      /\ Range(started_plugins) \ {p} \subseteq Range(RemoveFirst(started_plugins, p))
  BY Lists, Taken, Removed DEF TypeOK, Owners, StopPlugin, PluginStops, PluginStopFails, Awaits
<1>2. CASE PluginStops(p)
  <2>1. /\ started_plugins' = RemoveFirst(started_plugins, p) /\ contexts' = contexts \ {p}
        /\ owner'.todo = Tail(owner.todo)
    BY <1>1, <1>2 DEF PluginStops, Owners
  <2>2. up' \ broken' \subseteq (up \ broken) \ {p}
    BY <1>2 DEF PluginStops, Stoppable, plugin
  <2> QED
    BY <1>1, <2>1, <2>2 DEF Stoppable
<1>3. CASE PluginStopFails(p)
  BY <1>1, <1>3 DEF PluginStopFails, Stoppable, Owners, registry
<1> QED
  BY <1>2, <1>3 DEF StopPlugin

\* Every step keeps what is up stoppable.
LEMMA StepsKeepStoppable ==
  ASSUME TypeOK, Stoppable, [Next]_vars
  PROVE  Stoppable'
<1>1. CASE UNCHANGED vars
  BY <1>1 DEF Stoppable, vars, registry, plugin
<1>2. ASSUME NEW r \in Refreshers, CallRefresh(r) \/ RefreshReturns(r) PROVE Stoppable'
  BY <1>2 DEF CallRefresh, RefreshReturns, Stoppable, registry, plugin
<1> QED
  BY <1>1, <1>2, CallsKeepStoppable, StartsKeepStoppable, StopsKeepStoppable DEF Next, OwnerStep

-----------------------------------------------------------------------------
(* What startup() starts and shutdown() stops, when no call is cancelled.  *)

\* Where startup() stands in the order.
LEMMA Progress ==
  ASSUME TypeOK, StartsInOrder, InStartup
  PROVE  /\ Decided \in Nat /\ Decided <= Len(Order) /\ Len(owner.todo) \in Nat
         /\ Decided = Len(Order) - Len(owner.todo)
         /\ owner.todo = << >> => Decided = Len(Order)
         /\ owner.todo # << >> =>
              /\ Decided + 1 \in 1 .. Len(Order)
              /\ Head(owner.todo) = Order[Decided + 1] /\ Head(owner.todo) \in Plugins
              /\ Place[Head(owner.todo)] = Decided + 1
              /\ Tail(owner.todo) \in Seq(Plugins)
              /\ Len(Tail(owner.todo)) = Len(owner.todo) - 1
              /\ \A i \in DOMAIN Tail(owner.todo) :
                   Tail(owner.todo)[i] = Order[(Decided + 1) + i]
<1>1. /\ owner.todo \in Seq(Plugins) /\ Len(owner.todo) \in Nat /\ Len(owner.todo) <= Len(Order)
      /\ DOMAIN owner.todo = 1 .. Len(owner.todo)
      /\ \A i \in DOMAIN owner.todo : owner.todo[i] = Order[Decided + i]
  BY DEF TypeOK, StartsInOrder
<1>2. Decided \in Nat /\ Decided <= Len(Order) /\ Decided = Len(Order) - Len(owner.todo)
  BY <1>1, Places DEF Decided
<1>3. owner.todo = << >> => Decided = Len(Order)
  BY <1>1, <1>2, Places
<1>4. ASSUME owner.todo # << >>
      PROVE  /\ Decided + 1 \in 1 .. Len(Order)
             /\ Head(owner.todo) = Order[Decided + 1] /\ Head(owner.todo) \in Plugins
             /\ Place[Head(owner.todo)] = Decided + 1
             /\ Tail(owner.todo) \in Seq(Plugins)
             /\ Len(Tail(owner.todo)) = Len(owner.todo) - 1
             /\ \A i \in DOMAIN Tail(owner.todo) :
                  Tail(owner.todo)[i] = Order[(Decided + 1) + i]
  <2>1. /\ Tail(owner.todo) \in Seq(Plugins) /\ Len(owner.todo) \in Nat \ {0}
        /\ Len(Tail(owner.todo)) = Len(owner.todo) - 1
        /\ DOMAIN Tail(owner.todo) = 1 .. Len(owner.todo) - 1
        /\ \A i \in 1 .. Len(owner.todo) - 1 : Tail(owner.todo)[i] = owner.todo[i + 1]
        /\ Head(owner.todo) = owner.todo[1]
    BY <1>1, <1>4, Taken
  <2>0. ASSUME NEW n \in Nat, NEW k \in Nat \ {0}, NEW d \in Nat, d = n - k
        PROVE  d + 1 \in 1 .. n /\ 1 \in 1 .. k
    BY <2>0
  <2>2. Decided + 1 \in 1 .. Len(Order) /\ 1 \in DOMAIN owner.todo
    <3>1. Len(Order) \in Nat
      BY Places
    <3> QED
      BY <1>1, <1>2, <2>0, <2>1, <3>1
  <2>5. owner.todo[1] = Order[Decided + 1]
    BY <1>1, <2>2
  <2>3. Order[Decided + 1] \in Plugins /\ Place[Order[Decided + 1]] = Decided + 1
    BY <2>2, Places
  <2>4. ASSUME NEW i \in DOMAIN Tail(owner.todo)
        PROVE  Tail(owner.todo)[i] = Order[(Decided + 1) + i]
    <3>1. i \in 1 .. Len(owner.todo) - 1 /\ i \in Nat
      BY <2>1
    <3>2. i + 1 \in DOMAIN owner.todo
      BY <3>1, <1>1
    <3>3. Decided + (i + 1) = (Decided + 1) + i
      BY <3>1, <1>2
    <3>4. Tail(owner.todo)[i] = owner.todo[i + 1] /\ owner.todo[i + 1] = Order[Decided + (i + 1)]
      BY <3>1, <3>2, <1>1, <2>1
    <3> QED
      BY <3>3, <3>4
  <2> QED
    BY <2>1, <2>2, <2>3, <2>4, <2>5
<1> QED
  BY <1>1, <1>2, <1>3, <1>4

\* A startup() that has not yet decided about a plugin has not listed it.
LEMMA NotYetListed ==
  ASSUME TypeOK, StartsInOrder, owner.pc = "plugins", owner.todo # << >>
  PROVE  /\ Head(owner.todo) \notin Range(started_plugins)
         /\ \A q \in Range(started_plugins) : Place[q] < Place[Head(owner.todo)]
<1>1. InStartup
  BY DEF InStartup
<1>2. \A q \in Range(started_plugins) : q \in Plugins /\ Place[q] \in Nat /\ Place[q] <= Decided
  BY <1>1, Places, Ranges DEF TypeOK, StartsInOrder, Current
<1>3. Decided \in Nat /\ Place[Head(owner.todo)] = Decided + 1
  BY <1>1, Progress
<1> QED
  BY <1>2, <1>3

\* A startup() that begins has decided nothing.
LEMMA CallStartupKeeps ==
  ASSUME TypeOK, Undisturbed, CallStartup
  PROVE  Undisturbed'
<1>1. /\ owner \in Owners /\ owner.pc = "idle" /\ ~started /\ Nothing
      /\ owner' = [owner EXCEPT !.pc = "plugins", !.todo = Order, !.snapshot = Snapshot]
      /\ UNCHANGED <<enabled, defective, started_plugins, active_plugins, services, started,
                     broken, health, refresh>>
  BY Lists DEF CallStartup, Undisturbed, AtRest, config, registry, plugin
<1>2. /\ owner'.pc = "plugins" /\ owner'.todo = Order /\ owner'.snapshot = Snapshot
  BY <1>1 DEF Owners
<1>3. Listed' /\ Eligible' /\ AtRest' /\ StopsInOrder'
  BY <1>1, <1>2 DEF Undisturbed, Listed, Eligible, Closed, AtRest, StopsInOrder, Ascending
<1>4. StartsInOrder'
  <2>1. Decided' = 0
    BY <1>2, Places DEF Decided
  <2>2. /\ ~started' /\ Nowhere(owner'.snapshot)
        /\ Current' = {} /\ Range(started_plugins') = {}
        /\ active_plugins' = {} /\ services' = {}
    BY <1>1, <1>2 DEF Nothing, Nowhere, Snapshot, Current, Range
  <2>3. Len(owner'.todo) <= Len(Order) /\ \A i \in DOMAIN Order : owner'.todo[i] = Order[0 + i]
    BY <1>2, Places
  <2>4. \A p \in Plugins : ~(Place[p] <= Decided')
    BY <2>1, Places
  <2> QED
    BY <1>2, <2>1, <2>2, <2>3, <2>4 DEF StartsInOrder
<1> QED
  BY <1>3, <1>4 DEF Undisturbed

\* A startup() that fails has the plugins to stop that it has listed.
LEMMA RollsBackKeeps ==
  ASSUME TypeOK, Undisturbed, InStartup, RollsBack,
         UNCHANGED <<enabled, defective, started_plugins, active_plugins, services, started,
                     broken, refresh>>
  PROVE  Undisturbed'
<1>1. /\ owner \in Owners /\ ~started /\ Nowhere(owner.snapshot)
      /\ started_plugins \in Seq(Plugins)
  BY Lists DEF TypeOK, Undisturbed, StartsInOrder
<1>2. /\ owner'.pc = "stopping" /\ owner'.todo = Reverse(started_plugins)
      /\ owner'.rollback /\ ~owner'.error /\ owner'.snapshot = owner.snapshot
  BY <1>1 DEF RollsBack, Owners
<1>3. Listed' /\ Eligible' /\ AtRest' /\ StartsInOrder'
  BY <1>2 DEF Undisturbed, Listed, Eligible, Closed, AtRest, StartsInOrder, InStartup, Ascending
<1>4. StopsInOrder'
  <2>1. Range(owner'.todo) = Range(started_plugins) /\ Descending(owner'.todo)
    BY <1>1, <1>2, Reversed DEF Undisturbed, Listed
  <2>2. active_plugins \subseteq Range(started_plugins)
    BY DEF Undisturbed, Listed
  <2> QED
    BY <1>1, <1>2, <2>1, <2>2 DEF StopsInOrder, Descending
<1> QED
  BY <1>3, <1>4 DEF Undisturbed

\* startup() goes on with the next plugin.
LEMMA ContinuesAdvances ==
  ASSUME TypeOK, StartsInOrder, InStartup, owner.todo # << >>, Continues
  PROVE  /\ owner'.pc = "plugins" /\ owner'.snapshot = owner.snapshot
         /\ Decided' = Decided + 1 /\ Current' = {}
         /\ Len(owner'.todo) <= Len(Order)
         /\ \A i \in DOMAIN owner'.todo : owner'.todo[i] = Order[Decided' + i]
<1>1. /\ owner'.pc = "plugins" /\ owner'.snapshot = owner.snapshot
      /\ owner'.todo = Tail(owner.todo)
  BY Lists DEF Continues, Owners
<1>2. /\ Len(owner.todo) \in Nat /\ Decided \in Nat /\ Decided = Len(Order) - Len(owner.todo)
      /\ Len(Tail(owner.todo)) = Len(owner.todo) - 1
      /\ \A i \in DOMAIN Tail(owner.todo) : Tail(owner.todo)[i] = Order[(Decided + 1) + i]
  BY Progress
<1>3. Decided' = Len(Order) - Len(owner'.todo)
  BY DEF Decided
<1>4. Len(Order) \in Nat
  BY Places
<1>5. ASSUME NEW n \in Nat, NEW k \in Nat, NEW d \in Nat, d = n - k
      PROVE  n - (k - 1) = d + 1 /\ k - 1 <= n
  BY <1>5
<1>6. Decided' = Decided + 1 /\ Len(owner'.todo) <= Len(Order)
  <2>1. Len(owner'.todo) = Len(owner.todo) - 1
    BY <1>1, <1>2
  <2>2. /\ Len(Order) - (Len(owner.todo) - 1) = Decided + 1
        /\ Len(owner.todo) - 1 <= Len(Order)
    BY <1>2, <1>4, <1>5
  <2> QED
    BY <1>3, <2>1, <2>2
<1>7. \A i \in DOMAIN owner'.todo : owner'.todo[i] = Order[Decided' + i]
  BY <1>1, <1>2, <1>6
<1> QED
  BY <1>1, <1>6, <1>7 DEF Current

\* A plugin that the configuration excludes is reported as disabled.
LEMMA SkipKeeps ==
  ASSUME TypeOK, Undisturbed, NEW p \in Plugins, SkipPlugin(p)
  PROVE  Undisturbed'
<1>1. /\ owner.pc = "plugins" /\ owner.todo # << >> /\ p = Head(owner.todo) /\ InStartup
      /\ StartsInOrder /\ Continues
      /\ health' = [health EXCEPT ![p] = "disabled"]
      /\ ~(enabled[p] # "off" /\ p \notin defective /\ Deps[p] \subseteq active_plugins)
      /\ UNCHANGED <<enabled, defective, started_plugins, active_plugins, services, started,
                     broken, refresh>>
  BY DEF SkipPlugin, Starts, Startable, InStartup, Undisturbed, config, registry, plugin
<1>2. /\ owner'.pc = "plugins" /\ owner'.snapshot = owner.snapshot
      /\ Decided' = Decided + 1 /\ Current' = {} /\ Current = {}
      /\ Len(owner'.todo) <= Len(Order)
      /\ \A i \in DOMAIN owner'.todo : owner'.todo[i] = Order[Decided' + i]
  BY <1>1, ContinuesAdvances DEF Current
<1>3. Listed' /\ Eligible' /\ AtRest' /\ StopsInOrder'
  BY <1>1, <1>2 DEF Undisturbed, Listed, Eligible, Closed, AtRest, StopsInOrder, Ascending
<1>4. /\ Decided \in Nat /\ Place[p] = Decided + 1 /\ p \notin Range(started_plugins)
      /\ Range(started_plugins) \subseteq Plugins /\ health \in [Plugins -> {"none", "healthy", "unhealthy", "disabled"}]
  BY <1>1, Progress, NotYetListed, Ranges DEF TypeOK
<1>5. \A q \in Plugins : Place[q] \in Nat /\ (Place[q] = Place[p] => q = p)
  BY Places
<1>6. /\ ~started /\ Nowhere(owner.snapshot)
      /\ \A q \in Range(started_plugins) : Place[q] <= Decided
      /\ active_plugins = Range(started_plugins) /\ services = Range(started_plugins)
      /\ \A q \in Plugins : Place[q] <= Decided =>
         /\ health[q] = "disabled" <=> q \notin Range(started_plugins)
         /\ /\ enabled[q] # "off" /\ q \notin defective
            /\ Deps[q] \subseteq Range(started_plugins)
            => q \in Range(started_plugins)
  BY <1>1, <1>2 DEF StartsInOrder
<1>7. ASSUME NEW q \in Plugins, Place[q] <= Decided'
      PROVE  /\ health'[q] = "disabled" <=> q \notin Range(started_plugins)
             /\ /\ enabled[q] # "off" /\ q \notin defective
                /\ Deps[q] \subseteq Range(started_plugins)
                => q \in Range(started_plugins)
  <2>1. CASE q = p
    BY <2>1, <1>1, <1>4, <1>6
  <2>2. CASE q # p
    <3>1. Place[q] <= Decided
      BY <2>2, <1>2, <1>4, <1>5, <1>7
    <3> QED
      BY <2>2, <3>1, <1>1, <1>4, <1>6
  <2> QED
    BY <2>1, <2>2
<1>8. \A q \in Range(started_plugins) : Place[q] <= Decided'
  BY <1>2, <1>4, <1>5, <1>6
<1>9. StartsInOrder'
  BY <1>1, <1>2, <1>6, <1>7, <1>8 DEF StartsInOrder
<1> QED
  BY <1>3, <1>9 DEF Undisturbed

\* A plugin that is registered comes after what it depends on, and is eligible.
LEMMA RegisterKeeps ==
  ASSUME TypeOK, Undisturbed, NEW p \in Plugins, RegisterPlugin(p)
  PROVE  Undisturbed'
<1>1. /\ owner.pc = "plugins" /\ owner.todo # << >> /\ p = Head(owner.todo) /\ InStartup
      /\ StartsInOrder
      /\ enabled[p] # "off" /\ p \notin defective /\ Deps[p] \subseteq active_plugins
      /\ started_plugins' = Append(started_plugins, p) /\ broken' = broken \ {p}
      /\ owner' = [owner EXCEPT !.pc = "starting"]
      /\ UNCHANGED <<enabled, defective, active_plugins, services, started, health, refresh>>
  BY DEF RegisterPlugin, Enabled, Starts, Startable, InStartup, Undisturbed, config
<1>2. /\ owner \in Owners /\ owner'.pc = "starting" /\ owner'.todo = owner.todo
      /\ owner'.snapshot = owner.snapshot
  BY <1>1, Lists DEF Owners
<1>3. /\ Decided \in Nat /\ Place[p] = Decided + 1 /\ Order[Decided + 1] = p
      /\ p \notin Range(started_plugins)
      /\ \A q \in Range(started_plugins) : Place[q] < Place[p]
      /\ Range(started_plugins) \subseteq Plugins /\ started_plugins \in Seq(Plugins)
  BY <1>1, Progress, NotYetListed, Ranges DEF TypeOK
<1>4. /\ Range(started_plugins') = Range(started_plugins) \cup {p}
      /\ Ascending(started_plugins')
  BY <1>1, <1>3, Appended DEF Undisturbed, Listed
<1>5. /\ ~started /\ Nowhere(owner.snapshot)
      /\ Len(owner.todo) <= Len(Order)
      /\ \A i \in DOMAIN owner.todo : owner.todo[i] = Order[Decided + i]
      /\ \A q \in Range(started_plugins) : Place[q] <= Decided
      /\ active_plugins = Range(started_plugins) /\ services = Range(started_plugins)
      /\ \A q \in Plugins : Place[q] <= Decided =>
         /\ health[q] = "disabled" <=> q \notin Range(started_plugins)
         /\ /\ enabled[q] # "off" /\ q \notin defective
            /\ Deps[q] \subseteq Range(started_plugins)
            => q \in Range(started_plugins)
  BY <1>1 DEF StartsInOrder, Current
<1>6. Listed'
  BY <1>1, <1>3, <1>4, <1>5 DEF Undisturbed, Listed, Ascending
<1>7. Eligible'
  <2> SUFFICES ASSUME NEW W \in SUBSET Plugins, Closed(W)'
               PROVE  /\ Range(started_plugins') \subseteq W
                      /\ \A r \in Refreshers : refresh'[r] \subseteq W
    BY DEF Eligible
  <2>1. Closed(W)
    BY <1>1 DEF Closed
  <2>2. Range(started_plugins) \subseteq W /\ \A r \in Refreshers : refresh[r] \subseteq W
    BY <2>1 DEF Undisturbed, Eligible
  <2>3. p \in W
    BY <1>1, <1>5, <2>1, <2>2 DEF Closed
  <2> QED
    BY <1>1, <1>4, <2>2, <2>3
<1>8. AtRest' /\ StopsInOrder'
  BY <1>2 DEF AtRest, StopsInOrder
<1>9. StartsInOrder'
  <2>1. Decided' = Decided /\ Current' = {p}
    BY <1>2, <1>3 DEF Decided, Current
  <2>2. \A q \in Plugins : Place[q] \in Nat
    BY Places
  <2>3. ASSUME NEW q \in Plugins, Place[q] <= Decided
        PROVE  /\ health[q] = "disabled" <=> q \notin Range(started_plugins')
               /\ /\ enabled[q] # "off" /\ q \notin defective
                  /\ Deps[q] \subseteq Range(started_plugins')
                  => q \in Range(started_plugins')
    <3>1. q # p
      BY <2>2, <2>3, <1>3
    <3>2. ASSUME NEW d \in Deps[q] PROVE d # p
      <4>1. Place[d] < Place[q] /\ d \in Plugins
        BY Places
      <4> QED
        BY <4>1, <2>2, <2>3, <1>3
    <3>3. Deps[q] \subseteq Range(started_plugins') => Deps[q] \subseteq Range(started_plugins)
      BY <3>2, <1>4
    <3> QED
      BY <2>3, <3>1, <3>3, <1>4, <1>5
  <2>4. /\ \A q \in Range(started_plugins') \ {p} : Place[q] <= Decided
        /\ active_plugins' = Range(started_plugins') \ {p}
        /\ services' = Range(started_plugins') \ {p}
    BY <1>1, <1>3, <1>4, <1>5
  <2> QED
    BY <1>1, <1>2, <1>4, <1>5, <2>1, <2>3, <2>4 DEF StartsInOrder
<1> QED
  BY <1>6, <1>7, <1>8, <1>9 DEF Undisturbed

\* A plugin is active when its startup() has returned: what it depends on already is.
LEMMA PluginStartsKeeps ==
  ASSUME TypeOK, Undisturbed, NEW p \in Plugins, PluginStarts(p)
  PROVE  Undisturbed'
<1>1. /\ owner.pc = "starting" /\ owner.todo # << >> /\ p = Head(owner.todo) /\ InStartup
      /\ StartsInOrder
      /\ active_plugins' = active_plugins \cup {p}
      /\ owner' = [owner EXCEPT !.pc = "checking"]
      /\ UNCHANGED <<enabled, defective, started_plugins, services, started, broken, health,
                     refresh>>
  BY DEF PluginStarts, Awaits, InStartup, Undisturbed, config, plugin
<1>2. /\ owner \in Owners /\ owner'.pc = "checking" /\ owner'.todo = owner.todo
      /\ owner'.snapshot = owner.snapshot
  BY <1>1, Lists DEF Owners
<1>3. Decided' = Decided /\ Order[Decided + 1] = p
  BY <1>1, <1>2, Progress DEF Decided
<1>4. Current = {p} /\ Current' = {p}
  BY <1>1, <1>2, <1>3 DEF Current
<1>5. /\ p \in Range(started_plugins) /\ Deps[p] \subseteq active_plugins
      /\ active_plugins = Range(started_plugins) \ {p}
  BY <1>1, <1>4 DEF StartsInOrder
<1>6. Listed'
  BY <1>1, <1>5 DEF Undisturbed, Listed, Ascending
<1>7. Eligible' /\ AtRest' /\ StopsInOrder'
  BY <1>1, <1>2 DEF Undisturbed, Eligible, Closed, AtRest, StopsInOrder
<1>8. StartsInOrder'
  <2>1. active_plugins' = Range(started_plugins') /\ Deps[p] \subseteq active_plugins'
    BY <1>1, <1>5
  <2> QED
    BY <1>1, <1>2, <1>3, <1>4, <2>1 DEF StartsInOrder
<1> QED
  BY <1>6, <1>7, <1>8 DEF Undisturbed

\* A plugin whose check has passed offers its service and is reported as healthy.
LEMMA CheckPassesKeeps ==
  ASSUME TypeOK, Undisturbed, NEW p \in Plugins, CheckPasses(p)
  PROVE  Undisturbed'
<1>1. /\ owner.pc = "checking" /\ owner.todo # << >> /\ p = Head(owner.todo) /\ InStartup
      /\ StartsInOrder /\ Continues
      /\ health' = [health EXCEPT ![p] = "healthy"]
      /\ services' = services \cup {p}
      /\ UNCHANGED <<enabled, defective, started_plugins, active_plugins, started, broken,
                     refresh>>
  BY DEF CheckPasses, Awaits, InStartup, Undisturbed, config, plugin
<1>2. /\ owner'.pc = "plugins" /\ owner'.snapshot = owner.snapshot
      /\ Decided' = Decided + 1 /\ Current' = {}
      /\ Len(owner'.todo) <= Len(Order)
      /\ \A i \in DOMAIN owner'.todo : owner'.todo[i] = Order[Decided' + i]
  BY <1>1, ContinuesAdvances
<1>3. Listed' /\ Eligible' /\ AtRest' /\ StopsInOrder'
  BY <1>1, <1>2 DEF Undisturbed, Listed, Eligible, Closed, AtRest, StopsInOrder, Ascending
<1>4. /\ Decided \in Nat /\ Place[p] = Decided + 1 /\ Order[Decided + 1] = p
      /\ Range(started_plugins) \subseteq Plugins
      /\ health \in [Plugins -> {"none", "healthy", "unhealthy", "disabled"}]
  BY <1>1, Progress, Ranges DEF TypeOK
<1>5. \A q \in Plugins : Place[q] \in Nat /\ (Place[q] = Place[p] => q = p)
  BY Places
<1>6. Current = {p}
  BY <1>1, <1>4 DEF Current
<1>7. /\ ~started /\ Nowhere(owner.snapshot) /\ p \in Range(started_plugins)
      /\ \A q \in Range(started_plugins) \ {p} : Place[q] <= Decided
      /\ active_plugins = Range(started_plugins) /\ services = Range(started_plugins) \ {p}
      /\ \A q \in Plugins : Place[q] <= Decided =>
         /\ health[q] = "disabled" <=> q \notin Range(started_plugins)
         /\ /\ enabled[q] # "off" /\ q \notin defective
            /\ Deps[q] \subseteq Range(started_plugins)
            => q \in Range(started_plugins)
  BY <1>1, <1>6 DEF StartsInOrder
<1>8. ASSUME NEW q \in Plugins, Place[q] <= Decided'
      PROVE  /\ health'[q] = "disabled" <=> q \notin Range(started_plugins)
             /\ /\ enabled[q] # "off" /\ q \notin defective
                /\ Deps[q] \subseteq Range(started_plugins)
                => q \in Range(started_plugins)
  <2>1. CASE q = p
    BY <2>1, <1>1, <1>4, <1>7
  <2>2. CASE q # p
    <3>1. Place[q] <= Decided
      BY <2>2, <1>2, <1>4, <1>5, <1>8
    <3> QED
      BY <2>2, <3>1, <1>1, <1>4, <1>7
  <2> QED
    BY <2>1, <2>2
<1>9. \A q \in Range(started_plugins) : Place[q] <= Decided'
  BY <1>2, <1>4, <1>5, <1>7
<1>10. StartsInOrder'
  <2>1. services' = Range(started_plugins') /\ active_plugins' = Range(started_plugins')
    BY <1>1, <1>7
  <2> QED
    BY <1>1, <1>2, <1>7, <1>8, <1>9, <2>1 DEF StartsInOrder
<1> QED
  BY <1>3, <1>10 DEF Undisturbed

\* A startup() that returns has decided about every plugin.
LEMMA StartupReturnsKeeps ==
  ASSUME TypeOK, Undisturbed, StartupReturns
  PROVE  Undisturbed'
<1>1. /\ owner.pc = "plugins" /\ owner.todo = << >> /\ InStartup /\ StartsInOrder
      /\ started' = TRUE
      /\ owner' = [owner EXCEPT !.pc = "idle"]
      /\ UNCHANGED <<enabled, defective, started_plugins, active_plugins, services, broken,
                     health, refresh>>
  BY DEF StartupReturns, InStartup, Undisturbed, config, plugin
<1>2. owner'.pc = "idle"
  BY <1>1, Lists DEF Owners
<1>3. Listed' /\ Eligible' /\ StartsInOrder' /\ StopsInOrder'
  BY <1>1, <1>2
  DEF Undisturbed, Listed, Eligible, Closed, StartsInOrder, InStartup, StopsInOrder, Ascending
<1>4. \A p \in Plugins : Place[p] <= Decided
  BY <1>1, Progress, Places
<1>5. /\ active_plugins = Range(started_plugins) /\ services = Range(started_plugins)
      /\ \A q \in Plugins :
         /\ health[q] = "disabled" <=> q \notin Range(started_plugins)
         /\ /\ enabled[q] # "off" /\ q \notin defective
            /\ Deps[q] \subseteq Range(started_plugins)
            => q \in Range(started_plugins)
  BY <1>1, <1>4 DEF StartsInOrder, Current
<1>6. AtRest'
  BY <1>1, <1>2, <1>5 DEF AtRest, Closed
<1> QED
  BY <1>3, <1>6 DEF Undisturbed

\* The statuses that refresh_health() writes are of plugins that the configuration lets start.
LEMMA RefreshReturnsKeeps ==
  ASSUME TypeOK, Undisturbed, NEW r \in Refreshers, RefreshReturns(r)
  PROVE  Undisturbed'
<1>1. /\ UNCHANGED <<enabled, defective, started_plugins, active_plugins, services, started,
                     broken, owner>>
      /\ refresh' = [refresh EXCEPT ![r] = {}]
      /\ refresh \in [Refreshers -> SUBSET Plugins]
  BY DEF RefreshReturns, TypeOK, config, registry, plugin
<1>2. /\ \A p \in refresh[r] : health'[p] # "disabled"
      /\ \A p \in Plugins \ refresh[r] : health'[p] = health[p]
  <2>1. PICK status \in [refresh[r] -> {"healthy", "unhealthy"}] :
          health' = [p \in Plugins |-> IF p \in refresh[r] THEN status[p] ELSE health[p]]
    BY DEF RefreshReturns
  <2>2. refresh[r] \subseteq Plugins
    BY <1>1
  <2> QED
    BY <2>1, <2>2
<1>3. Listed' /\ StopsInOrder'
  BY <1>1 DEF Undisturbed, Listed, StopsInOrder, Ascending, Descending, Nothing
<1>4. Eligible'
  BY <1>1 DEF Undisturbed, Eligible, Closed
<1>5. AtRest'
  <2> SUFFICES ASSUME owner.pc = "idle", started, broken = {}
               PROVE  \A p \in Plugins : health'[p] = "disabled" <=> p \notin active_plugins
    BY <1>1 DEF Undisturbed, AtRest, Nothing, Closed
  <2>1. Closed(active_plugins) /\ active_plugins \in SUBSET Plugins
    BY DEF Undisturbed, AtRest, TypeOK
  <2>2. refresh[r] \subseteq active_plugins
    BY <2>1 DEF Undisturbed, Eligible
  <2>3. \A p \in Plugins : health[p] = "disabled" <=> p \notin active_plugins
    BY DEF Undisturbed, AtRest
  <2> TAKE p \in Plugins
  <2>4. CASE p \in refresh[r]
    <3>1. health'[p] # "disabled"
      BY <1>2, <2>4
    <3>2. p \in active_plugins
      BY <2>2, <2>4
    <3> QED
      BY <3>1, <3>2
  <2>5. CASE p \notin refresh[r]
    BY <1>2, <2>3, <2>5
  <2> QED
    BY <2>4, <2>5
<1>6. StartsInOrder'
  <2>0. CASE ~InStartup
    BY <1>1, <2>0 DEF StartsInOrder, InStartup
  <2>a. CASE InStartup
    <3> DEFINE W == Range(started_plugins) \cup {p \in Plugins : ~(Place[p] <= Decided)}
    <3>1. /\ StartsInOrder /\ Decided' = Decided /\ Current' = Current
          /\ Range(started_plugins) \subseteq Plugins
      BY <1>1, Ranges DEF Undisturbed, Decided, Current, TypeOK
    <3>2. Closed(W)
      <4> SUFFICES ASSUME NEW p \in Plugins, enabled[p] # "off", p \notin defective,
                          Deps[p] \subseteq W, Place[p] <= Decided
                   PROVE  p \in Range(started_plugins)
        BY DEF Closed
      <4>1. ASSUME NEW d \in Deps[p] PROVE d \in Range(started_plugins)
        <5>1. d \in Plugins /\ Place[d] < Place[p] /\ Place[d] \in Nat /\ Place[p] \in Nat
          BY Places
        <5>2. Decided \in Nat
          BY <2>a, <3>1, Progress
        <5>3. Place[d] <= Decided
          BY <5>1, <5>2
        <5> QED
          BY <5>3
      <4> QED
        BY <2>a, <3>1, <4>1 DEF StartsInOrder
    <3>3. refresh[r] \subseteq W
      BY <3>1, <3>2 DEF Undisturbed, Eligible
    <3>4. ASSUME NEW p \in Plugins, Place[p] <= Decided
          PROVE  health'[p] = "disabled" <=> p \notin Range(started_plugins)
      <4>1. health[p] = "disabled" <=> p \notin Range(started_plugins)
        BY <2>a, <3>1, <3>4 DEF StartsInOrder
      <4>2. CASE p \in refresh[r]
        <5>1. health'[p] # "disabled"
          BY <1>2, <4>2
        <5>2. p \in Range(started_plugins)
          BY <3>3, <3>4, <4>2
        <5> QED
          BY <5>1, <5>2
      <4>3. CASE p \notin refresh[r]
        BY <1>2, <4>1, <4>3
      <4> QED
        BY <4>2, <4>3
    <3> HIDE DEF W
    <3> QED
      BY <1>1, <2>a, <3>1, <3>4 DEF StartsInOrder, InStartup
  <2> QED
    BY <2>0, <2>a
<1> QED
  BY <1>3, <1>4, <1>5, <1>6 DEF Undisturbed

\* shutdown() has the listed plugins to stop, the last one first.
LEMMA CallShutdownKeeps ==
  ASSUME TypeOK, Undisturbed, CallShutdown
  PROVE  Undisturbed'
<1>1. /\ owner \in Owners /\ owner.pc = "idle" /\ started_plugins \in Seq(Plugins)
      /\ UNCHANGED <<enabled, defective, started_plugins, active_plugins, services, started,
                     broken, health, refresh>>
  BY Lists DEF CallShutdown, TypeOK, config, registry, plugin
<1>2. /\ owner'.pc = "stopping" /\ owner'.todo = Reverse(started_plugins)
      /\ ~owner'.rollback /\ ~owner'.error
  BY <1>1 DEF CallShutdown, Owners
<1>3. Listed' /\ Eligible' /\ AtRest' /\ StartsInOrder'
  BY <1>1, <1>2
  DEF Undisturbed, Listed, Eligible, Closed, AtRest, StartsInOrder, InStartup, Ascending
<1>4. StopsInOrder'
  <2>1. Range(owner'.todo) = Range(started_plugins) /\ Descending(owner'.todo)
    BY <1>1, <1>2, Reversed DEF Undisturbed, Listed
  <2>2. active_plugins \subseteq Range(started_plugins) /\ (~started => Nothing)
    BY <1>1 DEF Undisturbed, Listed, AtRest
  <2> QED
    BY <1>1, <1>2, <2>1, <2>2 DEF StopsInOrder, Descending, Nothing
<1> QED
  BY <1>3, <1>4 DEF Undisturbed

\* What is stopped is the last listed plugin that can be: nothing that still runs needs it.
LEMMA PluginStopsKeeps ==
  ASSUME TypeOK, Undisturbed, NEW p \in Plugins, PluginStops(p)
  PROVE  Undisturbed'
<1>1. /\ owner \in Owners /\ owner.pc = "stopping" /\ owner.todo # << >>
      /\ p = Head(owner.todo) /\ StopsInOrder
      /\ started_plugins \in Seq(Plugins) /\ owner.todo \in Seq(Plugins)
      /\ started_plugins' = RemoveFirst(started_plugins, p)
      /\ active_plugins' = active_plugins \ {p}
      /\ broken' \subseteq broken /\ broken \subseteq broken' \cup {p}
      /\ owner' = [owner EXCEPT !.todo = Tail(@)]
      /\ UNCHANGED <<enabled, defective, services, started, health, refresh>>
  BY Lists DEF PluginStops, Awaits, Undisturbed, TypeOK, config, plugin
<1>2. /\ owner'.pc = "stopping" /\ owner'.todo = Tail(owner.todo)
      /\ owner'.rollback = owner.rollback /\ owner'.error = owner.error
      /\ owner'.snapshot = owner.snapshot
  BY <1>1 DEF Owners
<1>3. /\ Ascending(started_plugins')
      /\ Range(started_plugins') = Range(started_plugins) \ {p}
  BY <1>1, Removed DEF Undisturbed, Listed
<1>4. /\ Range(owner.todo) = Range(owner'.todo) \cup {p}
      /\ Descending(owner'.todo)
      /\ \A q \in Range(owner'.todo) : Place[q] < Place[p]
      /\ Range(owner'.todo) \subseteq Plugins
  <2>1. Descending(owner.todo)
    BY <1>1 DEF StopsInOrder
  <2>2. /\ Range(owner.todo) = Range(Tail(owner.todo)) \cup {p}
        /\ Descending(Tail(owner.todo))
        /\ \A q \in Range(Tail(owner.todo)) : Place[q] < Place[p]
        /\ Tail(owner.todo) \in Seq(Plugins)
    BY <1>1, <2>1, Taken
  <2>3. Range(Tail(owner.todo)) \subseteq Plugins
    BY <2>2, Ranges
  <2>4. Descending(owner'.todo)
    BY <1>2, <2>2 DEF Descending
  <2> QED
    BY <1>2, <2>2, <2>3, <2>4
<1>5. p \notin Range(owner'.todo)
  BY <1>4, Places
<1>6. Listed'
  <2>1. active_plugins' \subseteq Range(started_plugins')
    BY <1>1, <1>3 DEF Undisturbed, Listed
  <2>2. ASSUME NEW q \in active_plugins' \ broken' PROVE Deps[q] \subseteq active_plugins'
    <3>1. q \in active_plugins \ broken /\ q # p
      BY <1>1
    <3>2. Deps[q] \subseteq active_plugins
      BY <3>1 DEF Undisturbed, Listed
    <3>3. q \in Range(owner'.todo)
      BY <1>1, <1>4, <3>1 DEF StopsInOrder
    <3>4. Place[q] < Place[p] /\ q \in Plugins
      BY <1>4, <3>3
    <3>5. p \notin Deps[q]
      <4> SUFFICES ASSUME p \in Deps[q] PROVE FALSE
        OBVIOUS
      <4>1. Place[p] < Place[q] /\ Place[p] \in Nat /\ Place[q] \in Nat
        BY <3>4, Places
      <4> QED
        BY <4>1, <3>4
    <3> QED
      BY <1>1, <3>2, <3>5
  <2> QED
    BY <1>3, <2>1, <2>2 DEF Listed, Ascending
<1>7. Eligible'
  <2> SUFFICES ASSUME NEW W \in SUBSET Plugins, Closed(W)'
               PROVE  /\ Range(started_plugins') \subseteq W
                      /\ \A r \in Refreshers : refresh'[r] \subseteq W
    BY DEF Eligible
  <2>1. Closed(W)
    BY <1>1 DEF Closed
  <2> QED
    BY <1>1, <1>3, <2>1 DEF Undisturbed, Eligible
<1>8. AtRest' /\ StartsInOrder'
  BY <1>2 DEF AtRest, StartsInOrder, InStartup
<1>9. StopsInOrder'
  <2>1. /\ Range(owner'.todo) \subseteq Range(started_plugins')
        /\ active_plugins' \ broken' \subseteq Range(owner'.todo)
    BY <1>1, <1>3, <1>4, <1>5 DEF StopsInOrder
  <2>2. ASSUME ~owner'.error PROVE Range(started_plugins') \subseteq Range(owner'.todo)
    BY <1>1, <1>2, <1>3, <1>4, <2>2 DEF StopsInOrder
  <2>3. ASSUME owner'.error
        PROVE  \E q \in broken' \cap Range(started_plugins') : q \notin Range(owner'.todo)
    <3>1. PICK q \in broken \cap Range(started_plugins) : q \notin Range(owner.todo)
      BY <1>1, <1>2, <2>3 DEF StopsInOrder
    <3>2. q # p
      BY <1>4, <3>1
    <3> QED
      BY <1>1, <1>3, <1>4, <3>1, <3>2
  <2>4. ASSUME owner'.rollback PROVE ~started' /\ Nowhere(owner'.snapshot)
    BY <1>1, <1>2, <2>4 DEF StopsInOrder
  <2>5. ASSUME ~owner'.rollback, ~started' PROVE FALSE
    <3>1. started_plugins = << >>
      BY <1>1, <1>2, <2>5 DEF StopsInOrder, Nothing
    <3>2. Range(started_plugins) = {}
      BY <3>1 DEF Range
    <3> QED
      BY <1>1, <1>4, <3>2 DEF StopsInOrder
  <2> QED
    BY <1>4, <2>1, <2>2, <2>3, <2>4, <2>5 DEF StopsInOrder, Descending
<1> QED
  BY <1>6, <1>7, <1>8, <1>9 DEF Undisturbed

\* A plugin whose shutdown() has failed keeps its place in the lists.
LEMMA PluginStopFailsKeeps ==
  ASSUME TypeOK, Undisturbed, NEW p \in Plugins, PluginStopFails(p)
  PROVE  Undisturbed'
<1>1. /\ owner \in Owners /\ owner.pc = "stopping" /\ owner.todo # << >>
      /\ p = Head(owner.todo) /\ StopsInOrder
      /\ started_plugins \in Seq(Plugins) /\ owner.todo \in Seq(Plugins)
      /\ broken' = broken \cup {p}
      /\ owner' = [owner EXCEPT !.todo = Tail(@), !.error = TRUE]
      /\ UNCHANGED <<enabled, defective, started_plugins, active_plugins, services, started,
                     health, refresh>>
  BY Lists DEF PluginStopFails, Awaits, Undisturbed, TypeOK, config, registry
<1>2. /\ owner'.pc = "stopping" /\ owner'.todo = Tail(owner.todo)
      /\ owner'.rollback = owner.rollback /\ owner'.error
      /\ owner'.snapshot = owner.snapshot
  BY <1>1 DEF Owners
<1>3. Descending(owner.todo)
  BY <1>1 DEF StopsInOrder
<1>4. /\ Range(owner.todo) = Range(owner'.todo) \cup {p}
      /\ Descending(Tail(owner.todo))
      /\ \A q \in Range(owner'.todo) : Place[q] < Place[p]
  BY <1>1, <1>2, <1>3, Taken
<1>5. p \notin Range(owner'.todo)
  BY <1>4, Places
<1>6. Listed' /\ Eligible' /\ AtRest' /\ StartsInOrder'
  BY <1>1, <1>2
  DEF Undisturbed, Listed, Eligible, Closed, AtRest, StartsInOrder, InStartup, Ascending
<1>7. StopsInOrder'
  <2>1. /\ Range(owner'.todo) \subseteq Range(started_plugins')
        /\ active_plugins' \ broken' \subseteq Range(owner'.todo)
        /\ p \in broken' \cap Range(started_plugins')
    BY <1>1, <1>4 DEF StopsInOrder
  <2>2. owner'.rollback => ~started' /\ Nowhere(owner'.snapshot)
    BY <1>1, <1>2 DEF StopsInOrder
  <2>3. ASSUME ~owner'.rollback, ~started' PROVE FALSE
    <3>1. started_plugins = << >>
      BY <1>1, <1>2, <2>3 DEF StopsInOrder, Nothing
    <3>2. Range(started_plugins) = {}
      BY <3>1 DEF Range
    <3> QED
      BY <1>1, <2>1, <3>2
  <2>4. Descending(owner'.todo)
    BY <1>2, <1>4 DEF Descending
  <2> QED
    BY <1>2, <1>5, <2>1, <2>2, <2>3, <2>4 DEF StopsInOrder, Descending
<1> QED
  BY <1>6, <1>7 DEF Undisturbed

\* A shutdown() that returns has stopped everything; one that raises has left what failed.
LEMMA ShutdownReturnsKeeps ==
  ASSUME TypeOK, Undisturbed, ShutdownReturns
  PROVE  Undisturbed'
<1>1. /\ owner \in Owners /\ owner.pc = "stopping" /\ owner.todo = << >> /\ ~owner.rollback
      /\ StopsInOrder /\ started_plugins \in Seq(Plugins)
      /\ owner' = [owner EXCEPT !.pc = "idle"]
      /\ UNCHANGED <<enabled, defective, started_plugins, active_plugins, broken, health,
                     refresh>>
  BY Lists DEF ShutdownReturns, Undisturbed, TypeOK, config, plugin
<1>2. owner'.pc = "idle"
  BY <1>1 DEF Owners
<1>3. Range(owner.todo) = {}
  BY <1>1 DEF Range
<1>4. Listed' /\ Eligible' /\ StartsInOrder' /\ StopsInOrder'
  BY <1>1, <1>2
  DEF Undisturbed, Listed, Eligible, Closed, StartsInOrder, InStartup, StopsInOrder, Ascending
<1>5. CASE owner.error
  <2>1. broken # {} /\ started' = started /\ services' = services
    BY <1>1, <1>5 DEF ShutdownReturns, StopsInOrder
  <2>2. ~started => Nothing
    BY <1>1 DEF StopsInOrder
  <2> QED
    BY <1>1, <1>2, <1>4, <2>1, <2>2 DEF Undisturbed, AtRest, Nothing
<1>6. CASE ~owner.error
  <2>1. services' = {} /\ ~started'
    BY <1>6 DEF ShutdownReturns
  <2>2. started_plugins = << >>
    BY <1>1, <1>3, <1>6, Ranges DEF StopsInOrder
  <2>3. active_plugins = {}
    BY <2>2 DEF Undisturbed, Listed, Range
  <2> QED
    BY <1>1, <1>2, <1>4, <2>1, <2>2, <2>3 DEF Undisturbed, AtRest, Nothing
<1> QED
  BY <1>5, <1>6

\* A rollback leaves the manager as startup() found it.
LEMMA RollbackReturnsKeeps ==
  ASSUME TypeOK, Undisturbed, RollbackReturns
  PROVE  Undisturbed'
<1>1. /\ owner \in Owners /\ owner.pc = "stopping" /\ owner.rollback /\ StopsInOrder
      /\ owner' = [owner EXCEPT !.pc = "idle"]
      /\ services' = owner.snapshot.services
      /\ started_plugins' = owner.snapshot.started_plugins
      /\ active_plugins' = owner.snapshot.active_plugins
      /\ started' = owner.snapshot.started
      /\ UNCHANGED <<enabled, defective, broken, health, refresh>>
  BY Lists DEF RollbackReturns, Undisturbed, config, plugin
<1>2. owner'.pc = "idle"
  BY <1>1 DEF Owners
<1>3. Nothing' /\ ~started'
  BY <1>1 DEF StopsInOrder, Nowhere, Nothing
<1>4. Listed'
  BY <1>3 DEF Listed, Ascending, Nothing
<1>5. Eligible'
  <2>1. Range(started_plugins') = {}
    BY <1>3 DEF Nothing, Range
  <2> QED
    BY <1>1, <2>1 DEF Undisturbed, Eligible, Closed
<1>6. AtRest' /\ StartsInOrder' /\ StopsInOrder'
  BY <1>2, <1>3 DEF AtRest, StartsInOrder, InStartup, StopsInOrder
<1> QED
  BY <1>4, <1>5, <1>6 DEF Undisturbed

\* refresh_health() asks plugins that are listed, which the configuration lets start.
LEMMA CallRefreshKeeps ==
  ASSUME TypeOK, Undisturbed, NEW r \in Refreshers, CallRefresh(r)
  PROVE  Undisturbed'
<1>1. /\ UNCHANGED <<enabled, defective, started_plugins, active_plugins, services, started,
                     broken, health, owner>>
      /\ \A q \in Refreshers :
           refresh'[q] \subseteq refresh[q] \cup Range(started_plugins)
  BY DEF CallRefresh, TypeOK, config, registry, plugin
<1>2. Eligible'
  BY <1>1 DEF Undisturbed, Eligible, Closed
<1>3. /\ Listed' /\ AtRest' /\ StartsInOrder' /\ StopsInOrder'
  BY <1>1
  DEF Undisturbed, Listed, AtRest, StartsInOrder, StopsInOrder, Ascending, Descending,
      Nothing, Closed, InStartup, Decided, Current
<1> QED
  BY <1>2, <1>3 DEF Undisturbed

-----------------------------------------------------------------------------
(* The theorems about the lists and the registries.                        *)

\* A failed register(), startup() or check rolls the startup back.
LEMMA FailuresKeep ==
  ASSUME TypeOK, Undisturbed, NEW p \in Plugins,
         \/ RefusePlugin(p) \/ RegisterFails(p) \/ PluginStartFails(p) \/ CheckFails(p)
  PROVE  Undisturbed'
<1>1. /\ InStartup /\ RollsBack
      /\ UNCHANGED <<enabled, defective, started_plugins, active_plugins, services, started,
                     broken, refresh>>
  BY DEF RefusePlugin, RegisterFails, PluginStartFails, CheckFails, Starts, Enabled, Awaits,
         InStartup, config, registry, plugin
<1> QED
  BY <1>1, RollsBackKeeps

\* Every step keeps the invariant of the calls that are not cancelled.
LEMMA StepsKeepUndisturbed ==
  ASSUME TypeOK, Undisturbed, [Next]_vars, cancels' = 0, cancels = 0
  PROVE  Undisturbed'
<1>1. CASE UNCHANGED vars
  BY <1>1
  DEF vars, config, registry, plugin, Undisturbed, Listed, Eligible, AtRest, StartsInOrder,
      StopsInOrder, Ascending, Descending, Nothing, Closed, InStartup, Decided, Current
<1>2. ~Cancel
  BY DEF Cancel
<1>3. ASSUME NEW p \in Plugins, StartPlugin(p) \/ StopPlugin(p) PROVE Undisturbed'
  BY <1>3, SkipKeeps, RegisterKeeps, PluginStartsKeeps, CheckPassesKeeps, FailuresKeep,
     PluginStopsKeeps, PluginStopFailsKeeps
  DEF StartPlugin, StopPlugin
<1>4. ASSUME NEW r \in Refreshers, CallRefresh(r) \/ RefreshReturns(r) PROVE Undisturbed'
  BY <1>4, CallRefreshKeeps, RefreshReturnsKeeps
<1> QED
  BY <1>1, <1>2, <1>3, <1>4, CallStartupKeeps, CallShutdownKeeps, StartupReturnsKeeps,
     ShutdownReturnsKeeps, RollbackReturnsKeeps
  DEF Next, OwnerStep

\* The inductive invariant: types, what is up can be stopped and, until a call is cancelled,
\* the lists in the order of the dependencies.
THEOREM Invariance == Spec => []IInv
<1>1. Init => IInv
  <2> SUFFICES ASSUME Init PROVE IInv
    OBVIOUS
  <2>1. Stoppable
    BY DEF Init, Stoppable
  <2>2. Listed /\ Eligible
    BY DEF Init, Listed, Eligible, Ascending, Range
  <2>3. AtRest /\ StartsInOrder /\ StopsInOrder
    BY DEF Init, AtRest, StartsInOrder, StopsInOrder, InStartup, Nothing
  <2> QED
    BY <2>1, <2>2, <2>3, InitTyped DEF IInv, Undisturbed
<1>2. ASSUME IInv, [Next]_vars PROVE IInv'
  <2>1. TypeOK' /\ Stoppable'
    BY <1>2, StepsTyped, StepsKeepStoppable DEF IInv
  <2>2. ASSUME cancels' = 0 PROVE cancels = 0
    BY <1>2, <2>2
    DEF IInv, TypeOK, Next, OwnerStep, CallStartup, CallShutdown, StartupReturns,
        ShutdownReturns, RollbackReturns, Cancel, StartPlugin, SkipPlugin, RefusePlugin,
        RegisterFails, RegisterPlugin, PluginStarts, PluginStartFails, CheckPasses, CheckFails,
        StopPlugin, PluginStops, PluginStopFails, CallRefresh, RefreshReturns, vars
  <2>3. ASSUME cancels' = 0 PROVE Undisturbed'
    BY <1>2, <2>2, <2>3, StepsKeepUndisturbed DEF IInv
  <2> QED
    BY <2>1, <2>3 DEF IInv
<1> QED
  BY <1>1, <1>2, PTL DEF Spec

\* NoOrphans: between calls, every plugin that is up and whose shutdown() has not failed is
\* listed and has a context, so that the next shutdown() stops it: whatever has failed, been
\* rolled back or been cancelled.
THEOREM EveryPluginCanBeStopped == Spec => []NoOrphans
<1>1. IInv => NoOrphans
  BY DEF IInv, Stoppable, NoOrphans
<1> QED
  BY <1>1, Invariance, PTL

\* DependenciesActive: until a call is cancelled, what an active plugin depends on is active
\* too, unless its own shutdown() has failed: in every failure of startup() and shutdown().
THEOREM NothingOutlivesItsDependencies == Spec => []DependenciesActive
<1>1. IInv => DependenciesActive
  BY DEF IInv, Undisturbed, Listed, DependenciesActive
<1> QED
  BY <1>1, Invariance, PTL

\* RegistriesAgree: between calls the services are those of the plugins that run, and a plugin
\* is reported as disabled if and only if it does not run, whatever refresh_health() writes.
THEOREM ServicesAndHealthAgree == Spec => []RegistriesAgree
<1>1. IInv => RegistriesAgree
  <2> SUFFICES ASSUME IInv PROVE RegistriesAgree
    OBVIOUS
  <2>1. ServicesMatchPlugins
    BY DEF IInv, Undisturbed, AtRest, Nothing, ServicesMatchPlugins
  <2>2. DisabledReported
    BY DEF IInv, Undisturbed, AtRest, DisabledReported
  <2> QED
    BY <2>1, <2>2 DEF IInv, RegistriesAgree
<1> QED
  BY <1>1, Invariance, PTL

-----------------------------------------------------------------------------
(* The search for the order, on any graph.                                 *)

\* A call of visit() waits for the one after it, on the dependency before its place.
Waits(i) ==
  /\ 1 < calls[i].at
  /\ calls[i + 1].name = Search!Needs(calls[i])[calls[i].at - 1]

SearchTypeOK ==
  /\ deps \in [Search!Installed -> Seq(Search!Installed)]
  /\ resolved \in Seq(Search!Installed)
  /\ visiting \subseteq Search!Installed
  /\ calls \in Seq([name: Search!Installed, at: Nat \ {0}])
  /\ root \in Nat \ {0}
  /\ raised \in BOOLEAN

\* The plugins being visited are those of the calls, each of which is one of a
\* dependency of the caller, and none of which has been visited.
CallsInv ==
  /\ visiting = {calls[i].name : i \in DOMAIN calls}
  /\ visiting \cap Search!visited = {}
  /\ \A i, j \in DOMAIN calls : calls[i].name = calls[j].name => i = j
  /\ \A i \in DOMAIN calls : calls[i].at <= Len(Search!Needs(calls[i])) + 1
  /\ \A i \in DOMAIN calls : i + 1 \in DOMAIN calls => Waits(i)

\* What a loop has passed has been visited, or is being visited by the next call.
LoopsInv ==
  /\ \A i \in DOMAIN calls : \A k \in 1 .. calls[i].at - 1 :
       \/ Search!Needs(calls[i])[k] \in Search!visited
       \/ k = calls[i].at - 1 /\ i + 1 \in DOMAIN calls
  /\ \A k \in DOMAIN Registered : k < root =>
       \/ Registered[k] \in Search!visited
       \/ k = root - 1 /\ calls # << >> /\ calls[1].name = Registered[k]

\* The dependencies of a plugin come before it, and no plugin comes twice.
ResolvedInv ==
  /\ \A i, j \in DOMAIN resolved : resolved[i] = resolved[j] => i = j
  /\ \A j \in DOMAIN resolved : \A d \in Search!Range(deps[resolved[j]]) :
       \E i \in DOMAIN resolved : i < j /\ resolved[i] = d

SearchInv ==
  /\ SearchTypeOK
  /\ raised => Search!Cyclic /\ calls = << >>
  /\ ~raised => CallsInv /\ LoopsInv
  /\ ResolvedInv

\* A sequence with one more element, position by position.
LEMMA AppendOne ==
  ASSUME NEW S, NEW s \in Seq(S), NEW e \in S
  PROVE  /\ Append(s, e) \in Seq(S) /\ Append(s, e) # << >>
         /\ Len(Append(s, e)) = Len(s) + 1
         /\ DOMAIN Append(s, e) = 1 .. Len(s) + 1
         /\ \A i \in 1 .. Len(s) : Append(s, e)[i] = s[i]
         /\ Append(s, e)[Len(s) + 1] = e
OBVIOUS

CallType == [name: Search!Installed, at: Nat \ {0}]

\* The dependencies of a call are installed plugins.
LEMMA NeedsTyped ==
  ASSUME SearchTypeOK, NEW i \in DOMAIN calls
  PROVE  /\ calls[i] \in CallType
         /\ Search!Needs(calls[i]) = deps[calls[i].name]
         /\ Search!Needs(calls[i]) \in Seq(Search!Installed)
         /\ Len(Search!Needs(calls[i])) \in Nat
         /\ \A k \in 1 .. Len(Search!Needs(calls[i])) :
              Search!Needs(calls[i])[k] \in Search!Installed
<1>1. calls \in Seq(CallType) /\ deps \in [Search!Installed -> Seq(Search!Installed)]
  BY DEF SearchTypeOK, CallType
<1>2. calls[i] \in CallType /\ calls[i].name \in Search!Installed
  <2>1. calls[i] \in CallType
    BY <1>1
  <2> QED  BY <2>1 DEF CallType
<1>3. deps[calls[i].name] \in Seq(Search!Installed)
  BY <1>1, <1>2
<1>4. \A k \in 1 .. Len(deps[calls[i].name]) : deps[calls[i].name][k] \in Search!Installed
  BY <1>3, ElementOfSeq
<1> QED  BY <1>2, <1>3, <1>4, LenProperties DEF Search!Needs

\* The last call, and the others as they are once it has gone on in its loop.
LEMMA LastCall ==
  ASSUME SearchTypeOK, calls # << >>
  PROVE  LET n == Len(calls)
             onward == [calls EXCEPT ![n].at = @ + 1] IN
         /\ n \in Nat \ {0} /\ DOMAIN calls = 1 .. n /\ n \in DOMAIN calls
         /\ Search!Last(calls) = calls[n]
         /\ onward \in Seq(CallType) /\ Len(onward) = n /\ DOMAIN onward = 1 .. n
         /\ \A i \in 1 .. n : onward[i].name = calls[i].name
         /\ \A i \in 1 .. n : i # n => onward[i] = calls[i]
         /\ onward[n].at = calls[n].at + 1
         /\ onward # << >>
<1> DEFINE n == Len(calls)
           onward == [calls EXCEPT ![n].at = @ + 1]
<1>1. calls \in Seq(CallType)
  BY DEF SearchTypeOK, CallType
<1>2. n \in Nat \ {0} /\ DOMAIN calls = 1 .. n /\ n \in DOMAIN calls
  BY <1>1, EmptySeq, LenProperties
<1>3. calls[n] \in CallType /\ calls[n].at + 1 \in Nat \ {0}
  <2>1. calls[n] \in CallType
    BY <1>1, <1>2
  <2> QED  BY <2>1 DEF CallType
<1>4. onward = [calls EXCEPT ![n] = [calls[n] EXCEPT !.at = @ + 1]]
  OBVIOUS
<1>5. [calls[n] EXCEPT !.at = @ + 1] \in CallType
  BY <1>3 DEF CallType
<1>6. onward \in Seq(CallType) /\ Len(onward) = n
  BY <1>1, <1>2, <1>4, <1>5, ExceptSeq
<1>7. DOMAIN onward = 1 .. n /\ onward # << >>
  BY <1>6, <1>2, LenProperties
<1>8. \A i \in 1 .. n : i # n => onward[i] = calls[i]
  BY <1>2
<1>9. onward[n] = [calls[n] EXCEPT !.at = @ + 1]
  BY <1>2, <1>4
<1>10. onward[n].at = calls[n].at + 1 /\ onward[n].name = calls[n].name
  BY <1>9, <1>3 DEF CallType
<1>11. \A i \in 1 .. n : onward[i].name = calls[i].name
  BY <1>8, <1>10
<1>12. Search!Last(calls) = calls[n]
  BY DEF Search!Last
<1> QED  BY <1>2, <1>6, <1>7, <1>8, <1>10, <1>11, <1>12

\* A plugin that the last call needs and that is being visited closes a cycle.
LEMMA CycleFound ==
  ASSUME SearchTypeOK, CallsInv, calls # << >>,
         NEW k \in 1 .. Len(Search!Needs(calls[Len(calls)])),
         Search!Needs(calls[Len(calls)])[k] \in visiting
  PROVE  Search!Cyclic
<1> DEFINE n == Len(calls)
<1>1. n \in Nat \ {0} /\ DOMAIN calls = 1 .. n /\ n \in DOMAIN calls
  BY LastCall
<1>2. PICK m \in DOMAIN calls : calls[m].name = Search!Needs(calls[n])[k]
  BY DEF CallsInv
<1> DEFINE S == {calls[i].name : i \in m .. n}
<1>3. \A i \in m .. n : i \in DOMAIN calls /\ calls[i].name \in Search!Installed
  <2>1. \A i \in m .. n : i \in DOMAIN calls
    BY <1>1, <1>2
  <2> QED  BY <2>1, NeedsTyped DEF CallType
<1>4. \A i \in m .. n : \E d \in 1 .. Len(Search!Needs(calls[i])) : Search!Needs(calls[i])[d] \in S
  <2> SUFFICES ASSUME NEW i \in m .. n
               PROVE  \E d \in 1 .. Len(Search!Needs(calls[i])) : Search!Needs(calls[i])[d] \in S
    OBVIOUS
  <2>1. CASE i = n
    BY <2>1, <1>1, <1>2
  <2>2. CASE i # n
    <3>0. m \in 1 .. n /\ i \in Nat /\ n \in Nat
      BY <1>1, <1>2
    <3>a. i + 1 \in m .. n /\ i \in 1 .. n /\ i + 1 \in 1 .. n
      <4> HIDE DEF n, S
      <4> QED  BY <2>2, <3>0
    <3>1. i + 1 \in m .. n /\ i \in DOMAIN calls /\ i + 1 \in DOMAIN calls
      BY <3>a, <1>1
    <3>2. calls[i].at \in Nat \ {0} /\ Len(Search!Needs(calls[i])) \in Nat
      BY <3>1, NeedsTyped DEF CallType
    <3>3. 1 < calls[i].at /\ calls[i].at <= Len(Search!Needs(calls[i])) + 1
          /\ calls[i + 1].name = Search!Needs(calls[i])[calls[i].at - 1]
      BY <3>1 DEF CallsInv, Waits
    <3>4. calls[i].at - 1 \in 1 .. Len(Search!Needs(calls[i]))
      BY <3>2, <3>3
    <3> QED  BY <3>1, <3>3, <3>4
  <2> QED  BY <2>1, <2>2
<1>5. \A p \in S : Search!Range(deps[p]) \cap S # {}
  <2> SUFFICES ASSUME NEW i \in m .. n
               PROVE  Search!Range(deps[calls[i].name]) \cap S # {}
    OBVIOUS
  <2>1. PICK d \in 1 .. Len(Search!Needs(calls[i])) : Search!Needs(calls[i])[d] \in S
    BY <1>4
  <2>2. Search!Needs(calls[i]) = deps[calls[i].name] /\ DOMAIN deps[calls[i].name] = 1 .. Len(Search!Needs(calls[i]))
    BY <1>3, NeedsTyped, LenProperties
  <2> HIDE DEF S
  <2>3. deps[calls[i].name][d] \in Search!Range(deps[calls[i].name])
    BY <2>1, <2>2 DEF Search!Range
  <2> QED  BY <2>1, <2>2, <2>3
<1>6. S \in SUBSET Search!Installed /\ S # {}
  BY <1>1, <1>2, <1>3
<1> QED  BY <1>5, <1>6 DEF Search!Cyclic

LEMMA InitHolds == Search!Init => SearchInv
<1> SUFFICES ASSUME Search!Init PROVE SearchInv
  OBVIOUS
<1>1. \A l \in Search!DependencyLists : l \in Seq(Search!Installed)
  BY SeqDef DEF Search!DependencyLists, Search!BoundedSeq, Search!SeqOf
<1>2. SearchTypeOK
  <2>1. deps \in [Search!Installed -> Seq(Search!Installed)]
    BY <1>1 DEF Search!Init
  <2>2. resolved \in Seq(Search!Installed)
    BY DEF Search!Init
  <2>3. calls \in Seq([name: Search!Installed, at: Nat \ {0}])
    BY EmptySeq DEF Search!Init
  <2>4. root \in Nat \ {0} /\ visiting \subseteq Search!Installed
    BY DEF Search!Init
  <2>5. raised \in BOOLEAN
    BY Zenon DEF Search!Init
  <2> QED  BY <2>1, <2>2, <2>3, <2>4, <2>5 DEF SearchTypeOK
<1>3. CallsInv /\ LoopsInv /\ ResolvedInv
  <2>1. DOMAIN calls = {} /\ DOMAIN resolved = {} /\ root = 1
    BY DEF Search!Init
  <2>2. CallsInv
    BY <2>1 DEF Search!Init, CallsInv
  <2>3. LoopsInv
    <3>1. \A k \in DOMAIN Registered : ~(k < root)
      BY <2>1, RegisteredAssumption, LenProperties
    <3> QED  BY <2>1, <3>1 DEF LoopsInv
  <2> QED  BY <2>1, <2>2, <2>3 DEF ResolvedInv
<1> QED  BY <1>2, <1>3 DEF SearchInv, Search!Init

\* visited grows with resolved.
LEMMA VisitedGrows ==
  ASSUME SearchTypeOK, NEW name \in Search!Installed
  PROVE  LET res == Append(resolved, name) IN
         /\ res \in Seq(Search!Installed)
         /\ DOMAIN resolved = 1 .. Len(resolved) /\ Len(resolved) \in Nat
         /\ DOMAIN res = 1 .. Len(resolved) + 1
         /\ \A i \in 1 .. Len(resolved) : res[i] = resolved[i]
         /\ res[Len(resolved) + 1] = name
         /\ Search!Range(res) = Search!Range(resolved) \cup {name}
<1> DEFINE res == Append(resolved, name)
<1>1. resolved \in Seq(Search!Installed)
  BY DEF SearchTypeOK
<1>2. /\ res \in Seq(Search!Installed)
      /\ DOMAIN resolved = 1 .. Len(resolved) /\ Len(resolved) \in Nat
      /\ DOMAIN res = 1 .. Len(resolved) + 1
      /\ \A i \in 1 .. Len(resolved) : res[i] = resolved[i]
      /\ res[Len(resolved) + 1] = name
  BY <1>1, AppendOne, LenProperties
<1> HIDE DEF res
<1>3. \A x : x \in Search!Range(res) <=> \E i \in 1 .. Len(resolved) + 1 : res[i] = x
  BY <1>2 DEF Search!Range
<1>4. \A x : x \in Search!Range(resolved) <=> \E i \in 1 .. Len(resolved) : resolved[i] = x
  BY <1>2 DEF Search!Range
<1>5. \A x : x \in Search!Range(res) <=> x \in Search!Range(resolved) \/ x = name
  BY <1>2, <1>3, <1>4
<1> QED  BY <1>2, <1>5 DEF res

\* The loop over the plugins visits the next one, unless it has been visited.
LEMMA PluginVisited ==
  ASSUME SearchInv, Search!VisitPlugin
  PROVE  SearchInv'
<1> DEFINE name == Registered[root]
<1>1. SearchTypeOK /\ ~raised /\ CallsInv /\ LoopsInv /\ ResolvedInv /\ calls = << >>
  BY DEF SearchInv, Search!VisitPlugin
<1>2. root \in Nat \ {0} /\ root \in DOMAIN Registered /\ Registered \in Seq(Plugins)
      /\ DOMAIN Registered = 1 .. Len(Registered) /\ Len(Registered) \in Nat
  <2>1. Registered \in Seq(Plugins)
    BY RegisteredAssumption
  <2> QED  BY <1>1, <2>1, LenProperties DEF Search!VisitPlugin, SearchTypeOK
<1>3. name \in Search!Installed
  BY <1>2 DEF Search!Installed, Search!Range
<1>4. visiting = {}
  BY <1>1 DEF CallsInv
<1>5. UNCHANGED <<deps, resolved, raised>> /\ root' = root + 1
  BY <1>4, <1>1 DEF Search!VisitPlugin, Search!Visit
<1>6. \A k \in DOMAIN Registered : k < root => Registered[k] \in Search!visited
  BY <1>1 DEF LoopsInv
<1>7. ResolvedInv' /\ Search!visited' = Search!visited
  BY <1>1, <1>5 DEF ResolvedInv, Search!visited
<1>8. CASE name \in Search!visited
  <2>1. calls' = << >> /\ visiting' = {}
    BY <1>8, <1>4 DEF Search!VisitPlugin, Search!Visit
  <2>2. SearchTypeOK' /\ CallsInv'
    BY <1>1, <1>2, <1>5, <2>1 DEF SearchTypeOK, CallsInv
  <2>3. \A k \in DOMAIN Registered : k < root + 1 => k < root \/ k = root
    BY <1>2
  <2>4. LoopsInv'
    BY <1>5, <1>6, <1>7, <1>8, <2>1, <2>3 DEF LoopsInv
  <2> QED  BY <1>1, <1>5, <1>7, <2>2, <2>4 DEF SearchInv
<1>9. CASE name \notin Search!visited
  <2>1. calls' = Append(<< >>, Search!Call(name)) /\ visiting' = {name}
    BY <1>9, <1>4 DEF Search!VisitPlugin, Search!Visit
  <2>2. Search!Call(name) \in CallType /\ Search!Call(name).name = name /\ Search!Call(name).at = 1
    BY <1>3 DEF CallType, Search!Call
  <2>3. calls' \in Seq(CallType) /\ DOMAIN calls' = {1} /\ calls'[1] = Search!Call(name)
        /\ calls' # << >>
    BY <2>1, <2>2
  <2>4. SearchTypeOK'
    BY <1>1, <1>2, <1>3, <1>5, <2>1, <2>3 DEF SearchTypeOK, CallType
  <2>5. calls'[1].name = name /\ calls'[1].at = 1
    BY <2>2, <2>3
  <2>6. Len(Search!Needs(calls[1])') \in Nat
    BY <2>3, <2>4, NeedsTyped DEF SearchTypeOK, Search!Needs
  <2>7. CallsInv'
    BY <1>9, <1>7, <2>1, <2>3, <2>5, <2>6 DEF CallsInv
  <2>8. \A k \in DOMAIN Registered : k < root + 1 => k < root \/ k = root
    BY <1>2
  <2>9. (root + 1) - 1 = root
    BY <1>2
  <2>10. LoopsInv'
    BY <1>5, <1>6, <1>7, <2>3, <2>5, <2>8, <2>9 DEF LoopsInv
  <2> QED  BY <1>1, <1>5, <1>7, <2>4, <2>7, <2>10 DEF SearchInv
<1> QED  BY <1>8, <1>9

\* A call that goes on with a dependency that has been visited, or that it now visits.
LEMMA DependencyVisited ==
  ASSUME SearchInv, ~raised, Search!VisitDependency
  PROVE  SearchInv'
<1> DEFINE n == Len(calls)
           call == calls[n]
           name == Search!Needs(call)[call.at]
           onward == [calls EXCEPT ![n].at = @ + 1]
<1>1. SearchTypeOK /\ CallsInv /\ LoopsInv /\ ResolvedInv /\ calls # << >>
  BY DEF SearchInv, Search!VisitDependency
<1>2. /\ n \in Nat \ {0} /\ DOMAIN calls = 1 .. n /\ n \in DOMAIN calls
      /\ Search!Last(calls) = call
      /\ onward \in Seq(CallType) /\ Len(onward) = n /\ DOMAIN onward = 1 .. n
      /\ \A i \in 1 .. n : onward[i].name = calls[i].name
      /\ \A i \in 1 .. n : i # n => onward[i] = calls[i]
      /\ onward[n].at = call.at + 1
      /\ onward # << >>
  BY <1>1, LastCall
<1>3. call.at \in 1 .. Len(Search!Needs(call)) /\ name \in Search!Installed /\ call.at \in Nat \ {0}
      /\ Len(Search!Needs(call)) \in Nat
  <2>1. call.at \in Nat \ {0} /\ Len(Search!Needs(call)) \in Nat
    BY <1>1, <1>2, NeedsTyped DEF CallType
  <2>2. call.at <= Len(Search!Needs(call))
    BY <1>2 DEF Search!VisitDependency
  <2>3. call.at \in 1 .. Len(Search!Needs(call))
    BY <2>1, <2>2
  <2> QED  BY <1>1, <1>2, <2>1, <2>3, NeedsTyped
<1>4. Search!Visit(name, onward) /\ UNCHANGED <<deps, resolved, root>>
  BY <1>2 DEF Search!VisitDependency, Search!Visit
<1> HIDE DEF name, onward, call, n
<1>5. ResolvedInv' /\ Search!visited' = Search!visited
  BY <1>1, <1>4 DEF ResolvedInv, Search!visited
\* The loops of the calls, the last of which has passed one more dependency.
<1>6. \A i \in 1 .. n : i # n => \A k \in 1 .. onward[i].at - 1 :
        \/ Search!Needs(onward[i])[k] \in Search!visited
        \/ k = onward[i].at - 1 /\ i + 1 \in 1 .. n
  BY <1>1, <1>2 DEF LoopsInv
<1>7. \A k \in 1 .. onward[n].at - 1 :
        \/ Search!Needs(onward[n])[k] \in Search!visited
        \/ k = onward[n].at - 1 /\ Search!Needs(onward[n])[k] = name
  <2> SUFFICES ASSUME NEW k \in 1 .. onward[n].at - 1, k # onward[n].at - 1
               PROVE  Search!Needs(onward[n])[k] \in Search!visited
    <3>1. Search!Needs(onward[n])[onward[n].at - 1] = name
      <4>1. onward[n].at - 1 = call.at
        BY <1>2, <1>3
      <4> QED  BY <1>2, <4>1 DEF name, call, Search!Needs
    <3> QED  BY <3>1
  <2>1. k \in 1 .. call.at - 1
    BY <1>2, <1>3
  <2>2. ~(n + 1 \in 1 .. n)
    BY <1>2
  <2>3. Search!Needs(call)[k] \in Search!visited
    BY <1>1, <1>2, <2>1, <2>2 DEF LoopsInv, call
  <2> QED  BY <1>2, <2>3 DEF Search!Needs, call
<1>8. \A i \in 1 .. n : onward[i].at <= Len(Search!Needs(onward[i])) + 1
  <2> SUFFICES ASSUME NEW i \in 1 .. n PROVE onward[i].at <= Len(Search!Needs(onward[i])) + 1
    OBVIOUS
  <2>1. CASE i = n
    <3>1. Search!Needs(onward[n]) = Search!Needs(call)
      BY <1>2 DEF Search!Needs, call
    <3> QED  BY <2>1, <3>1, <1>2, <1>3
  <2>2. CASE i # n
    BY <2>2, <1>1, <1>2 DEF CallsInv
  <2> QED  BY <2>1, <2>2
<1>9. \A i \in 1 .. n : i + 1 \in 1 .. n =>
        /\ 1 < onward[i].at
        /\ onward[i + 1].name = Search!Needs(onward[i])[onward[i].at - 1]
  <2> SUFFICES ASSUME NEW i \in 1 .. n, i + 1 \in 1 .. n
               PROVE  /\ 1 < onward[i].at
                      /\ onward[i + 1].name = Search!Needs(onward[i])[onward[i].at - 1]
    OBVIOUS
  <2>1. i # n
    BY <1>2
  <2> QED  BY <2>1, <1>1, <1>2 DEF CallsInv, Waits
<1>10. /\ visiting = {onward[i].name : i \in 1 .. n}
       /\ visiting \cap Search!visited = {}
       /\ \A i, j \in 1 .. n : onward[i].name = onward[j].name => i = j
  BY <1>1, <1>2 DEF CallsInv
<1>11. \A k \in DOMAIN Registered : k < root =>
         \/ Registered[k] \in Search!visited
         \/ k = root - 1 /\ onward[1].name = Registered[k]
  <2>1. 1 \in 1 .. n
    BY <1>2
  <2> QED  BY <1>1, <1>2, <2>1 DEF LoopsInv
<1>13. CASE name \in Search!visited
  <2>1. calls' = onward /\ UNCHANGED <<visiting, raised>>
    BY <1>13, <1>4, <1>10 DEF Search!Visit
  <2>2. SearchTypeOK'
    BY <1>1, <1>2, <1>4, <2>1 DEF SearchTypeOK, CallType
  <2>3. CallsInv'
    <3>1. visiting' = {calls'[i].name : i \in DOMAIN calls'} /\ visiting' \cap Search!visited' = {}
      BY <1>2, <1>5, <1>10, <2>1
    <3>2. \A i, j \in DOMAIN calls' : calls'[i].name = calls'[j].name => i = j
      BY <1>2, <1>10, <2>1
    <3>3. \A i \in DOMAIN calls' : calls'[i].at <= Len(deps[calls'[i].name]) + 1
      BY <1>2, <1>8, <2>1 DEF Search!Needs
    <3>4. \A i \in DOMAIN calls' : i + 1 \in DOMAIN calls' =>
            /\ 1 < calls'[i].at
            /\ calls'[i + 1].name = deps[calls'[i].name][calls'[i].at - 1]
      BY <1>2, <1>9, <2>1 DEF Search!Needs
    <3> QED  BY <1>4, <3>1, <3>2, <3>3, <3>4 DEF CallsInv, Waits, Search!Needs
  <2>4. LoopsInv'
    <3>1. \A i \in 1 .. n : \A k \in 1 .. onward[i].at - 1 :
            \/ Search!Needs(onward[i])[k] \in Search!visited
            \/ k = onward[i].at - 1 /\ i + 1 \in 1 .. n
      BY <1>6, <1>7, <1>13
    <3> QED  BY <3>1, <1>2, <1>4, <1>5, <1>11, <2>1 DEF LoopsInv, Search!Needs
  <2> QED  BY <1>5, <2>1, <2>2, <2>3, <2>4 DEF SearchInv
<1>14. CASE name \in visiting \ Search!visited
  <2>1. calls' = << >> /\ raised' = TRUE /\ UNCHANGED visiting
    BY <1>14, <1>4 DEF Search!Visit
  <2>2. SearchTypeOK'
    BY <1>1, <1>4, <2>1 DEF SearchTypeOK
  <2>3. Search!Cyclic
    BY <1>1, <1>3, <1>14, CycleFound DEF name, call, n
  <2>4. Search!Cyclic'
    BY <2>3, <1>4 DEF Search!Cyclic
  <2> QED  BY <1>5, <2>1, <2>2, <2>4 DEF SearchInv
<1>15. CASE name \notin visiting \cup Search!visited
  <2>1. /\ calls' = Append(onward, Search!Call(name)) /\ UNCHANGED raised
        /\ visiting' = visiting \cup {name}
    BY <1>15, <1>4 DEF Search!Visit
  <2>2. Search!Call(name) \in CallType /\ Search!Call(name).name = name /\ Search!Call(name).at = 1
    BY <1>3 DEF CallType, Search!Call
  <2>3. /\ calls' \in Seq(CallType) /\ calls' # << >> /\ DOMAIN calls' = 1 .. n + 1
        /\ \A i \in 1 .. n : calls'[i] = onward[i]
        /\ calls'[n + 1] = Search!Call(name)
    BY <1>2, <2>1, <2>2, AppendOne
  <2>4. SearchTypeOK'
    BY <1>1, <1>3, <1>4, <2>1, <2>3 DEF SearchTypeOK, CallType
  <2>5. \A i \in 1 .. n + 1 : i \in 1 .. n \/ i = n + 1
    BY <1>2
  <2>6. n + 1 \in 1 .. n + 1 /\ 1 \in 1 .. n /\ ~((n + 1) + 1 \in 1 .. n + 1)
        /\ \A i \in 1 .. n : i \in 1 .. n + 1 /\ (i # n => i + 1 \in 1 .. n) /\ i + 1 \in 1 .. n + 1
        /\ ~(n + 1 \in 1 .. n)
    BY <1>2
  <2>7. CallsInv'
    <3>1. visiting' = {calls'[i].name : i \in 1 .. n + 1}
      <4>1. \A x : (\E i \in 1 .. n + 1 : calls'[i].name = x) <=>
                     (\E i \in 1 .. n : onward[i].name = x) \/ x = name
        BY <2>2, <2>3, <2>5, <2>6
      <4>2. \A x : x \in visiting' <=> (\E i \in 1 .. n : onward[i].name = x) \/ x = name
        BY <1>10, <2>1
      <4> QED  BY <4>1, <4>2
    <3>2. visiting' \cap Search!visited' = {}
      BY <1>5, <1>10, <1>15, <2>1
    <3>3. \A i, j \in 1 .. n + 1 : calls'[i].name = calls'[j].name => i = j
      BY <1>10, <1>15, <2>2, <2>3, <2>5
    <3>4. \A i \in 1 .. n + 1 : calls'[i].at <= Len(deps[calls'[i].name]) + 1
      <4>1. deps[name] \in Seq(Search!Installed)
        BY <1>1, <1>3 DEF SearchTypeOK
      <4>2. Len(deps[name]) \in Nat
        BY <4>1
      <4>3. 1 <= Len(deps[name]) + 1
        BY <4>2
      <4> QED  BY <1>8, <2>2, <2>3, <2>5, <4>3 DEF Search!Needs
    <3>5. \A i \in 1 .. n + 1 : i + 1 \in 1 .. n + 1 =>
            /\ 1 < calls'[i].at
            /\ calls'[i + 1].name = deps[calls'[i].name][calls'[i].at - 1]
      <4>1. 1 < onward[n].at /\ onward[n].at - 1 = call.at
        BY <1>2, <1>3
      <4>2. deps[onward[n].name][onward[n].at - 1] = name
        BY <1>2, <4>1 DEF name, call, Search!Needs
      <4>3. \A i \in 1 .. n : i # n =>
              /\ 1 < calls'[i].at
              /\ calls'[i + 1].name = deps[calls'[i].name][calls'[i].at - 1]
        BY <1>9, <2>3, <2>6 DEF Search!Needs
      <4>4. n \in 1 .. n
        BY <1>2
      <4> QED  BY <2>2, <2>3, <2>5, <2>6, <4>1, <4>2, <4>3, <4>4
    <3> QED  BY <1>4, <2>3, <3>1, <3>2, <3>3, <3>4, <3>5 DEF CallsInv, Waits, Search!Needs
  <2>8. LoopsInv'
    <3>1. \A i \in 1 .. n + 1 : \A k \in 1 .. calls'[i].at - 1 :
            \/ deps[calls'[i].name][k] \in Search!visited
            \/ k = calls'[i].at - 1 /\ i + 1 \in 1 .. n + 1
      <4>1. \A k \in 1 .. calls'[n + 1].at - 1 : FALSE
        BY <2>2, <2>3
      <4>2. \A i \in 1 .. n : \A k \in 1 .. onward[i].at - 1 :
              \/ deps[onward[i].name][k] \in Search!visited
              \/ k = onward[i].at - 1
        BY <1>6, <1>7 DEF Search!Needs
      <4> QED  BY <2>3, <2>5, <2>6, <4>1, <4>2
    <3>2. calls'[1] = onward[1]
      BY <2>3, <2>6
    <3> QED  BY <1>4, <1>5, <1>11, <2>3, <3>1, <3>2 DEF LoopsInv, Search!Needs
  <2> QED  BY <1>1, <1>5, <2>1, <2>4, <2>7, <2>8 DEF SearchInv
<1> QED  BY <1>13, <1>14, <1>15

\* A call that returns: all its plugin needs has been visited.
LEMMA PluginLeft ==
  ASSUME SearchInv, ~raised, Search!Leave
  PROVE  SearchInv'
<1> DEFINE n == Len(calls)
           call == calls[n]
           size == Len(resolved)
<1>1. SearchTypeOK /\ CallsInv /\ LoopsInv /\ ResolvedInv /\ calls # << >>
  BY DEF SearchInv, Search!Leave
<1>2. n \in Nat \ {0} /\ DOMAIN calls = 1 .. n /\ n \in DOMAIN calls /\ Search!Last(calls) = call
  BY <1>1, LastCall
<1>3. call.at \in Nat \ {0} /\ call.name \in Search!Installed /\ Len(Search!Needs(call)) \in Nat
      /\ Search!Needs(call) = deps[call.name] /\ call.at > Len(Search!Needs(call))
      /\ Search!Needs(call) \in Seq(Search!Installed)
  BY <1>1, <1>2, NeedsTyped DEF CallType, Search!Leave
<1>4. /\ visiting' = visiting \ {call.name} /\ resolved' = Append(resolved, call.name)
      /\ calls' = SubSeq(calls, 1, n - 1) /\ UNCHANGED <<deps, root, raised>>
  BY <1>2 DEF Search!Leave, Search!Front
<1>5. /\ calls' \in Seq(CallType) /\ DOMAIN calls' = 1 .. n - 1 /\ Len(calls') = n - 1
      /\ \A i \in 1 .. n - 1 : calls'[i] = calls[i] /\ i \in 1 .. n
  <2>1. \A i \in 1 .. n - 1 : i \in 1 .. n /\ calls[i] \in CallType
    BY <1>1, <1>2, NeedsTyped
  <2>2. /\ SubSeq(calls, 1, n - 1) \in Seq(CallType)
        /\ Len(SubSeq(calls, 1, n - 1)) = IF 1 <= n - 1 THEN (n - 1) - 1 + 1 ELSE 0
        /\ \A i \in 1 .. (n - 1) - 1 + 1 : SubSeq(calls, 1, n - 1)[i] = calls[1 + i - 1]
    BY <1>2, <2>1, SubSeqProperties
  <2> HIDE DEF n
  <2>3. Len(calls') = n - 1
    BY <1>2, <1>4, <2>2
  <2>4. \A i \in 1 .. n - 1 : calls'[i] = calls[i]
    <3>1. \A i \in 1 .. n - 1 : 1 + i - 1 = i /\ i \in 1 .. (n - 1) - 1 + 1
      BY <1>2
    <3> QED  BY <1>4, <2>2, <3>1
  <2> QED  BY <1>4, <2>1, <2>2, <2>3, <2>4, LenProperties
<1>6. /\ resolved' \in Seq(Search!Installed)
      /\ DOMAIN resolved = 1 .. size /\ size \in Nat
      /\ DOMAIN resolved' = 1 .. size + 1
      /\ \A i \in 1 .. size : resolved'[i] = resolved[i]
      /\ resolved'[size + 1] = call.name
      /\ Search!Range(resolved') = Search!Range(resolved) \cup {call.name}
  BY <1>1, <1>3, <1>4, VisitedGrows
<1>7. Search!visited' = Search!visited \cup {call.name}
  BY <1>6 DEF Search!visited
<1>9. \A d \in Search!Range(deps[call.name]) : d \in Search!visited
  <2> SUFFICES ASSUME NEW k \in DOMAIN deps[call.name]
               PROVE  deps[call.name][k] \in Search!visited
    BY DEF Search!Range
  <2>1. k \in 1 .. call.at - 1
    <3>1. k \in 1 .. Len(Search!Needs(call))
      BY <1>3, LenProperties
    <3> QED  BY <3>1, <1>3
  <2>2. ~(n + 1 \in 1 .. n)
    BY <1>2
  <2> QED  BY <1>1, <1>2, <1>3, <2>1, <2>2 DEF LoopsInv
<1> HIDE DEF call, n, size
<1>8. \A i \in 1 .. n : i \in 1 .. n - 1 \/ i = n
  BY <1>2
<1>10. SearchTypeOK'
  BY <1>1, <1>4, <1>5, <1>6 DEF SearchTypeOK, CallType
<1>11. CallsInv'
  <2>1. visiting' = {calls'[i].name : i \in 1 .. n - 1}
    <3>1. n \notin 1 .. n - 1
      BY <1>2
    <3>2. \A i \in 1 .. n - 1 : calls[i].name # call.name
      BY <1>1, <1>2, <1>5, <3>1 DEF CallsInv, call
    <3>3. visiting = {calls[i].name : i \in 1 .. n}
      BY <1>1, <1>2 DEF CallsInv
    <3>4. \A x : (\E i \in 1 .. n : calls[i].name = x) /\ x # call.name <=>
                   \E i \in 1 .. n - 1 : calls'[i].name = x
      BY <1>5, <1>8, <3>2 DEF call
    <3>5. \A x : x \in visiting' <=> (\E i \in 1 .. n : calls[i].name = x) /\ x # call.name
      BY <1>4, <3>3
    <3> QED  BY <3>4, <3>5
  <2>2. visiting' \cap Search!visited' = {}
    BY <1>1, <1>4, <1>7 DEF CallsInv
  <2>3. \A i, j \in 1 .. n - 1 : calls'[i].name = calls'[j].name => i = j
    BY <1>1, <1>2, <1>5 DEF CallsInv
  <2>4. \A i \in 1 .. n - 1 : calls'[i].at <= Len(deps[calls'[i].name]) + 1
    BY <1>1, <1>2, <1>5 DEF CallsInv, Search!Needs
  <2>5. \A i \in 1 .. n - 1 : i + 1 \in 1 .. n - 1 =>
          /\ 1 < calls'[i].at
          /\ calls'[i + 1].name = deps[calls'[i].name][calls'[i].at - 1]
    BY <1>1, <1>2, <1>5 DEF CallsInv, Waits, Search!Needs
  <2> QED  BY <1>4, <1>5, <2>1, <2>2, <2>3, <2>4, <2>5 DEF CallsInv, Waits, Search!Needs
<1>12. LoopsInv'
  <2>1. \A i \in 1 .. n - 1 : \A k \in 1 .. calls'[i].at - 1 :
          \/ deps[calls'[i].name][k] \in Search!visited'
          \/ k = calls'[i].at - 1 /\ i + 1 \in 1 .. n - 1
    <3> SUFFICES ASSUME NEW i \in 1 .. n - 1, NEW k \in 1 .. calls[i].at - 1
                 PROVE  \/ deps[calls[i].name][k] \in Search!visited'
                        \/ k = calls[i].at - 1 /\ i + 1 \in 1 .. n - 1
      BY <1>5
    <3>1. \/ deps[calls[i].name][k] \in Search!visited
          \/ k = calls[i].at - 1 /\ i + 1 \in 1 .. n
      BY <1>1, <1>2, <1>5 DEF LoopsInv, Search!Needs
    <3>2. i + 1 \in 1 .. n => i + 1 \in 1 .. n - 1 \/ i + 1 = n
      BY <1>8
    <3>3. i + 1 = n => deps[calls[i].name][calls[i].at - 1] = call.name
      BY <1>1, <1>2, <1>5 DEF CallsInv, Waits, Search!Needs, call
    <3> QED  BY <1>7, <3>1, <3>2, <3>3
  <2>2. \A k \in DOMAIN Registered : k < root =>
          \/ Registered[k] \in Search!visited'
          \/ k = root - 1 /\ calls' # << >> /\ calls'[1].name = Registered[k]
    <3> SUFFICES ASSUME NEW k \in DOMAIN Registered, k < root, Registered[k] \notin Search!visited'
                 PROVE  k = root - 1 /\ calls' # << >> /\ calls'[1].name = Registered[k]
      OBVIOUS
    <3>1. k = root - 1 /\ calls[1].name = Registered[k] /\ calls[1].name # call.name
      BY <1>1, <1>7 DEF LoopsInv
    <3>2. 1 \in 1 .. n - 1
      BY <1>2, <3>1 DEF call
    <3> QED  BY <1>5, <3>1, <3>2
  <2> QED  BY <1>4, <1>5, <2>1, <2>2 DEF LoopsInv, Search!Needs
<1>13. ResolvedInv'
  <2>1. \A i \in 1 .. size + 1 : i \in 1 .. size \/ i = size + 1
    BY <1>6
  <2>2. \A i \in 1 .. size : resolved[i] # call.name
    <3>1. call.name \in visiting
      BY <1>1, <1>2 DEF CallsInv, call
    <3>2. call.name \notin Search!Range(resolved)
      BY <1>1, <3>1 DEF CallsInv, Search!visited
    <3> QED  BY <1>6, <3>2 DEF Search!Range
  <2>3. \A i, j \in 1 .. size + 1 : resolved'[i] = resolved'[j] => i = j
    BY <1>1, <1>6, <2>1, <2>2 DEF ResolvedInv
  <2>4. \A j \in 1 .. size : \A d \in Search!Range(deps[resolved[j]]) :
          \E i \in 1 .. size : i < j /\ resolved[i] = d
    <3>1. DOMAIN resolved = 1 .. size
      BY <1>6
    <3> QED  BY <1>1, <3>1 DEF ResolvedInv
  <2>5. \A d \in Search!Range(deps[call.name]) :
          \E i \in 1 .. size : i < size + 1 /\ resolved[i] = d
    <3> SUFFICES ASSUME NEW d \in Search!Range(deps[call.name])
                 PROVE  \E i \in 1 .. size : i < size + 1 /\ resolved[i] = d
      OBVIOUS
    <3>1. PICK i \in 1 .. size : resolved[i] = d
      BY <1>6, <1>9 DEF Search!visited, Search!Range
    <3>2. i < size + 1
      BY <1>6
    <3> QED  BY <3>1, <3>2
  <2>6. \A i \in 1 .. size : i \in 1 .. size + 1
    BY <1>6
  <2>7. \A j \in 1 .. size + 1 : \A d \in Search!Range(deps[resolved'[j]]) :
          \E i \in 1 .. size + 1 : i < j /\ resolved'[i] = d
    <3> SUFFICES ASSUME NEW j \in 1 .. size + 1, NEW d \in Search!Range(deps[resolved'[j]])
                 PROVE  \E i \in 1 .. size + 1 : i < j /\ resolved'[i] = d
      OBVIOUS
    <3>1. \A i \in 1 .. size : resolved'[i] = resolved[i]
      BY <1>6
    <3>2. CASE j \in 1 .. size
      <4>1. PICK i \in 1 .. size : i < j /\ resolved[i] = d
        BY <2>4, <3>1, <3>2
      <4> QED  BY <2>6, <3>1, <4>1
    <3>3. CASE j = size + 1
      <4>1. PICK i \in 1 .. size : i < size + 1 /\ resolved[i] = d
        BY <1>6, <2>5, <3>3
      <4> QED  BY <2>6, <3>1, <3>3, <4>1
    <3> QED  BY <2>1, <3>2, <3>3
  <2>8. DOMAIN resolved' = 1 .. size + 1 /\ deps' = deps
    BY <1>4, <1>6
  <2> QED  BY <2>3, <2>7, <2>8 DEF ResolvedInv
<1> QED  BY <1>1, <1>4, <1>10, <1>11, <1>12, <1>13 DEF SearchInv

\* The invariant of the search.
THEOREM SearchInvariance == Search!Spec => []SearchInv
<1>1. SearchInv /\ [Search!Next]_(Search!searchVars) => SearchInv'
  <2> SUFFICES ASSUME SearchInv, [Search!Next]_(Search!searchVars) PROVE SearchInv'
    OBVIOUS
  <2>1. CASE UNCHANGED Search!searchVars
    <3>1. UNCHANGED <<deps, resolved, visiting, calls, root, raised>>
      BY <2>1 DEF Search!searchVars
    <3>2. SearchTypeOK' <=> SearchTypeOK
      BY <3>1 DEF SearchTypeOK
    <3>3. CallsInv' <=> CallsInv
      BY <3>1 DEF CallsInv, Waits, Search!visited, Search!Needs
    <3>4. LoopsInv' <=> LoopsInv
      BY <3>1 DEF LoopsInv, Search!visited, Search!Needs
    <3>5. (ResolvedInv' <=> ResolvedInv) /\ (Search!Cyclic' <=> Search!Cyclic)
      BY <3>1 DEF ResolvedInv, Search!Cyclic
    <3> QED  BY <3>1, <3>2, <3>3, <3>4, <3>5 DEF SearchInv
  <2>2. CASE raised /\ ~UNCHANGED Search!searchVars
    BY <2>2 DEF SearchInv, Search!Next, Search!VisitPlugin, Search!VisitDependency, Search!Leave,
       Search!Stay
  <2>3. CASE ~raised /\ ~UNCHANGED Search!searchVars
    BY <2>3, PluginVisited, DependencyVisited, PluginLeft DEF Search!Next, Search!Stay
  <2> QED  BY <2>1, <2>2, <2>3
<1> QED  BY <1>1, InitHolds, PTL DEF Search!Spec

\* An order in which every plugin comes after what it depends on leaves no cycle: of its
\* plugins, the first in the order would need another one.
LEMMA OrderedIsAcyclic ==
  ASSUME SearchTypeOK, ResolvedInv, Search!Range(resolved) = Search!Installed
  PROVE  ~Search!Cyclic
<1> SUFFICES ASSUME NEW S \in SUBSET Search!Installed, S # {},
                    \A p \in S : Search!Range(deps[p]) \cap S # {}
             PROVE  FALSE
  BY DEF Search!Cyclic
<1> DEFINE InCycle == {i \in DOMAIN resolved : resolved[i] \in S}
<1>1. InCycle \subseteq Nat /\ InCycle # {}
  <2>1. DOMAIN resolved \subseteq Nat
    BY LenProperties DEF SearchTypeOK
  <2>2. PICK p \in S : p \in Search!Range(resolved)
    OBVIOUS
  <2>3. \E i \in DOMAIN resolved : resolved[i] = p
    BY <2>2 DEF Search!Range
  <2> QED  BY <2>1, <2>2, <2>3
<1>2. PICK x \in InCycle : \A y \in InCycle : ~(<<y, x>> \in OpToRel(<, Nat))
  <2> HIDE DEF InCycle
  <2> QED  BY <1>1, NatLessThanWellFounded, WFMin
<1>3. PICK d \in Search!Range(deps[resolved[x]]) : d \in S
  BY <1>2
<1>4. PICK y \in DOMAIN resolved : y < x /\ resolved[y] = d
  BY <1>2, <1>3 DEF ResolvedInv
<1>5. y \in InCycle /\ x \in Nat /\ y \in Nat
  BY <1>1, <1>2, <1>3, <1>4
<1>6. <<y, x>> \in OpToRel(<, Nat)
  BY <1>4, <1>5 DEF OpToRel
<1> QED  BY <1>2, <1>5, <1>6

\* ResolvesOrder: on any dependency graph, _resolve_order() raises only if plugins depend
\* on each other in a cycle, and returns only if none do: then with every plugin once,
\* after all that it depends on.
THEOREM SearchFindsAnOrder == Search!Spec => []ResolvesOrder
<1>1. SearchInv => ResolvesOrder
  <2> SUFFICES ASSUME SearchInv PROVE Search!RaisesIffCyclic /\ Search!DependenciesFirst
    BY DEF ResolvesOrder, Search!ResolvesOrder
  <2>1. SearchTypeOK /\ ResolvedInv /\ (raised => Search!Cyclic)
    BY DEF SearchInv
  <2>2. ASSUME Search!Returned PROVE Search!Range(resolved) = Search!Installed
    <3>1. \A k \in DOMAIN Registered : k < root => Registered[k] \in Search!Range(resolved)
      BY <2>2 DEF SearchInv, LoopsInv, Search!Returned, Search!visited
    <3>2. \A k \in DOMAIN Registered : k < root
      <4>1. DOMAIN Registered = 1 .. Len(Registered) /\ Len(Registered) \in Nat
        BY RegisteredAssumption, LenProperties
      <4> QED  BY <2>1, <2>2, <4>1 DEF SearchTypeOK, Search!Returned
    <3>3. Search!Installed \subseteq Search!Range(resolved)
      BY <3>1, <3>2 DEF Search!Installed, Search!Range
    <3>4. Search!Range(resolved) \subseteq Search!Installed
      <4>1. resolved \in Seq(Search!Installed)
        BY <2>1 DEF SearchTypeOK
      <4>2. \A i \in DOMAIN resolved : resolved[i] \in Search!Installed
        BY <4>1
      <4> QED  BY <4>2 DEF Search!Range
    <3> QED  BY <3>3, <3>4
  <2>3. Search!Returned => ~Search!Cyclic
    BY <2>1, <2>2, OrderedIsAcyclic
  <2>4. Search!IsInjective(resolved)
    BY <2>1 DEF ResolvedInv, Search!IsInjective
  <2>5. \A i, j \in DOMAIN resolved : resolved[i] \in Search!Range(deps[resolved[j]]) => i < j
    <3> SUFFICES ASSUME NEW i \in DOMAIN resolved, NEW j \in DOMAIN resolved,
                        resolved[i] \in Search!Range(deps[resolved[j]])
                 PROVE  i < j
      OBVIOUS
    <3>1. PICK k \in DOMAIN resolved : k < j /\ resolved[k] = resolved[i]
      BY <2>1 DEF ResolvedInv
    <3> QED  BY <2>1, <3>1 DEF ResolvedInv
  <2> QED  BY <2>1, <2>2, <2>3, <2>4, <2>5 DEF Search!RaisesIffCyclic, Search!DependenciesFirst
<1> QED  BY <1>1, SearchInvariance, PTL
=============================================================================
