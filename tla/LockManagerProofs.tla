------------------------- MODULE LockManagerProofs -------------------------
(***************************************************************************)
(* Theorems about LockManager: its types, and mutual exclusion up to the   *)
(* expiry of a lease, for any number of clients, any lease and patience.   *)
(***************************************************************************)
EXTENDS Storage, TLAPS

\* Tokens are never shared.
TokensDistinct ==
  \A c, d \in Clients : c # d /\ client[c].token = client[d].token => client[c].token = 0

\* Who has won the key still has it, or it has expired.
HoldersHold ==
  \A c \in Clients :
    client[c].pc \in Lock!Holding => lease = client[c].token \/ client[c].token \in lapsed

LockInv == Lock!TypeOK /\ TokensDistinct /\ HoldersHold

-----------------------------------------------------------------------------
LEMMA GoesKeepsType ==
  ASSUME Lock!TypeOK, NEW c \in Clients, NEW label \in {"idle"} \cup Lock!Trying \cup Lock!Holding,
         Lock!Goes(c, label)
  PROVE  /\ client' \in [Clients -> Lock!ClientState]
         /\ \A d \in Clients : client'[d].token = client[d].token
         /\ client'[c].pc = label
         /\ \A d \in Clients : d # c => client'[d] = client[d]
  BY DEF Lock!TypeOK, Lock!Goes, Lock!ClientState

\* A step that gives no client a token, in terms of what it does to each client.
LEMMA TokensKeepType ==
  ASSUME Lock!TypeOK,
         client' \in [Clients -> Lock!ClientState],
         \A d \in Clients : /\ client'[d].token = client[d].token
                            /\ client'[d].pc # "idle" => client[d].pc # "idle",
         made' = made, lapsed' = lapsed, deaths' \in Nat,
         lease' \in 0 .. made, ttl' \in 0 .. TTL, lease' = 0 <=> ttl' = 0
  PROVE  Lock!TypeOK'
  BY DEF Lock!TypeOK

LEMMA TypeStep == Lock!TypeOK /\ [Lock!Next]_(Lock!vars) => Lock!TypeOK'
<1> SUFFICES ASSUME Lock!TypeOK, [Lock!Next]_(Lock!vars) PROVE Lock!TypeOK'
  OBVIOUS
<1> USE LeaseAssumption
<1>1. ASSUME NEW c \in Clients, Lock!Acquire(c) PROVE Lock!TypeOK'
  <2>1. client' \in [Clients -> Lock!ClientState]
    BY <1>1 DEF Lock!Acquire, Lock!TypeOK, Lock!ClientState, Lock!Trying
  <2>2. \A d \in Clients : /\ client'[d].token \in 0 .. made'
                           /\ client'[d].pc # "idle" => client'[d].token # 0
    BY <1>1 DEF Lock!Acquire, Lock!TypeOK, Lock!ClientState
  <2> QED
    BY <1>1, <2>1, <2>2 DEF Lock!Acquire, Lock!TypeOK
<1>2. ASSUME NEW c \in Clients, Lock!Set(c) PROVE Lock!TypeOK'
  <2>1. client' \in [Clients -> Lock!ClientState]
    BY <1>2 DEF Lock!Set, Lock!Goes, Lock!TypeOK, Lock!ClientState, Lock!Trying, Lock!Holding
  <2>2. \A d \in Clients : /\ client'[d].token = client[d].token
                           /\ client'[d].pc # "idle" => client[d].pc # "idle"
    BY <1>2 DEF Lock!Set, Lock!Goes, Lock!TypeOK, Lock!ClientState
  <2>3. /\ made' = made /\ lapsed' = lapsed /\ deaths' \in Nat
        /\ lease' \in 0 .. made /\ ttl' \in 0 .. TTL /\ (lease' = 0 <=> ttl' = 0)
    BY <1>2 DEF Lock!Set, Lock!TypeOK
  <2> QED
    BY <2>1, <2>2, <2>3, TokensKeepType
<1>3. ASSUME NEW c \in Clients, Lock!Enter(c) PROVE Lock!TypeOK'
  <2>1. client' \in [Clients -> Lock!ClientState]
    BY <1>3 DEF Lock!Enter, Lock!Goes, Lock!TypeOK, Lock!ClientState, Lock!Trying, Lock!Holding
  <2>2. \A d \in Clients : /\ client'[d].token = client[d].token
                           /\ client'[d].pc # "idle" => client[d].pc # "idle"
    BY <1>3 DEF Lock!Enter, Lock!Goes, Lock!TypeOK, Lock!ClientState
  <2>3. /\ made' = made /\ lapsed' = lapsed /\ deaths' \in Nat
        /\ lease' \in 0 .. made /\ ttl' \in 0 .. TTL /\ (lease' = 0 <=> ttl' = 0)
    BY <1>3 DEF Lock!Enter, Lock!TypeOK
  <2> QED
    BY <2>1, <2>2, <2>3, TokensKeepType
<1>4. ASSUME NEW c \in Clients, Lock!Lose(c) PROVE Lock!TypeOK'
  <2>1. client' \in [Clients -> Lock!ClientState]
    BY <1>4 DEF Lock!Lose, Lock!Goes, Lock!TypeOK, Lock!ClientState, Lock!Trying, Lock!Holding
  <2>2. \A d \in Clients : /\ client'[d].token = client[d].token
                           /\ client'[d].pc # "idle" => client[d].pc # "idle"
    BY <1>4 DEF Lock!Lose, Lock!Goes, Lock!TypeOK, Lock!ClientState
  <2>3. /\ made' = made /\ lapsed' = lapsed /\ deaths' \in Nat
        /\ lease' \in 0 .. made /\ ttl' \in 0 .. TTL /\ (lease' = 0 <=> ttl' = 0)
    BY <1>4 DEF Lock!Lose, Lock!TypeOK
  <2> QED
    BY <2>1, <2>2, <2>3, TokensKeepType
<1>5. ASSUME NEW c \in Clients, Lock!Wake(c) PROVE Lock!TypeOK'
  <2>1. client' \in [Clients -> Lock!ClientState]
    BY <1>5 DEF Lock!Wake, Lock!Goes, Lock!TypeOK, Lock!ClientState, Lock!Trying, Lock!Holding
  <2>2. \A d \in Clients : /\ client'[d].token = client[d].token
                           /\ client'[d].pc # "idle" => client[d].pc # "idle"
    BY <1>5 DEF Lock!Wake, Lock!Goes, Lock!TypeOK, Lock!ClientState
  <2>3. /\ made' = made /\ lapsed' = lapsed /\ deaths' \in Nat
        /\ lease' \in 0 .. made /\ ttl' \in 0 .. TTL /\ (lease' = 0 <=> ttl' = 0)
    BY <1>5 DEF Lock!Wake, Lock!TypeOK
  <2> QED
    BY <2>1, <2>2, <2>3, TokensKeepType
<1>6. ASSUME NEW c \in Clients, Lock!Leave(c) PROVE Lock!TypeOK'
  <2>1. client' \in [Clients -> Lock!ClientState]
    BY <1>6 DEF Lock!Leave, Lock!Goes, Lock!TypeOK, Lock!ClientState, Lock!Trying, Lock!Holding
  <2>2. \A d \in Clients : /\ client'[d].token = client[d].token
                           /\ client'[d].pc # "idle" => client[d].pc # "idle"
    BY <1>6 DEF Lock!Leave, Lock!Goes, Lock!TypeOK, Lock!ClientState
  <2>3. /\ made' = made /\ lapsed' = lapsed /\ deaths' \in Nat
        /\ lease' \in 0 .. made /\ ttl' \in 0 .. TTL /\ (lease' = 0 <=> ttl' = 0)
    BY <1>6 DEF Lock!Leave, Lock!TypeOK
  <2> QED
    BY <2>1, <2>2, <2>3, TokensKeepType
<1>7. ASSUME NEW c \in Clients, Lock!Release(c) PROVE Lock!TypeOK'
  <2>1. client' \in [Clients -> Lock!ClientState]
    BY <1>7 DEF Lock!Release, Lock!Goes, Lock!TypeOK, Lock!ClientState, Lock!Trying, Lock!Holding
  <2>2. \A d \in Clients : /\ client'[d].token = client[d].token
                           /\ client'[d].pc # "idle" => client[d].pc # "idle"
    BY <1>7 DEF Lock!Release, Lock!Goes, Lock!TypeOK, Lock!ClientState
  <2>3. /\ made' = made /\ lapsed' = lapsed /\ deaths' \in Nat
        /\ lease' \in 0 .. made /\ ttl' \in 0 .. TTL /\ (lease' = 0 <=> ttl' = 0)
    BY <1>7 DEF Lock!Release, Lock!TypeOK
  <2> QED
    BY <2>1, <2>2, <2>3, TokensKeepType
<1>8. ASSUME NEW c \in Clients, Lock!Die(c) PROVE Lock!TypeOK'
  <2>1. client' \in [Clients -> Lock!ClientState]
    BY <1>8 DEF Lock!Die, Lock!Goes, Lock!TypeOK, Lock!ClientState, Lock!Trying, Lock!Holding
  <2>2. \A d \in Clients : /\ client'[d].token = client[d].token
                           /\ client'[d].pc # "idle" => client[d].pc # "idle"
    BY <1>8 DEF Lock!Die, Lock!Goes, Lock!TypeOK, Lock!ClientState
  <2>3. /\ made' = made /\ lapsed' = lapsed /\ deaths' \in Nat
        /\ lease' \in 0 .. made /\ ttl' \in 0 .. TTL /\ (lease' = 0 <=> ttl' = 0)
    BY <1>8 DEF Lock!Die, Lock!TypeOK
  <2> QED
    BY <2>1, <2>2, <2>3, TokensKeepType
<1>9. ASSUME NEW c \in Clients, Lock!Extend(c) PROVE Lock!TypeOK'
  BY <1>9 DEF Lock!Extend, Lock!TypeOK
<1>10. ASSUME Lock!Tick PROVE Lock!TypeOK'
  <2>1. ttl' \in 0 .. TTL /\ lease' \in 0 .. made /\ (lease' = 0 <=> ttl' = 0)
    <3>1. CASE ttl = 1
      BY <1>10, <3>1 DEF Lock!Tick, Lock!TypeOK
    <3>2. CASE ttl # 1
      BY <1>10, <3>2 DEF Lock!Tick, Lock!TypeOK
    <3> QED
      BY <3>1, <3>2
  <2>2. lapsed' \subseteq 1 .. made
    <3>1. ttl > 0 => lease \in 1 .. made
      BY DEF Lock!TypeOK
    <3> QED
      BY <1>10, <3>1 DEF Lock!Tick, Lock!TypeOK
  <2>3. UNCHANGED <<client, made, deaths>>
    BY <1>10 DEF Lock!Tick
  <2> QED
    BY <2>1, <2>2, <2>3 DEF Lock!TypeOK
<1>11. CASE UNCHANGED Lock!vars
  BY <1>11 DEF Lock!vars, Lock!TypeOK
<1> QED
  BY <1>1, <1>2, <1>3, <1>4, <1>5, <1>6, <1>7, <1>8, <1>9, <1>10, <1>11 DEF Lock!Next, Lock!Step

\* The types of LockManager: tokens are ones that were made, and a key that is free
\* has no time left.
THEOREM TypeCorrect == Lock!Spec => []Lock!TypeOK
<1>1. Lock!Init => Lock!TypeOK
  BY LeaseAssumption DEF Lock!Init, Lock!TypeOK, Lock!ClientState
<1> QED
  BY <1>1, TypeStep, PTL DEF Lock!Spec

-----------------------------------------------------------------------------
\* Only Acquire gives out a token, and a new one.
LEMMA DistinctStep == Lock!TypeOK /\ TokensDistinct /\ [Lock!Next]_(Lock!vars) => TokensDistinct'
<1> SUFFICES ASSUME Lock!TypeOK, TokensDistinct, [Lock!Next]_(Lock!vars) PROVE TokensDistinct'
  OBVIOUS
<1>1. ASSUME NEW c \in Clients, Lock!Acquire(c) PROVE TokensDistinct'
  BY <1>1 DEF Lock!Acquire, TokensDistinct, Lock!TypeOK, Lock!ClientState
<1>2. ASSUME \A d \in Clients : client'[d].token = client[d].token PROVE TokensDistinct'
  BY <1>2 DEF TokensDistinct
<1>3. ASSUME NEW c \in Clients, Lock!Step(c) \/ Lock!Leave(c) \/ Lock!Die(c) PROVE TokensDistinct'
  <2>1. \A d \in Clients : client'[d].token = client[d].token
    BY <1>3 DEF Lock!Step, Lock!Set, Lock!Enter, Lock!Lose, Lock!Wake, Lock!Leave, Lock!Release, Lock!Die, Lock!Goes, Lock!TypeOK, Lock!ClientState
  <2> QED
    BY <1>2, <2>1
<1>4. CASE UNCHANGED client
  BY <1>2, <1>4
<1> QED
  BY <1>1, <1>3, <1>4 DEF Lock!Next, Lock!Extend, Lock!Tick, Lock!vars

\* A key is taken from its holder by Tick alone.
LEMMA HoldersStep == LockInv /\ [Lock!Next]_(Lock!vars) => HoldersHold'
<1> SUFFICES ASSUME LockInv, [Lock!Next]_(Lock!vars),
                    NEW d \in Clients, client'[d].pc \in Lock!Holding
             PROVE  lease' = client'[d].token \/ client'[d].token \in lapsed'
  BY DEF HoldersHold
<1> USE DEF LockInv
<1>1. ASSUME NEW c \in Clients, NEW label \in {"idle"} \cup Lock!Trying \cup Lock!Holding, Lock!Goes(c, label)
      PROVE  /\ client'[d].token = client[d].token
             /\ d # c => client[d].pc \in Lock!Holding
             /\ client'[c].pc = label
  BY <1>1, GoesKeepsType
<1>2. ASSUME NEW c \in Clients, Lock!Acquire(c)
      PROVE  lease' = client'[d].token \/ client'[d].token \in lapsed'
  <2>1. d # c
    BY <1>2 DEF Lock!Acquire, Lock!TypeOK, Lock!ClientState, Lock!Holding
  <2> QED
    BY <1>2, <2>1 DEF Lock!Acquire, Lock!TypeOK, Lock!ClientState, HoldersHold
<1>3. ASSUME NEW c \in Clients, Lock!Set(c)
      PROVE  lease' = client'[d].token \/ client'[d].token \in lapsed'
  <2>1. PICK label \in {"won", "lost"} : Lock!Goes(c, label)
    BY <1>3 DEF Lock!Set
  <2>2. label \in {"idle"} \cup Lock!Trying \cup Lock!Holding
    BY DEF Lock!Trying, Lock!Holding
  <2>3. client'[d].token = client[d].token /\ (d # c => client[d].pc \in Lock!Holding)
    BY <1>1, <2>1, <2>2
  <2>4. CASE d = c
    <3>1. client'[c].pc = label
      BY <1>1, <2>1, <2>2
    <3>2. label = "won" /\ "lost" \notin Lock!Holding
      BY <2>4, <3>1 DEF Lock!Holding
    <3>3. ~Lock!Goes(c, "lost")
      BY <3>1, <3>2, <1>1 DEF Lock!Trying
    <3> QED
      BY <1>3, <2>3, <2>4, <3>3 DEF Lock!Set
  <2>5. CASE d # c /\ lease # 0
    BY <1>3, <2>3, <2>5 DEF Lock!Set, HoldersHold
  <2>6. CASE d # c /\ lease = 0
    <3>1. client[d].token # 0
      BY <2>3, <2>6 DEF Lock!TypeOK, Lock!Holding
    <3> QED
      BY <1>3, <2>3, <2>6, <3>1 DEF Lock!Set, HoldersHold
  <2> QED
    BY <2>4, <2>5, <2>6
<1>4. ASSUME NEW c \in Clients, Lock!Enter(c) \/ Lock!Wake(c) \/ Lock!Leave(c) \/ Lock!Lose(c) \/ Lock!Die(c)
      PROVE  lease' = client'[d].token \/ client'[d].token \in lapsed'
  <2>1. client'[d].token = client[d].token /\ client[d].pc \in Lock!Holding
    BY <1>4 DEF Lock!Enter, Lock!Wake, Lock!Leave, Lock!Lose, Lock!Die, Lock!Goes, Lock!TypeOK, Lock!ClientState, Lock!Holding
  <2> QED
    BY <1>4, <2>1 DEF Lock!Enter, Lock!Wake, Lock!Leave, Lock!Lose, Lock!Die, HoldersHold
<1>5. ASSUME NEW c \in Clients, Lock!Release(c)
      PROVE  lease' = client'[d].token \/ client'[d].token \in lapsed'
  <2>1. Lock!Goes(c, "idle")
    BY <1>5 DEF Lock!Release
  <2>2. d # c
    BY <1>1, <2>1 DEF Lock!Holding
  <2>3. client'[d].token = client[d].token /\ client[d].pc \in Lock!Holding
    BY <1>1, <2>1, <2>2
  <2>4. CASE lease # client[c].token
    BY <1>5, <2>3, <2>4 DEF Lock!Release, HoldersHold
  <2>5. CASE lease = client[c].token
    <3>1. client[d].token # 0
      BY <2>3 DEF Lock!TypeOK, Lock!Holding
    <3>2. client[d].token # lease
      BY <2>2, <2>5, <3>1 DEF TokensDistinct
    <3> QED
      BY <1>5, <2>3, <3>2 DEF Lock!Release, HoldersHold
  <2> QED
    BY <2>4, <2>5
<1>6. ASSUME Lock!Tick
      PROVE  lease' = client'[d].token \/ client'[d].token \in lapsed'
  BY <1>6 DEF Lock!Tick, HoldersHold
<1>7. ASSUME NEW c \in Clients, Lock!Extend(c)
      PROVE  lease' = client'[d].token \/ client'[d].token \in lapsed'
  BY <1>7 DEF Lock!Extend, HoldersHold
<1>8. ASSUME UNCHANGED Lock!vars
      PROVE  lease' = client'[d].token \/ client'[d].token \in lapsed'
  BY <1>8 DEF Lock!vars, HoldersHold
<1> QED
  BY <1>2, <1>3, <1>4, <1>5, <1>6, <1>7, <1>8 DEF Lock!Next, Lock!Step

\* The inductive invariant of the lease.
THEOREM LockInvariance == Lock!Spec => []LockInv
<1>1. Lock!Init => LockInv
  BY LeaseAssumption DEF Lock!Init, LockInv, Lock!TypeOK, Lock!ClientState, TokensDistinct, HoldersHold, Lock!Holding
<1>2. LockInv /\ [Lock!Next]_(Lock!vars) => LockInv'
  BY TypeStep, DistinctStep, HoldersStep DEF LockInv
<1> QED
  BY <1>1, <1>2, PTL DEF Lock!Spec

\* At most one client is in the critical section of lock(), however many clients,
\* calls, deaths and late releases there are, until the lease of one expires.
THEOREM OneHolder == Lock!Spec => []MutualExclusion
<1>1. LockInv => MutualExclusion
  <2> SUFFICES ASSUME LockInv, NEW c \in Clients, NEW d \in Clients, c # d,
                      client[c].pc = "inside", client[d].pc = "inside",
                      client[c].token \notin lapsed, client[d].token \notin lapsed
               PROVE  FALSE
    BY DEF MutualExclusion, Lock!MutualExclusion
  <2>1. client[c].token = lease /\ client[d].token = lease
    BY DEF LockInv, HoldersHold, Lock!Holding
  <2>2. client[c].token # 0
    BY DEF LockInv, Lock!TypeOK
  <2> QED
    BY <2>1, <2>2 DEF LockInv, TokensDistinct
<1> QED
  BY <1>1, LockInvariance, PTL

\* Only the client inside the section whose token the lease has makes it last longer: a
\* client that lost its lease cannot keep the key from those that wait.
THEOREM HolderAloneExtends == Lock!Spec => Lock!OnlyHolderExtends
<1>1. Lock!TypeOK /\ [Lock!Next]_(Lock!vars) =>
        (lease # 0 /\ lease' = lease /\ ttl' > ttl =>
           \E c \in Clients : client[c].token = lease /\ client[c].pc = "inside")
  <2> SUFFICES ASSUME Lock!TypeOK, [Lock!Next]_(Lock!vars), lease # 0, lease' = lease, ttl' > ttl
               PROVE  \E c \in Clients : client[c].token = lease /\ client[c].pc = "inside"
    OBVIOUS
  <2>1. ttl \in Nat /\ ~(ttl > ttl) /\ ~(ttl - 1 > ttl) /\ ~(0 > ttl)
    BY LeaseAssumption DEF Lock!TypeOK
  <2>2. ASSUME NEW c \in Clients, Lock!Extend(c)
        PROVE  client[c].token = lease /\ client[c].pc = "inside"
    BY <2>2 DEF Lock!Extend
  <2>3. ASSUME NEW c \in Clients, Lock!Acquire(c) \/ Lock!Step(c) \/ Lock!Leave(c) \/ Lock!Die(c)
        PROVE  FALSE
    BY <2>1, <2>3 DEF Lock!Acquire, Lock!Step, Lock!Set, Lock!Enter, Lock!Lose, Lock!Wake, Lock!Release, Lock!Leave, Lock!Die
  <2>4. ASSUME Lock!Tick PROVE FALSE
    BY <2>1, <2>4 DEF Lock!Tick
  <2>5. ASSUME UNCHANGED Lock!vars PROVE FALSE
    BY <2>1, <2>5 DEF Lock!vars
  <2> QED  BY <2>2, <2>3, <2>4, <2>5 DEF Lock!Next
<1> QED
  BY <1>1, TypeCorrect, PTL DEF Lock!OnlyHolderExtends, Lock!Spec
=============================================================================
