---------------------------- MODULE LockManager ----------------------------
(***************************************************************************)
(* DistributedLockManager (plugins/lock/manager.py): a lease on one key in *)
(* Redis, used through "async with manager.lock(key)" by clients that may  *)
(* belong to different processes.                                          *)
(*                                                                         *)
(* Redis runs SET NX EX in one step and the coroutine gets the reply in    *)
(* another, so that it may be cancelled or die in between.  Every acquire()*)
(* has a token of its own; a uuid is the next number.  _lock_tokens is     *)
(* written and popped and never read; it is left out.                      *)
(***************************************************************************)
EXTENDS Naturals

CONSTANTS
  Clients,
  TTL,          \* the timeout of a lease, in ticks
  Patience,     \* the attempts that fit into block_timeout; 0 when not blocking
  MaxTokens,    \* bound on calls of acquire()
  MaxDeaths     \* bound on clients that are cancelled or die

VARIABLES
  lease,    \* the token under the key, 0 when there is none
  ttl,      \* ticks until the key expires
  client,   \* the local state of each client
  made,     \* tokens made so far
  lapsed,   \* tokens whose key has expired
  deaths

vars == <<lease, ttl, client, made, lapsed, deaths>>

Holding == {"won", "inside", "releasing"}
Trying == {"set", "lost", "asleep"}

ClientState == [pc: {"idle"} \cup Trying \cup Holding, token: Nat, tries: Nat]

TypeOK ==
  /\ made \in Nat /\ deaths \in Nat
  /\ lease \in 0 .. made
  /\ ttl \in 0 .. TTL
  /\ client \in [Clients -> ClientState]
  /\ \A c \in Clients : client[c].token \in 0 .. made
  /\ \A c \in Clients : client[c].pc # "idle" => client[c].token # 0
  /\ lease = 0 <=> ttl = 0
  /\ lapsed \subseteq 1 .. made

Init ==
  /\ lease = 0 /\ ttl = 0
  /\ client = [c \in Clients |-> [pc |-> "idle", token |-> 0, tries |-> 0]]
  /\ made = 0
  /\ lapsed = {}
  /\ deaths = 0

-----------------------------------------------------------------------------
Goes(c, label) == client' = [client EXCEPT ![c].pc = label]

\* acquire(): a new token, and SET is sent.
Acquire(c) ==
  /\ client[c].pc = "idle"
  /\ made < MaxTokens
  /\ made' = made + 1
  /\ client' = [client EXCEPT ![c] = [pc |-> "set", token |-> made + 1, tries |-> 0]]
  /\ UNCHANGED <<lease, ttl, lapsed, deaths>>

\* Redis runs SET NX EX.
Set(c) ==
  /\ client[c].pc = "set"
  /\ IF lease = 0
     THEN lease' = client[c].token /\ ttl' = TTL /\ Goes(c, "won")
     ELSE Goes(c, "lost") /\ UNCHANGED <<lease, ttl>>
  /\ UNCHANGED <<made, lapsed, deaths>>

\* acquire() returns, and the body of "async with" runs.
Enter(c) ==
  /\ client[c].pc = "won"
  /\ Goes(c, "inside")
  /\ UNCHANGED <<lease, ttl, made, lapsed, deaths>>

\* Mutant: the time that has passed is not counted.
LoseUncounted(c) ==
  /\ client[c].pc = "lost"
  /\ IF client[c].tries < Patience THEN Goes(c, "asleep") ELSE Goes(c, "idle")
  /\ UNCHANGED <<lease, ttl, made, lapsed, deaths>>

\* The key was taken: sleep and try again, or raise LockAcquisitionError.
Lose(c) ==
  /\ client[c].pc = "lost"
  /\ IF client[c].tries < Patience
     THEN client' = [client EXCEPT ![c].pc = "asleep", ![c].tries = @ + 1]
     ELSE Goes(c, "idle")
  /\ UNCHANGED <<lease, ttl, made, lapsed, deaths>>

Wake(c) ==
  /\ client[c].pc = "asleep"
  /\ Goes(c, "set")
  /\ UNCHANGED <<lease, ttl, made, lapsed, deaths>>

\* extend() with any ttl, longer or shorter than what is left; it returns False when
\* the token is gone.
Extend(c) ==
  /\ client[c].pc = "inside"
  /\ lease = client[c].token
  /\ ttl' \in 1 .. TTL
  /\ UNCHANGED <<lease, client, made, lapsed, deaths>>

\* The body ends, with or without an exception: release() sends its script.
Leave(c) ==
  /\ client[c].pc = "inside"
  /\ Goes(c, "releasing")
  /\ UNCHANGED <<lease, ttl, made, lapsed, deaths>>

\* Mutant: DEL without the comparison.
ReleaseAny(c) ==
  /\ client[c].pc = "releasing"
  /\ lease' = 0 /\ ttl' = 0
  /\ Goes(c, "idle")
  /\ UNCHANGED <<made, lapsed, deaths>>

\* Redis runs the script: the key is deleted if the token is still there.
Release(c) ==
  /\ client[c].pc = "releasing"
  /\ IF lease = client[c].token
     THEN lease' = 0 /\ ttl' = 0
     ELSE UNCHANGED <<lease, ttl>>
  /\ Goes(c, "idle")
  /\ UNCHANGED <<made, lapsed, deaths>>

Step(c) == Set(c) \/ Enter(c) \/ Lose(c) \/ Wake(c) \/ Release(c)

\* The client dies, or is cancelled while it waits for Redis or sleeps: token is
\* unset in lock() until acquire() has returned, so that nothing is released.
Die(c) ==
  /\ client[c].pc # "idle"
  /\ deaths < MaxDeaths
  /\ deaths' = deaths + 1
  /\ Goes(c, "idle")
  /\ UNCHANGED <<lease, ttl, made, lapsed>>

\* A tick of the clock of Redis; the last one deletes the key.
Tick ==
  /\ ttl > 0
  /\ ttl' = ttl - 1
  /\ IF ttl = 1
     THEN lease' = 0 /\ lapsed' = lapsed \cup {lease}
     ELSE UNCHANGED <<lease, lapsed>>
  /\ UNCHANGED <<client, made, deaths>>

Next ==
  \/ \E c \in Clients : Acquire(c) \/ Step(c) \/ Extend(c) \/ Leave(c) \/ Die(c)
  \/ Tick

Spec == Init /\ [][Next]_vars

\* acquire() and release() go on, and time passes.  Nobody has to call acquire(), and
\* the body of "async with" may last, and extend its lease, for ever.
Fairness == WF_vars(Tick) /\ \A c \in Clients : WF_vars(Step(c))

-----------------------------------------------------------------------------
(* Properties                                                              *)

\* Two clients are in the critical section only when the lease of one has expired
\* under it: neither a late release nor a late acquire() takes it from a holder.
MutualExclusion ==
  \A c, d \in Clients :
    /\ client[c].pc = "inside" /\ client[d].pc = "inside" /\ c # d
    => client[c].token \in lapsed \/ client[d].token \in lapsed

\* Only its holder prolongs a lease: a client that has lost its own cannot keep
\* the key from those that wait, however often it calls extend().
OnlyHolderExtends ==
  [][lease # 0 /\ lease' = lease /\ ttl' > ttl =>
       \E c \in Clients : client[c].token = lease /\ client[c].pc = "inside"]_vars

\* acquire() ends, with the lock or with LockAcquisitionError, though the holder may
\* never leave and others may take the key between any two attempts.
AcquireEnds ==
  \A c \in Clients : client[c].pc \in Trying ~> client[c].pc \in {"idle"} \cup Holding

\* A lease that no client works under any more, its holder having died or been
\* cancelled between SET and its reply, ends.
Orphaned == lease # 0 /\ \A c \in Clients : client[c].pc \in Holding => client[c].token # lease
OrphansExpire == Orphaned ~> lease = 0

\* Nobody waits for ever: acquire() ends by itself, and a lease ends that nobody holds,
\* since only its holder can prolong it.
LeasesEnd == OnlyHolderExtends /\ AcquireEnds /\ OrphansExpire
=============================================================================
