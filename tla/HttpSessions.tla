---------------------------- MODULE HttpSessions ----------------------------
(***************************************************************************)
(* HttpClient (http/client.py) on one event loop: requests reuse the       *)
(* session of the loop or make a new one and repeat a failed attempt, the  *)
(* cleanup task closes a session not used for long, close() closes it for  *)
(* good.  An action is what runs between two awaits.  A session counts as  *)
(* closed as soon as its close() has begun (aiohttp, external).            *)
(***************************************************************************)
EXTENDS Naturals

CONSTANTS
  Senders,      \* callers of request()
  MaxAttempts,  \* retry_config.max_attempts
  MaxSessions,  \* bound on the sessions made
  MaxCalls      \* bound on the calls of request()

VARIABLES
  closed,    \* _closed
  made,      \* the sessions 1 .. made have been created
  open,      \* those that are open
  table,     \* _sessions_by_loop: the session of the loop, or none
  used,      \* _loop_last_used: "recent", "stale" (two intervals ago) or "absent"
  sender,    \* [pc, session, attempt, method]
  cleanup,   \* the cleanup task: "none", "sleep" or "close"
  closer,    \* close(): "none", "cancel", "sessions" or "close"
  overlong,  \* the senders whose request began two intervals ago
  orphaned,  \* sessions made while the cleanup task was closing the one before
  calls

httpVars ==
  <<closed, made, open, table, used, sender, cleanup, closer, overlong, orphaned, calls>>

NoSession == 0
\* One of the methods in retry_methods, and one that is not.
RetryMethods == {"GET"}
Methods == RetryMethods \cup {"POST"}

Resting == [pc |-> "idle", session |-> NoSession, attempt |-> 0, method |-> "GET"]

Init ==
  /\ closed = FALSE
  /\ made = 0 /\ open = {} /\ table = NoSession /\ used = "absent"
  /\ sender = [s \in Senders |-> Resting]
  /\ cleanup = "none" /\ closer = "none"
  /\ overlong = {} /\ orphaned = {}
  /\ calls = 0

Becomes(s, state) == sender' = [sender EXCEPT ![s] = state]

-----------------------------------------------------------------------------
(* request()                                                               *)

\* Mutant: every request makes a session.
ReusableNever == FALSE

Reusable == table \in open

\* _ensure_session() reuses the session of the loop, or replaces it if it is closed, and
\* starts the cleanup task.
EnsureSession ==
  /\ used' = "recent"
  /\ IF Reusable
     THEN UNCHANGED <<made, open, table, orphaned>>
     ELSE /\ made < MaxSessions
          /\ made' = made + 1
          /\ open' = open \cup {made + 1}
          /\ table' = made + 1
          /\ orphaned' = orphaned \cup IF cleanup = "close" THEN {made + 1} ELSE {}
  /\ cleanup' = IF cleanup = "none" THEN "sleep" ELSE cleanup

Request(s, method) ==
  /\ sender[s].pc = "idle" /\ ~closed
  /\ calls < MaxCalls /\ calls' = calls + 1
  /\ EnsureSession
  /\ Becomes(s, [pc |-> "send", session |-> table', attempt |-> 1, method |-> method])
  /\ UNCHANGED <<closed, closer, overlong>>

Ends(s) == Becomes(s, Resting) /\ overlong' = overlong \ {s}

Retries(s) == sender[s].attempt < MaxAttempts /\ sender[s].method \in RetryMethods

\* The response arrives, or the last attempt fails, or the session is closed: the error
\* of a closed session is not one that is retried.
RequestEnds(s) ==
  /\ sender[s].pc = "send"
  /\ Ends(s)
  /\ UNCHANGED <<closed, made, open, table, used, cleanup, closer, orphaned, calls>>

\* A timeout, a connection error or a status to retry: the next attempt has the session
\* of the first.
AttemptFails(s) ==
  /\ sender[s].pc = "send" /\ sender[s].session \in open
  /\ Retries(s)
  /\ Becomes(s, [sender[s] EXCEPT !.pc = "backoff"])
  /\ UNCHANGED <<closed, made, open, table, used, cleanup, closer, overlong, orphaned, calls>>

Retry(s) ==
  /\ sender[s].pc = "backoff"
  /\ Becomes(s, [sender[s] EXCEPT !.pc = "send", !.attempt = @ + 1])
  /\ UNCHANGED <<closed, made, open, table, used, cleanup, closer, overlong, orphaned, calls>>

-----------------------------------------------------------------------------
(* _periodic_cleanup() and close()                                         *)

\* Two cleanup intervals pass.
Age ==
  /\ used = "recent"
  /\ used' = "stale"
  /\ overlong' = overlong \cup {s \in Senders : sender[s].pc # "idle"}
  /\ UNCHANGED <<closed, made, open, table, sender, cleanup, closer, orphaned, calls>>

\* The task begins to close the session of a loop that has not been used.
Sweep ==
  /\ cleanup = "sleep" /\ used = "stale"
  /\ open' = open \ {table}
  /\ cleanup' = "close"
  /\ UNCHANGED <<closed, made, table, used, sender, closer, overlong, orphaned, calls>>

\* What it forgets of the loop afterwards may be a session made in the meantime.
Swept ==
  /\ cleanup = "close"
  /\ table' = NoSession /\ used' = "absent"
  /\ cleanup' = IF closed THEN "none" ELSE "sleep"
  /\ UNCHANGED <<closed, made, open, sender, closer, overlong, orphaned, calls>>

\* close() refuses new requests and cancels the task.
Close ==
  /\ closer = "none" /\ ~closed
  /\ closed' = TRUE
  /\ closer' = IF cleanup = "none" THEN "sessions" ELSE "cancel"
  /\ UNCHANGED <<made, open, table, used, sender, cleanup, overlong, orphaned, calls>>

\* The cancelled task ends where it is, forgetting the loop whose session it was closing.
CleanupCancelled ==
  /\ closer = "cancel"
  /\ table' = IF cleanup = "close" THEN NoSession ELSE table
  /\ used' = IF cleanup = "close" THEN "absent" ELSE used
  /\ cleanup' = "none"
  /\ closer' = "sessions"
  /\ UNCHANGED <<closed, made, open, sender, overlong, orphaned, calls>>

CloseSessions ==
  /\ closer = "sessions"
  /\ open' = open \ {table}
  /\ closer' = "close"
  /\ UNCHANGED <<closed, made, table, used, sender, cleanup, overlong, orphaned, calls>>

CloseEnds ==
  /\ closer = "close"
  /\ table' = NoSession /\ used' = "absent"
  /\ closer' = "none"
  /\ UNCHANGED <<closed, made, open, sender, cleanup, overlong, orphaned, calls>>

Next ==
  \/ \E s \in Senders :
       \/ \E method \in Methods : Request(s, method)
       \/ RequestEnds(s) \/ AttemptFails(s) \/ Retry(s)
  \/ Age \/ Sweep \/ Swept
  \/ Close \/ CleanupCancelled \/ CloseSessions \/ CloseEnds

Spec == Init /\ [][Next]_httpVars

-----------------------------------------------------------------------------

\* An open session can be found to be closed, unless it was made while the cleanup task
\* was closing the one before it: that one is forgotten, and close() leaves it open.
SessionsReachable == open \subseteq {table} \cup orphaned

\* No session is closed under a request, but by close() or one that has gone on for two
\* cleanup intervals.
SessionsOutliveRequests ==
  \A s \in Senders :
    sender[s].pc # "idle" => sender[s].session \in open \/ closed \/ s \in overlong

\* A request that must not be repeated is sent once, others max_attempts times at most.
SentAtMost ==
  \A s \in Senders :
    \/ sender[s].attempt <= 1
    \/ sender[s].method \in RetryMethods /\ sender[s].attempt <= MaxAttempts

\* Requests, their repetitions and the cleanup task share sessions without losing one,
\* closing it too early or sending what must not be sent again.
SessionsSound == SessionsReachable /\ SessionsOutliveRequests /\ SentAtMost
=============================================================================
