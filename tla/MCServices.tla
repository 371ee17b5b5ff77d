----------------------------- MODULE MCServices -----------------------------
(* Small instances of the components of Services and of others that share no *)
(* state, checked in one run: each behaviour is one of the component named by *)
(* part.                                                                     *)
EXTENDS Services, TLC

VARIABLE part

\* The splitter looks at these; "*", "-" and "/" alone are ordinary characters too.
SqlCharacters ==
  {"'", "double quote", "backtick", ";", "-", "/", "*", "hash", "backslash", "newline", "space"}

EnvLetters == {"x", "n", "space", "hash", "double", "single", "backslash", "newline"}
EnvTails == {<< >>, <<"space">>, <<"hash", "double">>, <<"space", "hash", "single">>}

DeepPaths == {<<"a">>, <<"b">>, <<"a", "b">>, <<"a", "c">>, <<"b", "a">>, <<"a", "b", "c">>}

\* Windows of half a second and of one and a half.
SmallQuotas == {[limit |-> 1, window |-> 1], [limit |-> 2, window |-> 3]}

\* The task queue: one call without key, two coroutines of one process, whose handlers may
\* outlive pending_min_idle_ms.
Unkeyed == [t \in {"t"} |-> "none"]
OneProc == [s \in {"a", "b"} |-> "p"]

scriptVars == <<script, index, statements, buffer, quote, in_line_comment, in_block_comment,
                done>>
valueVars == <<style, text, raw, stage, inner, position, result>>
settingsVars == <<file, environ, settings, data, merged>>
rateVars == <<redis, quota, now, hits, counters, caller, allowed, requests, deaths>>
webhookVars == <<durable, recorded, answered, ran, request, damaged, restarts, faults>>
httpVars == <<closed, made, open, table, used, sender, cleanup, closer, overlong, orphaned,
              calls>>
paymentVars == <<checkouts, refunds, stored, storedRefunds, returned, payer, payments, losses>>
runVars == <<max_tasks, concurrency, stopped, pc, processed, idle_polls, batch, taken, orphans,
             late, runs, stops, errors>>
queueVars == <<stream, delivered, pending, stale, store, reserved, mids, slot, call, overruns,
               crashes>>

-----------------------------------------------------------------------------

\* The configurations of the other components are fixed.
MCInit ==
  /\ part \in {"saga", "script", "value", "settings", "webhooks", "rate", "http", "payments", "run",
               "queue"}
  /\ Init /\ (part = "saga" \/ (~continue_on_error /\ reversible = {} /\ timed = {}))
  /\ Splitter!Init /\ Loader!Init
  /\ Values!Init /\ (part = "value" \/ style = "bare")
  /\ Hooks!Init /\ (part = "webhooks" \/ durable)
  /\ Limiter!Init /\ (part = "rate" \/ (redis /\ quota["r"].limit + quota["s"].limit = 2))
  /\ Http!Init /\ Stripe!Init
  /\ Worker!Init /\ (part = "run" \/ (max_tasks = 0 /\ concurrency = 1))
  /\ Queue!Init

\* The other components stand still.
Others ==
  /\ IF part = "saga" THEN TRUE ELSE UNCHANGED vars
  /\ IF part = "script" THEN TRUE ELSE UNCHANGED scriptVars
  /\ IF part = "value" THEN TRUE ELSE UNCHANGED valueVars
  /\ IF part = "settings" THEN TRUE ELSE UNCHANGED settingsVars
  /\ IF part = "webhooks" THEN TRUE ELSE UNCHANGED webhookVars
  /\ IF part = "rate" THEN TRUE ELSE UNCHANGED rateVars
  /\ IF part = "http" THEN TRUE ELSE UNCHANGED httpVars
  /\ IF part = "payments" THEN TRUE ELSE UNCHANGED paymentVars
  /\ IF part = "run" THEN TRUE ELSE UNCHANGED runVars
  /\ IF part = "queue" THEN TRUE ELSE UNCHANGED queueVars
  /\ UNCHANGED part

MCNext ==
  \/ part = "saga" /\ Next /\ Others
  \/ part = "script" /\ Splitter!Next /\ Others
  \/ part = "value" /\ Values!Next /\ Others
  \/ part = "settings" /\ Loader!Next /\ Others
  \/ part = "webhooks" /\ Hooks!Next /\ Others
  \/ part = "rate" /\ Limiter!Next /\ Others
  \/ part = "http" /\ Http!Next /\ Others
  \/ part = "payments" /\ Stripe!Next /\ Others
  \/ part = "run" /\ Worker!Next /\ Others
  \/ part = "queue" /\ Queue!Next /\ Others

allVars == <<part, vars, scriptVars, valueVars, settingsVars, webhookVars, rateVars, httpVars,
             paymentVars, runVars, queueVars>>

MCSpec == MCInit /\ [][MCNext]_allVars
=============================================================================
