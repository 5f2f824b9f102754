---------------------------- MODULE OneShotQuery ----------------------------
(***************************************************************************)
(* What a caller of send_with_retry_async can really count on.  The        *)
(* function is written as a query that is retried; what it promises is a   *)
(* query whose first answer, or first silence, settles everything.         *)
(* verdict is that first outcome, status what the caller is told.          *)
(***************************************************************************)
CONSTANT Runtimes      \* subset of {"py38", "py311"}: the interpreters in use

VARIABLES runtime, verdict, status

vars == <<runtime, verdict, status>>

Verdicts == {"pending", "ok", "bad", "silent"}

Statuses == {"running", "reply", "dns_error", "timeout", "cancelled", "os_error"}

\* What a verdict can be reported as.  Only a good first answer is a reply;
\* a bad one ends as "All retries failed"; silence is reported as the
\* TimeoutError of wait_for (py38) or as the CancelledError of the second
\* wait (py311), unless a single attempt was allowed, when py311 reports
\* the DNSError as well.  Any attempt may fail to open its socket.
Reports(v) ==
  CASE v = "ok"      -> {"reply"}
    [] v = "bad"     -> {"dns_error", "os_error"}
    [] v = "silent"  -> IF runtime = "py38" THEN {"timeout"}
                        ELSE {"cancelled", "dns_error", "os_error"}
    [] v = "pending" -> {"os_error"}

Init == /\ runtime \in Runtimes
        /\ verdict = "pending"
        /\ status = "running"

Settle == /\ status = "running"
          /\ verdict = "pending"
          /\ verdict' \in Verdicts \ {"pending"}
          /\ UNCHANGED <<runtime, status>>

Report == /\ status = "running"
          /\ status' \in Reports(verdict)
          /\ UNCHANGED <<runtime, verdict>>

\* On py38 the silence is discovered and reported in the same step.
SettleAndReport == /\ status = "running"
                   /\ verdict = "pending"
                   /\ verdict' = "silent"
                   /\ status' \in Reports(verdict')
                   /\ UNCHANGED runtime

Next == Settle \/ Report \/ SettleAndReport

Spec == Init /\ [][Next]_vars
=============================================================================
