---------------------------- MODULE DnsExchange -----------------------------
(***************************************************************************)
(* send_with_retry_async (dns/resolver.py:83-98) with dns_send and         *)
(* DnsSendProtocol: one logical DNS query, sent at most Retries times over *)
(* as many UDP sockets, all of which complete the same future.             *)
(*                                                                         *)
(* The task and the callbacks of the event loop interleave at the awaits:  *)
(* the opening of the endpoint, and wait_for, whose timer may expire in    *)
(* the loop iteration in which the answer arrives.  The network delays,    *)
(* reorders, duplicates and loses answers.                                 *)
(*                                                                         *)
(* The repository runs on Python 3.8 (containers, most VMs) and 3.11 (the  *)
(* edge server).  They differ here in one point: asyncio.TimeoutError is   *)
(* a subclass of socket.timeout, hence caught at line 96, only in 3.11.    *)
(***************************************************************************)
EXTENDS Naturals, FiniteSets

CONSTANTS Retries,     \* the retries parameter (3 in the code)
          Runtimes     \* the interpreters: a subset of {"py38", "py311"}

ASSUME RetriesAssumption == Retries \in Nat \ {0}
ASSUME RuntimesAssumption == Runtimes \subseteq {"py38", "py311"}

VARIABLES
  runtime,   \* the interpreter this process runs on
  pc,        \* where the task is
  attempt,   \* the loop variable i
  future,    \* record, the future shared by the attempts
  open,      \* the attempts whose transport is open
  net        \* answers on their way: pairs <<attempt, answer>>

vars == <<runtime, pc, attempt, future, open, net>>

Attempts == 0 .. Retries - 1

\* An answer is a reply with the id of the request, a reply with another id,
\* or bytes that DNSRecord.parse rejects.
Answers == {"ok", "mismatch", "garbage"}

BadAnswers == Answers \ {"ok"}

Ended == {"returned", "failed", "timeout", "cancelled", "oserror"}

Suspended == {"opening", "opened", "waiting", "woken"}

TypeOK ==
  /\ runtime \in Runtimes
  /\ pc \in {"send"} \cup Suspended \cup Ended
  /\ attempt \in 0 .. Retries
  /\ future \in {"pending", "cancelled"} \cup Answers
  /\ open \subseteq Attempts
  /\ net \subseteq Attempts \X Answers

Init ==
  /\ runtime \in Runtimes
  /\ pc = "send"
  /\ attempt = 0
  /\ future = "pending"
  /\ open = {}
  /\ net = {}

-----------------------------------------------------------------------------
(* The task *)

\* Line 88: the task suspends in create_datagram_endpoint.
OpenEndpoint ==
  /\ pc = "send"
  /\ pc' = "opening"
  /\ UNCHANGED <<runtime, attempt, future, open, net>>

\* The endpoint cannot be created (no route, no descriptor): an OSError that
\* line 96 does not catch.
EndpointError ==
  /\ pc = "opening"
  /\ pc' = "oserror"
  /\ UNCHANGED <<runtime, attempt, future, open, net>>

\* connection_made runs one loop iteration before the task resumes, and
\* sends the query.
ConnectionMade ==
  /\ pc = "opening"
  /\ pc' = "opened"
  /\ open' = open \cup {attempt}
  /\ UNCHANGED <<runtime, attempt, future, net>>

\* Line 89: wait_for on a future that is already done does not wait.
AwaitAnswer ==
  /\ pc = "opened"
  /\ pc' = IF future = "pending" THEN "waiting" ELSE "woken"
  /\ UNCHANGED <<runtime, attempt, future, open, net>>

\* Lines 90-95: the answer is the reply to the request.
UseReply ==
  /\ pc = "woken"
  /\ future = "ok"
  /\ pc' = "returned"
  /\ open' = open \ {attempt}
  /\ UNCHANGED <<runtime, attempt, future, net>>

\* Slip for NextAttempt: the loop that never counts (as in send_with_retry of
\* dns_legacy_aio.py:57-69).
NextAttemptUncounted == pc' = "send" /\ UNCHANGED attempt

\* Line 85, and line 98 when the range is used up.
NextAttempt ==
  /\ attempt' = attempt + 1
  /\ pc' = IF attempt + 1 < Retries THEN "send" ELSE "failed"

\* Slips for RejectReply: every attempt has a future of its own; the socket is
\* closed only for a reply that is used.
RejectReplyFreshFuture ==
  /\ pc = "woken"
  /\ future \in BadAnswers
  /\ future' = "pending"
  /\ open' = open \ {attempt}
  /\ NextAttempt
  /\ UNCHANGED <<runtime, net>>

RejectReplyKeepsSocket ==
  /\ pc = "woken"
  /\ future \in BadAnswers
  /\ NextAttempt
  /\ UNCHANGED <<runtime, future, open, net>>

\* Lines 90-93 and 96: a DNSError.  The future keeps the bad answer.
RejectReply ==
  /\ pc = "woken"
  /\ future \in BadAnswers
  /\ open' = open \ {attempt}
  /\ NextAttempt
  /\ UNCHANGED <<runtime, future, net>>

\* Slip for TimeOut: the socket is closed.
TimeOutCloses ==
  /\ pc = "woken"
  /\ future = "pending"
  /\ future' = "cancelled"
  /\ open' = open \ {attempt}
  /\ IF runtime = "py311" THEN NextAttempt
                          ELSE pc' = "timeout" /\ UNCHANGED attempt
  /\ UNCHANGED <<runtime, net>>

\* Line 89: wait_for cancels the future and raises TimeoutError, which skips
\* the close of line 90.  Only Python 3.11 catches it at line 96.
TimeOut ==
  /\ pc = "woken"
  /\ future = "pending"
  /\ future' = "cancelled"
  /\ IF runtime = "py311" THEN NextAttempt
                          ELSE pc' = "timeout" /\ UNCHANGED attempt
  /\ UNCHANGED <<runtime, open, net>>

\* Line 89 on a future that an earlier attempt cancelled: CancelledError.
AwaitCancelled ==
  /\ pc = "woken"
  /\ future = "cancelled"
  /\ pc' = "cancelled"
  /\ UNCHANGED <<runtime, attempt, future, open, net>>

-----------------------------------------------------------------------------
(* The event loop and the network *)

\* The timer of wait_for releases the task; it resumes an iteration later.
TimerFires ==
  /\ pc = "waiting"
  /\ pc' = "woken"
  /\ UNCHANGED <<runtime, attempt, future, open, net>>

\* datagram_received (44-46), on the socket of any attempt still open.
DatagramReceived(i, a) ==
  /\ <<i, a>> \in net
  /\ i \in open
  /\ net' = net \ {<<i, a>>}
  /\ future' = IF future = "pending" THEN a ELSE future
  /\ pc' = IF pc = "waiting" THEN "woken" ELSE pc
  /\ UNCHANGED <<runtime, attempt, open>>

\* The name server answers the query of attempt i, when it pleases; doing it
\* again stands for a datagram the network duplicates.
ServerAnswers(i, a) ==
  /\ i < attempt \/ (i = attempt /\ i \in open)
  /\ net' = net \cup {<<i, a>>}
  /\ UNCHANGED <<runtime, pc, attempt, future, open>>

\* An answer is lost, or finds its socket closed.
AnswerLost(i, a) ==
  /\ <<i, a>> \in net
  /\ net' = net \ {<<i, a>>}
  /\ UNCHANGED <<runtime, pc, attempt, future, open>>

\* The caller has its outcome.
Terminated == pc \in Ended /\ UNCHANGED vars

Task == \/ OpenEndpoint \/ ConnectionMade \/ AwaitAnswer \/ UseReply
        \/ RejectReply \/ TimeOut \/ AwaitCancelled

Next ==
  \/ Task
  \/ EndpointError
  \/ TimerFires
  \/ \E i \in Attempts, a \in Answers : \/ DatagramReceived(i, a)
                                        \/ ServerAnswers(i, a)
                                        \/ AnswerLost(i, a)
  \/ Terminated

\* The event loop resumes a ready task and runs an expired timer; nothing is
\* asked of the network.
Spec == Init /\ [][Next]_vars /\ WF_vars(Task) /\ WF_vars(TimerFires)

-----------------------------------------------------------------------------
(* What keeps the properties: an invariant that the steps preserve *)

\* The state of the exchange by the state of its future.  The future leaves
\* "pending" during the first attempt or not at all.
SharedFuture ==
  /\ pc \in {"send"} \cup Suspended => attempt < Retries
  /\ future = "pending" =>
       /\ attempt = 0
       /\ pc \notin {"returned", "failed", "timeout", "cancelled"}
       /\ open = IF pc \in {"opened", "waiting", "woken"} THEN {0} ELSE {}
  /\ future = "ok" =>
       /\ attempt = 0
       /\ pc \in {"opened", "woken", "returned"}
       /\ open = IF pc = "returned" THEN {} ELSE {0}
  /\ future \in BadAnswers =>
       /\ pc \notin {"returned", "timeout", "cancelled", "waiting"}
       /\ open = IF pc \in {"opened", "woken"} THEN {attempt} ELSE {}
       /\ pc = "failed" => attempt = Retries
  /\ future = "cancelled" =>
       \/ /\ runtime = "py38" /\ pc = "timeout"
          /\ attempt = 0 /\ open = {0}
       \/ /\ runtime = "py311" /\ attempt = 1
          /\ pc \notin {"returned", "timeout", "waiting"}
          /\ open = IF pc \in {"opened", "woken", "cancelled"} THEN {0, 1} ELSE {0}

-----------------------------------------------------------------------------
(* Properties *)

\* A query that is answered was answered on its first attempt: none of the
\* later ones can succeed, whatever their answers, because they share the
\* future of the first (line 84).
AnsweredFirstTimeOnly == pc = "returned" => attempt = 0

\* Which sockets outlive the exchange (line 90 skipped): none unless some wait
\* timed out, and then every one that was opened, whatever ended the exchange:
\* one after a TimeoutError, two after the CancelledError that follows it.
SocketsLeakExactlyOnSilence ==
  pc \in Ended =>
    open = IF future # "cancelled" THEN {}
           ELSE IF pc = "cancelled" THEN {0, 1} ELSE {0}

\* The first outcome stands: no late, duplicate or reordered answer and no
\* later attempt replaces a completed or cancelled future (line 45).
FirstOutcomeStands == [][future # "pending" => future' = future]_vars

\* The exchange ends, whatever the network does.
ExchangeEnds == <>(pc \in Ended)

\* The caller sees a single-attempt query.
Verdict == CASE future \in BadAnswers  -> "bad"
             [] future = "cancelled"   -> "silent"
             [] OTHER                  -> future

Status == CASE pc = "returned" -> "reply"
            [] pc = "failed"   -> "dns_error"
            [] pc = "oserror"  -> "os_error"
            [] pc \in {"timeout", "cancelled"} -> pc
            [] OTHER           -> "running"

OneShot == INSTANCE OneShotQuery WITH verdict <- Verdict, status <- Status

\* Retries or not, the exchange implements a query of one attempt.
IsOneShot == OneShot!Spec

\* What lines 96 and 98 say of a query that gets no usable answer: it is
\* retried, and when it ends without a reply, "All retries failed".
EndsAfterAllRetries ==
  pc \in Ended \ {"returned", "oserror"} => attempt = Retries
=============================================================================
