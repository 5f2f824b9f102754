------------------------- MODULE DnsExchangeProofs --------------------------
(***************************************************************************)
(* Proofs about DnsExchange, for every number of retries and either        *)
(* interpreter: its typing, the invariant that ties the shared future to   *)
(* the sockets, the safety properties it implies, and that the exchange    *)
(* implements OneShotQuery.                                                *)
(***************************************************************************)
EXTENDS DnsExchange, TLAPS

Inv == TypeOK /\ SharedFuture

\* Every step is one of these.
LEMMA StepCases ==
  ASSUME [Next]_vars
  PROVE  \/ OpenEndpoint \/ EndpointError \/ ConnectionMade \/ AwaitAnswer
         \/ UseReply \/ RejectReply \/ TimeOut \/ AwaitCancelled \/ TimerFires
         \/ \E i \in Attempts, a \in Answers : DatagramReceived(i, a)
         \/ \E i \in Attempts, a \in Answers : ServerAnswers(i, a)
         \/ \E i \in Attempts, a \in Answers : AnswerLost(i, a)
         \/ UNCHANGED vars
  BY DEF Next, Task, Terminated

\* Typing alone is not inductive: that a socket is only opened while an attempt
\* is left is part of SharedFuture.
LEMMA InvInit == Init => Inv
  BY RetriesAssumption
  DEF Init, Inv, TypeOK, SharedFuture, Attempts, Answers, BadAnswers, Suspended, Ended

LEMMA InvStep == Inv /\ [Next]_vars => Inv'
<1> SUFFICES ASSUME Inv, [Next]_vars PROVE Inv'
  OBVIOUS
<1> USE RetriesAssumption DEF Inv, TypeOK, SharedFuture, Attempts, Answers,
        BadAnswers, Suspended, Ended
<1>1. CASE OpenEndpoint
  BY <1>1 DEF OpenEndpoint
<1>2. CASE EndpointError
  BY <1>2 DEF EndpointError
<1>3. CASE ConnectionMade
  <2> USE <1>3 DEF ConnectionMade
  <2>1. TypeOK'
    OBVIOUS
  <2>2. CASE future = "pending"
    BY <2>1, <2>2
  <2>3. CASE future \in BadAnswers
    BY <2>1, <2>3
  <2>4. CASE future = "cancelled"
    BY <2>1, <2>4
  <2> QED
    BY <2>2, <2>3, <2>4
<1>4. CASE AwaitAnswer
  BY <1>4 DEF AwaitAnswer
<1>5. CASE UseReply
  BY <1>5 DEF UseReply
<1>6. CASE RejectReply
  BY <1>6 DEF RejectReply, NextAttempt
<1>7. CASE TimeOut
  <2> USE <1>7 DEF TimeOut, NextAttempt
  <2>1. TypeOK'
    OBVIOUS
  <2>2. attempt = 0 /\ open = {0} /\ open' = {0} /\ future' = "cancelled"
    OBVIOUS
  <2>3. CASE runtime = "py311"
    <3>1. attempt' = 1 /\ pc' \in {"send", "failed"}
      BY <2>2, <2>3
    <3>2. pc' = "send" => attempt' < Retries
      BY <2>2, <2>3
    <3> QED
      BY <2>1, <2>2, <2>3, <3>1, <3>2
  <2>4. CASE runtime # "py311"
    BY <2>1, <2>2, <2>4, RuntimesAssumption
  <2> QED
    BY <2>3, <2>4
<1>8. CASE AwaitCancelled
  BY <1>8 DEF AwaitCancelled
<1>9. CASE TimerFires
  BY <1>9 DEF TimerFires
<1>10. CASE \E i \in Attempts, a \in Answers : DatagramReceived(i, a)
  BY <1>10 DEF DatagramReceived
<1>11. CASE \E i \in Attempts, a \in Answers : ServerAnswers(i, a)
  BY <1>11 DEF ServerAnswers
<1>12. CASE \E i \in Attempts, a \in Answers : AnswerLost(i, a)
  BY <1>12 DEF AnswerLost
<1>13. CASE UNCHANGED vars
  BY <1>13 DEF vars
<1> QED
  BY <1>1, <1>2, <1>3, <1>4, <1>5, <1>6, <1>7, <1>8, <1>9, <1>10, <1>11, <1>12, <1>13, StepCases

\* The variables always hold values of their types.
THEOREM TypeCorrect == Spec => []TypeOK
<1>1. Inv => TypeOK
  BY DEF Inv
<1> QED
  BY <1>1, InvInit, InvStep, PTL DEF Spec

\* The inductive invariant itself: how the shared future, the loop variable and
\* the open sockets hang together.
THEOREM SharedFutureInvariant == Spec => []SharedFuture
<1>1. Inv => SharedFuture
  BY DEF Inv
<1> QED
  BY <1>1, InvInit, InvStep, PTL DEF Spec

\* However many retries are allowed, only the first attempt can be answered.
THEOREM RetriesNeverSucceed == Spec => []AnsweredFirstTimeOnly
<1>1. Inv => AnsweredFirstTimeOnly
  BY DEF Inv, TypeOK, SharedFuture, AnsweredFirstTimeOnly, Answers, BadAnswers
<1> QED
  BY <1>1, InvInit, InvStep, PTL DEF Spec

\* The sockets that outlive an exchange.
THEOREM SocketLeaks == Spec => []SocketsLeakExactlyOnSilence
<1>1. Inv => SocketsLeakExactlyOnSilence
  BY DEF Inv, TypeOK, SharedFuture, SocketsLeakExactlyOnSilence, Answers,
         BadAnswers, Ended
<1> QED
  BY <1>1, InvInit, InvStep, PTL DEF Spec

\* A completed or cancelled future is never completed again.
THEOREM FutureCompletesOnce == Spec => FirstOutcomeStands
<1>1. Inv /\ [Next]_vars => [future # "pending" => future' = future]_vars
  <2> SUFFICES ASSUME Inv, [Next]_vars, future # "pending"
               PROVE  future' = future
    OBVIOUS
  <2> QED
    BY StepCases DEF vars, OpenEndpoint, EndpointError, ConnectionMade,
       AwaitAnswer, UseReply, RejectReply, TimeOut, AwaitCancelled, TimerFires,
       DatagramReceived, ServerAnswers, AnswerLost
<1> QED
  BY <1>1, InvInit, InvStep, PTL DEF Spec, FirstOutcomeStands

-----------------------------------------------------------------------------
(* Refinement *)

LEMMA RefinesInit == Init => OneShot!Init
  BY DEF Init, OneShot!Init, Verdict, Status, BadAnswers, Answers

LEMMA RefinesStep == Inv /\ Inv' /\ [Next]_vars => [OneShot!Next]_(OneShot!vars)
<1> SUFFICES ASSUME Inv, Inv', [Next]_vars PROVE [OneShot!Next]_(OneShot!vars)
  OBVIOUS
<1> USE RetriesAssumption, RuntimesAssumption
    DEF Inv, TypeOK, SharedFuture, Attempts, Answers, BadAnswers, Suspended,
        Ended, Verdict, Status, OneShot!vars, OneShot!Next, OneShot!Settle,
        OneShot!Report, OneShot!SettleAndReport, OneShot!Reports,
        OneShot!Verdicts
<1>1. CASE OpenEndpoint
  BY <1>1 DEF OpenEndpoint
<1>2. CASE EndpointError
  BY <1>2 DEF EndpointError
<1>3. CASE ConnectionMade
  BY <1>3 DEF ConnectionMade
<1>4. CASE AwaitAnswer
  BY <1>4 DEF AwaitAnswer
<1>5. CASE UseReply
  BY <1>5 DEF UseReply
<1>6. CASE RejectReply
  BY <1>6 DEF RejectReply, NextAttempt
<1>7. CASE TimeOut
  BY <1>7 DEF TimeOut, NextAttempt
<1>8. CASE AwaitCancelled
  BY <1>8 DEF AwaitCancelled
<1>9. CASE TimerFires
  BY <1>9 DEF TimerFires
<1>10. CASE \E i \in Attempts, a \in Answers : DatagramReceived(i, a)
  BY <1>10 DEF DatagramReceived
<1>11. CASE \E i \in Attempts, a \in Answers : ServerAnswers(i, a)
  BY <1>11 DEF ServerAnswers
<1>12. CASE \E i \in Attempts, a \in Answers : AnswerLost(i, a)
  BY <1>12 DEF AnswerLost
<1>13. CASE UNCHANGED vars
  BY <1>13 DEF vars
<1> QED
  BY <1>1, <1>2, <1>3, <1>4, <1>5, <1>6, <1>7, <1>8, <1>9, <1>10, <1>11, <1>12, <1>13, StepCases

\* The exchange implements a query of a single attempt: what the caller is told
\* is decided by the first answer or the first silence.
THEOREM ImplementsOneShot == Spec => IsOneShot
  BY InvInit, InvStep, RefinesInit, RefinesStep, PTL DEF Spec, IsOneShot, OneShot!Spec
=============================================================================
