------------------------- MODULE ModelGateway_proofs -------------------------
(***************************************************************************)
(* Proofs about ModelGateway for every set of callers, number of retries,  *)
(* failure threshold and length of the clock.                              *)
(***************************************************************************)
EXTENDS ModelGateway, TLAPS

USE GatewayAssumption

-----------------------------------------------------------------------------
(* The step of one call, as its record.                                     *)

Others(c) == \A d \in Callers \ {c} : call'[d] = call[d]

LEMMA ContactStep ==
  ASSUME GatewayTypeOK, NEW c \in Callers, NEW provider \in Providers,
         NEW attempt \in 0..MaxRetries, Contact(c, provider, attempt)
  PROVE  /\ call' \in [Callers -> Calls]
         /\ call'[c].at = "request" /\ call'[c].provider = provider
         /\ call'[c].contacted = call[c].contacted \cup {provider}
         /\ call'[c].privacy = call[c].privacy /\ call'[c].emitted = call[c].emitted
         /\ Others(c)
<1> DEFINE again == [call[c] EXCEPT !.at = "request", !.provider = provider, !.attempt = attempt,
                                    !.contacted = @ \cup {provider}]
<1>1. call[c] \in Calls
  BY DEF GatewayTypeOK
<1>2. /\ again \in Calls
      /\ again.at = "request" /\ again.provider = provider
      /\ again.contacted = call[c].contacted \cup {provider}
      /\ again.privacy = call[c].privacy /\ again.emitted = call[c].emitted
  BY <1>1 DEF Calls, Ended
<1>3. call' = [call EXCEPT ![c] = again]
  BY DEF Contact, GatewayTypeOK
<1>4. call' \in [Callers -> Calls] /\ call'[c] = again /\ Others(c)
  BY <1>2, <1>3 DEF GatewayTypeOK, Others
<1>5. QED
  BY <1>2, <1>4

LEMMA EndStep ==
  ASSUME GatewayTypeOK, NEW c \in Callers, NEW how \in Ended, End(c, how)
  PROVE  /\ call' \in [Callers -> Calls]
         /\ call'[c].at = how
         /\ call'[c].contacted = call[c].contacted
         /\ call'[c].privacy = call[c].privacy /\ call'[c].emitted = call[c].emitted
         /\ Others(c)
<1> DEFINE ended == [call[c] EXCEPT !.at = how]
<1>1. call[c] \in Calls
  BY DEF GatewayTypeOK
<1>2. /\ ended \in Calls
      /\ ended.at = how /\ ended.contacted = call[c].contacted
      /\ ended.privacy = call[c].privacy /\ ended.emitted = call[c].emitted
  BY <1>1 DEF Calls
<1>3. call' = [call EXCEPT ![c] = ended]
  BY DEF End, GatewayTypeOK
<1>4. call' \in [Callers -> Calls] /\ call'[c] = ended /\ Others(c)
  BY <1>2, <1>3 DEF GatewayTypeOK, Others
<1>5. QED
  BY <1>2, <1>4

LEMMA ChunkStep ==
  ASSUME GatewayTypeOK, NEW c \in Callers, Chunk(c)
  PROVE  /\ call' \in [Callers -> Calls]
         /\ call'[c].at = "request" /\ call'[c].contacted = call[c].contacted
         /\ call'[c].privacy = call[c].privacy /\ call'[c].provider = call[c].provider
         /\ Others(c)
<1> DEFINE chunk == [call[c] EXCEPT !.emitted = TRUE]
<1>1. call[c] \in Calls /\ call[c].at = "request"
  BY DEF GatewayTypeOK, Chunk
<1>2. /\ chunk \in Calls
      /\ chunk.at = "request" /\ chunk.contacted = call[c].contacted
      /\ chunk.privacy = call[c].privacy /\ chunk.provider = call[c].provider
  BY <1>1 DEF Calls
<1>3. call' = [call EXCEPT ![c] = chunk]
  BY DEF Chunk
<1>4. call' \in [Callers -> Calls] /\ call'[c] = chunk /\ Others(c)
  BY <1>2, <1>3 DEF GatewayTypeOK, Others
<1>5. QED
  BY <1>2, <1>4

\* A call that starts asks the provider its policy chose, or nobody.
LEMMA StartStep ==
  ASSUME GatewayTypeOK, NEW c \in Callers, NEW privacy \in Policies, NEW fits \in BOOLEAN,
         NEW stream \in BOOLEAN, Start(c, privacy, fits, stream)
  PROVE  /\ call' \in [Callers -> Calls]
         /\ call'[c].privacy = privacy /\ Others(c)
         /\ \/ call'[c].at = "failed" /\ call'[c].contacted = {}
            \/ /\ call'[c].at = "request" /\ call'[c].contacted = {call'[c].provider}
               /\ privacy = "local_only" => call'[c].provider = Local
               /\ privacy = "remote_required" => call'[c].provider = Remote
<1> DEFINE provider == Chosen(privacy, fits)
           reached == provider \in configured
           begun == [at |-> IF reached THEN "request" ELSE "failed",
                     privacy |-> privacy, stream |-> stream,
                     provider |-> IF provider = Remote THEN Remote ELSE Local,
                     attempt |-> 0, emitted |-> FALSE,
                     contacted |-> IF reached THEN {provider} ELSE {}]
<1>1. provider \in Providers \cup {"refused"} /\ configured \subseteq Providers
  BY DEF Chosen, Providers, GatewayTypeOK, Policies, Local, Remote
<1>2. /\ privacy = "local_only" => provider # Remote
      /\ privacy = "remote_required" => provider = Remote
  BY DEF Chosen, Local, Remote
<1>3. reached => provider \in Providers
  BY <1>1
<1>4. begun \in Calls
  BY <1>3 DEF Calls, Ended, Providers
<1>5. call' = [call EXCEPT ![c] = begun]
  BY DEF Start
<1>6. call' \in [Callers -> Calls] /\ call'[c] = begun /\ Others(c)
  BY <1>4, <1>5 DEF GatewayTypeOK, Others
<1>7. QED
  BY <1>2, <1>3, <1>6 DEF Providers

\* After an error a call is sent to its own provider again, to the remote one
\* where the policy lets it, or it ends.
LEMMA NextAttemptStep ==
  ASSUME GatewayTypeOK, NEW c \in Callers, call[c].at = "request", NEW retriable \in BOOLEAN,
         NextAttempt(c, retriable)
  PROVE  /\ call' \in [Callers -> Calls]
         /\ call'[c].privacy = call[c].privacy /\ call'[c].emitted = call[c].emitted /\ Others(c)
         /\ \/ /\ call'[c].at = "request" /\ ~call[c].emitted
               /\ call'[c].provider = call[c].provider
               /\ call'[c].contacted = call[c].contacted \cup {call[c].provider}
            \/ /\ call'[c].at = "request" /\ ~call[c].emitted
               /\ FallbackAllowed(call[c].privacy, call[c].provider)
               /\ call'[c].provider = Remote
               /\ call'[c].contacted = call[c].contacted \cup {Remote}
            \/ /\ call'[c].at = "failed" /\ call'[c].contacted = call[c].contacted
               /\ \/ call[c].emitted \/ Remote \notin configured
                  \/ ~FallbackAllowed(call[c].privacy, call[c].provider)
<1>1. call[c].provider \in Providers /\ call[c].attempt \in 0..MaxRetries /\ Remote \in Providers
  BY DEF GatewayTypeOK, Calls, Providers
<1>2. CASE retriable /\ call[c].attempt < MaxRetries /\ ~call[c].emitted
  <2>1. Contact(c, call[c].provider, call[c].attempt + 1) /\ call[c].attempt + 1 \in 0..MaxRetries
    BY <1>1, <1>2 DEF NextAttempt
  <2>2. QED
    BY <1>1, <1>2, <2>1, ContactStep
<1>3. CASE /\ ~(retriable /\ call[c].attempt < MaxRetries /\ ~call[c].emitted)
           /\ ~call[c].emitted /\ FallbackAllowed(call[c].privacy, call[c].provider)
           /\ Remote \in configured
  <2>1. Contact(c, Remote, 0) /\ 0 \in 0..MaxRetries
    BY <1>3 DEF NextAttempt
  <2>2. QED
    BY <1>1, <1>3, <2>1, ContactStep
<1>4. CASE /\ ~(retriable /\ call[c].attempt < MaxRetries /\ ~call[c].emitted)
           /\ ~(/\ ~call[c].emitted /\ FallbackAllowed(call[c].privacy, call[c].provider)
                /\ Remote \in configured)
  <2>1. End(c, "failed") /\ "failed" \in Ended
    BY <1>4 DEF NextAttempt, Ended
  <2>2. QED
    BY <1>4, <2>1, EndStep
<1>5. QED
  BY <1>2, <1>3, <1>4

\* Where a call under way is after any step of it.
Retried(c) ==
    /\ call'[c].at = "request" /\ ~call[c].emitted
    /\ call'[c].provider = call[c].provider
    /\ call'[c].contacted = call[c].contacted \cup {call[c].provider}

FellBack(c) ==
    /\ call'[c].at = "request" /\ ~call[c].emitted
    /\ FallbackAllowed(call[c].privacy, call[c].provider)
    /\ call'[c].provider = Remote
    /\ call'[c].contacted = call[c].contacted \cup {Remote}

GaveUp(c) ==
    /\ call'[c].at = "failed" /\ call'[c].contacted = call[c].contacted
    /\ call'[c].emitted = call[c].emitted
    /\ \/ call[c].emitted \/ Remote \notin configured
       \/ ~FallbackAllowed(call[c].privacy, call[c].provider)

Closing(c) == call'[c].at \in {"returned", "raised", "abandoned"} /\ call'[c].contacted = call[c].contacted

Streaming(c) ==
    /\ call'[c].at = "request" /\ ~call[c].emitted
    /\ call'[c].provider = call[c].provider /\ call'[c].contacted = call[c].contacted

LEMMA ProgressStep ==
  ASSUME GatewayTypeOK, NEW c \in Callers, Progress(c)
  PROVE  /\ call[c].at = "request" /\ UNCHANGED <<configured, now>>
         /\ call' \in [Callers -> Calls] /\ call'[c].privacy = call[c].privacy /\ Others(c)
         /\ Retried(c) \/ FellBack(c) \/ GaveUp(c) \/ Closing(c) \/ Streaming(c)
<1>1. CASE Succeed(c) \/ Done(c) \/ Exhausted(c)
  BY <1>1, EndStep DEF Succeed, Done, Exhausted, Closing, Ended
<1>2. CASE Abandon(c) \/ ErrorUnread(c)
  BY <1>2, EndStep DEF Abandon, ErrorUnread, Closing, Ended
<1>3. ASSUME NEW retriable \in BOOLEAN, Fail(c, retriable)
      PROVE  /\ call[c].at = "request" /\ UNCHANGED <<configured, now>>
             /\ call' \in [Callers -> Calls] /\ call'[c].privacy = call[c].privacy /\ Others(c)
             /\ Retried(c) \/ FellBack(c) \/ GaveUp(c)
  BY <1>3, NextAttemptStep DEF Fail, Retried, FellBack, GaveUp
<1>4. CASE AnswerUnusable(c)
  BY <1>4, NextAttemptStep DEF AnswerUnusable, Retried, FellBack, GaveUp
<1>5. CASE Chunk(c)
  BY <1>5, ChunkStep DEF Chunk, Streaming
<1>6. QED
  BY <1>1, <1>2, <1>3, <1>4, <1>5 DEF Progress

-----------------------------------------------------------------------------
(* The breaker: it never counts more failures than there were since the     *)
(* last success, so one that is open was opened by Threshold of them.       *)

Breakers == [failures : 0..Threshold, openedUntil : 0..(MaxTime + ResetAfter)]

BreakerOK ==
    /\ breaker \in Breakers /\ streak \in 0..Threshold
    /\ breaker.failures <= streak
    /\ breaker.openedUntil # 0 => streak = Threshold

LEMMA SuccessStep ==
  ASSUME BreakerOK, NEW provider, RecordSuccess(provider)
  PROVE  BreakerOK'
BY DEF RecordSuccess, Closed, BreakerOK, Breakers

LEMMA FailureStep ==
  ASSUME BreakerOK, now \in 0..MaxTime, NEW provider, RecordFailure(provider)
  PROVE  BreakerOK'
<1>1. CASE provider # Local
  BY <1>1 DEF RecordFailure, BreakerOK, Breakers
<1>2. CASE provider = Local
  <2>1. /\ breaker.failures \in 0..Threshold /\ breaker.openedUntil \in 0..(MaxTime + ResetAfter)
        /\ streak \in 0..Threshold /\ breaker.failures <= streak
    BY DEF BreakerOK, Breakers
  <2>2. /\ UpTo(breaker.failures + 1) \in 0..Threshold /\ UpTo(streak + 1) \in 0..Threshold
        /\ UpTo(breaker.failures + 1) <= UpTo(streak + 1)
        /\ breaker.failures + 1 >= Threshold => UpTo(streak + 1) = Threshold
        /\ streak = Threshold => UpTo(streak + 1) = Threshold
    BY <2>1 DEF UpTo
  <2>3. now + ResetAfter \in 0..(MaxTime + ResetAfter)
    OBVIOUS
  <2>4. /\ breaker' = [failures |-> UpTo(breaker.failures + 1),
                       openedUntil |-> IF breaker.failures + 1 >= Threshold
                                       THEN now + ResetAfter ELSE breaker.openedUntil]
        /\ streak' = UpTo(streak + 1)
    BY <1>2 DEF RecordFailure
  <2>5. QED
    BY <2>1, <2>2, <2>3, <2>4 DEF BreakerOK, Breakers
<1>3. QED
  BY <1>1, <1>2

LEMMA ObservedOK ==
  ASSUME BreakerOK
  PROVE  /\ Observed \in Breakers
         /\ Observed.failures <= streak
         /\ Observed.openedUntil # 0 => streak = Threshold
BY DEF BreakerOK, Breakers, Observed, Closed

LEMMA BreakerNext ==
  ASSUME BreakerOK, now \in 0..MaxTime, [GatewayNext]_gateway
  PROVE  BreakerOK'
<1>1. ASSUME NEW c \in Callers, NEW privacy \in Policies, NEW fits \in BOOLEAN,
             NEW stream \in BOOLEAN, Start(c, privacy, fits, stream)
      PROVE  BreakerOK'
  BY <1>1, ObservedOK DEF Start, BreakerOK, Breakers
<1>2. ASSUME NEW c \in Callers, Progress(c) PROVE BreakerOK'
  <2>1. CASE Succeed(c) \/ Done(c)
    BY <2>1, SuccessStep DEF Succeed, Done
  <2>2. CASE Exhausted(c) \/ Chunk(c) \/ Abandon(c) \/ ErrorUnread(c)
    BY <2>2 DEF Exhausted, Chunk, Abandon, ErrorUnread, BreakerOK, Breakers
  <2>3. ASSUME NEW retriable \in BOOLEAN, Fail(c, retriable) PROVE BreakerOK'
    BY <2>3, FailureStep DEF Fail
  <2>4. CASE AnswerUnusable(c)
    BY <2>4 DEF AnswerUnusable, BreakerOK, Breakers
  <2>5. QED
    BY <1>2, <2>1, <2>2, <2>3, <2>4 DEF Progress
<1>3. ASSUME NEW healthy \in BOOLEAN, HealthCheck(healthy) PROVE BreakerOK'
  BY <1>3, SuccessStep, FailureStep DEF HealthCheck
<1>4. CASE Tick \/ UNCHANGED gateway
  BY <1>4 DEF Tick, gateway, BreakerOK, Breakers
<1>5. QED
  BY <1>1, <1>2, <1>3, <1>4 DEF GatewayNext, Begin

-----------------------------------------------------------------------------
(* Type correctness.                                                        *)

LEMMA TypeNext ==
  ASSUME GatewayTypeOK, BreakerOK, [GatewayNext]_gateway
  PROVE  GatewayTypeOK'
<1>1. now \in 0..MaxTime /\ configured \in SUBSET Providers
  BY DEF GatewayTypeOK
<1>2. BreakerOK'
  BY <1>1, BreakerNext
<1>3. call' \in [Callers -> Calls] /\ now' \in 0..MaxTime /\ UNCHANGED configured
  <2>1. ASSUME NEW c \in Callers, NEW privacy \in Policies, NEW fits \in BOOLEAN,
               NEW stream \in BOOLEAN, Start(c, privacy, fits, stream)
        PROVE  call' \in [Callers -> Calls] /\ UNCHANGED <<configured, now>>
    BY <2>1, StartStep DEF Start
  <2>2. ASSUME NEW c \in Callers, Progress(c)
        PROVE  call' \in [Callers -> Calls] /\ UNCHANGED <<configured, now>>
    BY <2>2, ProgressStep
  <2>3. ASSUME NEW healthy \in BOOLEAN, HealthCheck(healthy)
        PROVE  call' \in [Callers -> Calls] /\ UNCHANGED <<configured, now>>
    BY <2>3 DEF HealthCheck, GatewayTypeOK
  <2>4. CASE Tick \/ UNCHANGED gateway
    BY <1>1, <2>4 DEF Tick, gateway, GatewayTypeOK
  <2>5. QED
    BY <1>1, <2>1, <2>2, <2>3, <2>4 DEF GatewayNext, Begin
<1>4. QED
  BY <1>1, <1>2, <1>3 DEF GatewayTypeOK, BreakerOK, Breakers

LEMMA TypeAlways == GatewaySpec => [](GatewayTypeOK /\ BreakerOK)
<1>1. GatewayInit => GatewayTypeOK /\ BreakerOK
  BY DEF GatewayInit, GatewayTypeOK, BreakerOK, Breakers, Closed, Idle, Calls, Ended, Policies, Providers
<1>2. GatewayTypeOK /\ BreakerOK /\ [GatewayNext]_gateway => GatewayTypeOK' /\ BreakerOK'
  BY TypeNext, BreakerNext DEF GatewayTypeOK
<1>3. QED
  BY <1>1, <1>2, PTL DEF GatewaySpec

\* The gateway's state keeps its type: no call is tried more than MaxRetries
\* times again on one provider, whatever answers.
THEOREM TypeCorrect == GatewaySpec => []GatewayTypeOK
BY TypeAlways, PTL

\* The breaker of the local provider keeps callers away only after Threshold
\* failures with no success in between, whoever recorded them.
THEOREM BreakerEarned == GatewaySpec => []OpenIsEarned
<1>1. GatewayTypeOK /\ BreakerOK => OpenIsEarned
  <2> SUFFICES ASSUME GatewayTypeOK, BreakerOK, IsOpen PROVE streak = Threshold
    BY DEF OpenIsEarned
  <2>1. Observed.openedUntil # 0
    BY ObservedOK DEF IsOpen, GatewayTypeOK
  <2>2. QED
    BY <2>1, ObservedOK
<1>2. QED
  BY <1>1, TypeAlways, PTL

-----------------------------------------------------------------------------
(* Policies.  A call under way has contacted the provider it is at, so the  *)
(* policy that ruled out a provider also rules it out as the current one.   *)

Routed ==
    \A c \in Callers : call[c].at = "request" => call[c].provider \in call[c].contacted

CallOK(c) ==
    /\ call[c].privacy = "local_only" => Remote \notin call[c].contacted
    /\ call[c].privacy = "remote_required" => Local \notin call[c].contacted
    /\ call[c].at = "request" => call[c].provider \in call[c].contacted
    /\ (/\ call[c].at = "failed"
        /\ Local \in call[c].contacted
        /\ call[c].privacy # "local_only"
        /\ ~call[c].emitted
        /\ Remote \in configured) => Remote \in call[c].contacted

CallsOK == \A c \in Callers : CallOK(c)

LEMMA StartOK ==
  ASSUME GatewayTypeOK, NEW c \in Callers, NEW privacy \in Policies, NEW fits \in BOOLEAN,
         NEW stream \in BOOLEAN, Start(c, privacy, fits, stream)
  PROVE  CallOK(c)' /\ Others(c) /\ UNCHANGED configured
<1>1. UNCHANGED configured
  BY DEF Start
<1>2. /\ call'[c].privacy = privacy /\ Others(c)
      /\ \/ call'[c].at = "failed" /\ call'[c].contacted = {}
         \/ /\ call'[c].at = "request" /\ call'[c].contacted = {call'[c].provider}
            /\ privacy = "local_only" => call'[c].provider = Local
            /\ privacy = "remote_required" => call'[c].provider = Remote
  BY StartStep
<1>3. CallOK(c)'
  BY <1>2 DEF CallOK, Local, Remote
<1>4. QED
  BY <1>1, <1>2, <1>3

LEMMA ProgressOK ==
  ASSUME GatewayTypeOK, NEW c \in Callers, CallOK(c), Progress(c)
  PROVE  CallOK(c)' /\ Others(c) /\ UNCHANGED configured
<1>1. /\ call[c].at = "request" /\ UNCHANGED configured
      /\ call'[c].privacy = call[c].privacy /\ Others(c)
      /\ Retried(c) \/ FellBack(c) \/ GaveUp(c) \/ Closing(c) \/ Streaming(c)
  BY ProgressStep
<1>2. call[c].provider \in Providers /\ call[c].provider \in call[c].contacted
  BY <1>1 DEF GatewayTypeOK, Calls, CallOK
<1>3. CASE Retried(c)
  BY <1>1, <1>2, <1>3 DEF CallOK, Retried
<1>4. CASE FellBack(c)
  BY <1>1, <1>2, <1>4 DEF CallOK, FellBack, FallbackAllowed, Local, Remote
<1>5. CASE GaveUp(c)
  BY <1>1, <1>2, <1>5 DEF CallOK, GaveUp, FallbackAllowed, Providers
<1>6. CASE Closing(c)
  BY <1>1, <1>6 DEF CallOK, Closing
<1>7. CASE Streaming(c)
  BY <1>1, <1>7 DEF CallOK, Streaming
<1>8. QED
  BY <1>1, <1>3, <1>4, <1>5, <1>6, <1>7

LEMMA CallsNext ==
  ASSUME GatewayTypeOK, CallsOK, [GatewayNext]_gateway
  PROVE  CallsOK'
<1>1. ASSUME NEW c \in Callers, CallOK(c)', Others(c), UNCHANGED configured
      PROVE  CallsOK'
  BY <1>1 DEF CallsOK, CallOK, Others
<1>2. ASSUME NEW c \in Callers, Begin(c) PROVE CallsOK'
  BY <1>1, <1>2, StartOK DEF Begin
<1>3. ASSUME NEW c \in Callers, Progress(c) PROVE CallsOK'
  BY <1>1, <1>3, ProgressOK DEF CallsOK
<1>4. CASE (\E healthy \in BOOLEAN : HealthCheck(healthy)) \/ Tick \/ UNCHANGED gateway
  BY <1>4 DEF HealthCheck, Tick, gateway, CallsOK, CallOK
<1>5. QED
  BY <1>2, <1>3, <1>4 DEF GatewayNext

LEMMA CallsAlways == GatewaySpec => []CallsOK
<1>1. GatewayInit => CallsOK
  BY DEF GatewayInit, Idle, CallsOK, CallOK
<1>2. QED
  BY <1>1, CallsNext, TypeAlways, PTL DEF GatewaySpec

\* No retry, fallback or state of the breaker takes a call to a provider its
\* privacy policy rules out.
THEOREM PolicyIsKept == GatewaySpec => []PolicyKept
<1>1. CallsOK => PolicyKept
  BY DEF CallsOK, CallOK, PolicyKept
<1>2. QED
  BY <1>1, CallsAlways, PTL

\* A call that ends with a GatewayError after the local provider failed it with
\* nothing handed on, and that may go remote, has been tried there.
THEOREM FallbackIsTried == GatewaySpec => []FallbackTried
<1>1. CallsOK => FallbackTried
  BY DEF CallsOK, CallOK, FallbackTried
<1>2. QED
  BY <1>1, CallsAlways, PTL

\* A stream that has handed on output is never sent again.
THEOREM NeverReplayed == GatewaySpec => NoReplay
<1>1. ASSUME GatewayTypeOK, [GatewayNext]_gateway, NEW c \in Callers,
             call[c].at = "request", call[c].emitted, call'[c].at = "request"
      PROVE  call'[c] = call[c]
  <2>1. ASSUME NEW d \in Callers, Begin(d) PROVE call'[c] = call[c]
    <3>1. Others(d)
      BY <1>1, <2>1, StartStep DEF Begin
    <3>2. c # d
      BY <1>1, <2>1 DEF Begin, Start, Ended
    <3>3. QED
      BY <3>1, <3>2 DEF Others
  <2>2. ASSUME NEW d \in Callers, Progress(d) PROVE call'[c] = call[c]
    <3>1. Others(d) /\ (Retried(d) \/ FellBack(d) \/ GaveUp(d) \/ Closing(d) \/ Streaming(d))
      BY <1>1, <2>2, ProgressStep
    <3>2. c # d
      BY <1>1, <3>1 DEF Retried, FellBack, GaveUp, Closing, Streaming
    <3>3. QED
      BY <3>1, <3>2 DEF Others
  <2>3. CASE (\E healthy \in BOOLEAN : HealthCheck(healthy)) \/ Tick \/ UNCHANGED gateway
    BY <2>3 DEF HealthCheck, Tick, gateway
  <2>4. QED
    BY <1>1, <2>1, <2>2, <2>3 DEF GatewayNext
<1>2. ASSUME GatewayTypeOK, [GatewayNext]_gateway
      PROVE  [\A c \in Callers :
                (call[c].at = "request" /\ call[c].emitted /\ call'[c].at = "request")
                   => call'[c] = call[c]]_gateway
  BY <1>1, <1>2
<1>3. QED
  BY <1>2, TypeAlways, PTL DEF GatewaySpec, NoReplay

-----------------------------------------------------------------------------
(* Retries and fallback come to an end.                                    *)

\* The place of a call's current request among all it may make: the attempts
\* at the local provider, then those at the remote one.
Position(k) == (IF k.provider = Local THEN 0 ELSE MaxRetries + 1) + k.attempt

Forward(c) ==
  \/ call'[c].at \in Ended
  \/ Position(call[c]) < Position(call'[c])
  \/ Position(call'[c]) = Position(call[c]) /\ ~call[c].emitted /\ call'[c].emitted

LEMMA PositionType ==
  ASSUME NEW k \in Calls
  PROVE  Position(k) \in 0..(2 * MaxRetries + 1)
<1>1. k.attempt \in 0..MaxRetries /\ MaxRetries \in Nat
  BY DEF Calls
<1>2. QED
  BY <1>1 DEF Position

LEMMA AttemptForward ==
  ASSUME GatewayTypeOK, NEW c \in Callers, NEW retriable \in BOOLEAN, NextAttempt(c, retriable)
  PROVE  Forward(c)
<1>1. call[c] \in Calls /\ call \in [Callers -> Calls]
  BY DEF GatewayTypeOK
<1>2. call[c].attempt \in Nat /\ call[c].attempt <= MaxRetries /\ MaxRetries \in Nat
  BY <1>1 DEF Calls
<1>3. CASE Contact(c, call[c].provider, call[c].attempt + 1)
  <2>1. call'[c].provider = call[c].provider /\ call'[c].attempt = call[c].attempt + 1
    BY <1>1, <1>3 DEF Contact, Calls
  <2>2. QED
    BY <1>2, <2>1 DEF Forward, Position
<1>4. CASE Contact(c, Remote, 0) /\ call[c].provider = Local
  <2>1. call'[c].provider = Remote /\ call'[c].attempt = 0
    BY <1>1, <1>4 DEF Contact, Calls
  <2>2. QED
    BY <1>2, <1>4, <2>1 DEF Forward, Position, Local, Remote
<1>5. CASE End(c, "failed")
  BY <1>1, <1>5 DEF End, Forward, Ended, Calls
<1>6. QED
  BY <1>3, <1>4, <1>5 DEF NextAttempt, FallbackAllowed

LEMMA ProgressForward ==
  ASSUME GatewayTypeOK, NEW c \in Callers, Progress(c)
  PROVE  Forward(c)
<1>1. call[c] \in Calls /\ call \in [Callers -> Calls]
  BY DEF GatewayTypeOK
<1>2. CASE (\E retriable \in BOOLEAN : Fail(c, retriable)) \/ AnswerUnusable(c)
  BY <1>2, AttemptForward DEF Fail, AnswerUnusable
<1>3. CASE Chunk(c)
  <2>1. /\ call'[c].provider = call[c].provider /\ call'[c].attempt = call[c].attempt
        /\ ~call[c].emitted /\ call'[c].emitted
    BY <1>1, <1>3 DEF Chunk, Calls
  <2>2. QED
    BY <2>1 DEF Forward, Position
<1>4. CASE Succeed(c) \/ Done(c) \/ Exhausted(c) \/ Abandon(c) \/ ErrorUnread(c)
  BY <1>1, <1>4 DEF Succeed, Done, Exhausted, Abandon, ErrorUnread, End, Forward, Ended, Calls
<1>5. QED
  BY <1>2, <1>3, <1>4 DEF Progress

CallsMoveOn ==
  [][\A c \in Callers : call[c].at = "request" => call'[c] = call[c] \/ Forward(c)]_gateway

LEMMA CallForward ==
  ASSUME GatewayTypeOK, NEW c \in Callers, call[c].at = "request", [GatewayNext]_gateway
  PROVE  call'[c] = call[c] \/ Forward(c)
<1>1. CASE Progress(c)
  BY <1>1, ProgressForward
<1>2. ASSUME NEW d \in Callers, d # c, Begin(d) \/ Progress(d) PROVE call'[c] = call[c]
  BY <1>2, StartStep, ProgressStep DEF Begin, Others
<1>3. ~Begin(c)
  BY DEF Begin, Start, Ended
<1>4. CASE (\E healthy \in BOOLEAN : HealthCheck(healthy)) \/ Tick \/ UNCHANGED gateway
  BY <1>4 DEF HealthCheck, Tick, gateway
<1>5. QED
  BY <1>1, <1>2, <1>3, <1>4 DEF GatewayNext

\* A call makes at most MaxRetries + 1 requests to each provider and then is
\* over: whatever fails and whatever the other callers and the breaker do, each
\* of its steps ends it, sends the next of these requests, or hands on output.
THEOREM RetriesEnd ==
  GatewaySpec => /\ [](\A c \in Callers : Position(call[c]) \in 0..(2 * MaxRetries + 1))
                 /\ CallsMoveOn
<1>1. GatewayTypeOK => \A c \in Callers : Position(call[c]) \in 0..(2 * MaxRetries + 1)
  BY PositionType DEF GatewayTypeOK
<1>2. GatewayTypeOK /\ [GatewayNext]_gateway
        => [\A c \in Callers : call[c].at = "request" => call'[c] = call[c] \/ Forward(c)]_gateway
  BY CallForward
<1>3. QED
  BY <1>1, <1>2, TypeCorrect, PTL DEF GatewaySpec, CallsMoveOn
=============================================================================
