---------------------------- MODULE ModelGateway ----------------------------
(***************************************************************************)
(* The model gateway (src/src/opennicf/model_gateway.py): every call to a   *)
(* language model is routed by privacy policy and by the circuit breaker    *)
(* of the local provider, tried with bounded retries, and falls back from   *)
(* the local provider to the remote one when the policy lets it.            *)
(*                                                                         *)
(* Streamed calls are lazy generators, so several calls are under way at    *)
(* once on one gateway and its breaker.  Of the two breakers and the health *)
(* records only the local breaker is modelled: the others are written and   *)
(* never read by a decision.  Contents, latencies, redaction and the        *)
(* payload of the audit event are left out.                                 *)
(***************************************************************************)
EXTENDS Integers, FiniteSets

CONSTANTS
    Callers,        \* who calls the gateway; each has one call at a time
    MaxRetries,     \* ProviderConfig.max_retries
    Threshold,      \* failures that open the local breaker
    ResetAfter,     \* clock units an opened breaker stays open
    MaxTime         \* bound on the clock

ASSUME GatewayAssumption ==
    /\ MaxRetries \in Nat
    /\ Threshold \in Nat \ {0}
    /\ ResetAfter \in Nat \ {0}
    /\ MaxTime \in Nat

Local == "lmstudio"
Remote == "litellm_oci"
Providers == {Local, Remote}

\* PrivacyPolicy; remote_allowed is routed like local_preferred.
Policies == {"local_only", "local_preferred", "remote_allowed", "remote_required"}

VARIABLES
    configured,     \* the providers this process was given an address for
    now,            \* the monotonic clock
    breaker,        \* [failures, openedUntil] of the local provider
    streak,         \* history: local failures recorded since the last success
    call            \* per caller, its current or last call

gateway == <<configured, now, breaker, streak, call>>

Closed == [failures |-> 0, openedUntil |-> 0]

Idle == [at |-> "idle", privacy |-> "local_preferred", stream |-> FALSE,
         provider |-> Local, attempt |-> 0, emitted |-> FALSE, contacted |-> {}]

\* "failed": a GatewayError, or a refusal of choose, reached the caller;
\* "raised": another exception did.
Ended == {"idle", "returned", "failed", "raised", "abandoned"}

-----------------------------------------------------------------------------
(***************************************************************************)
(* The circuit breaker.  Counts saturate at the threshold: they are only    *)
(* compared with it.                                                        *)
(***************************************************************************)

UpTo(n) == IF n > Threshold THEN Threshold ELSE n

\* is_open forgets a breaker whose time has passed before it answers.
Observed == IF breaker.openedUntil # 0 /\ now >= breaker.openedUntil
            THEN Closed ELSE breaker

IsOpen == Observed.openedUntil > now

\* Mutant of RecordSuccess: the failure count survives a success.
RecordSuccess_Keep(provider) ==
    IF provider = Local
    THEN breaker' = [breaker EXCEPT !.openedUntil = 0] /\ streak' = 0
    ELSE UNCHANGED <<breaker, streak>>

RecordSuccess(provider) ==
    IF provider = Local
    THEN breaker' = Closed /\ streak' = 0
    ELSE UNCHANGED <<breaker, streak>>

RecordFailure(provider) ==
    IF provider = Local
    THEN /\ breaker' =
              [failures |-> UpTo(breaker.failures + 1),
               openedUntil |-> IF breaker.failures + 1 >= Threshold
                               THEN now + ResetAfter ELSE breaker.openedUntil]
         /\ streak' = UpTo(streak + 1)
    ELSE UNCHANGED <<breaker, streak>>

-----------------------------------------------------------------------------
(***************************************************************************)
(* Routing.  fits says that the task is within every local budget: context, *)
(* tools, attachments, sources and complexity.                              *)
(***************************************************************************)

LocalSafe(fits) == fits /\ Local \in configured /\ ~IsOpen

\* The provider of a route, or "refused" for the RuntimeError of choose.
Chosen(privacy, fits) ==
    CASE privacy = "remote_required" -> Remote
      [] privacy = "local_only" -> IF LocalSafe(fits) THEN Local ELSE "refused"
      [] OTHER -> IF LocalSafe(fits) THEN Local ELSE Remote

\* Mutant of FallbackAllowed: the policy is not asked.
FallbackAllowed_AnyPolicy(privacy, provider) == provider = Local

\* Mutant of FallbackAllowed: only the policy that names remote falls back.
FallbackAllowed_Explicit(privacy, provider) ==
    privacy = "remote_allowed" /\ provider = Local

FallbackAllowed(privacy, provider) == privacy # "local_only" /\ provider = Local

-----------------------------------------------------------------------------
(***************************************************************************)
(* A call.  Contact is one HTTP request to a provider; a call that never    *)
(* reaches one failed in choose or in _select_provider.                     *)
(***************************************************************************)

Contact(c, provider, attempt) ==
    call' = [call EXCEPT ![c].at = "request", ![c].provider = provider,
                         ![c].attempt = attempt,
                         ![c].contacted = @ \cup {provider}]

End(c, how) == call' = [call EXCEPT ![c].at = how]

\* chat and stream_chat up to their first request.
Start(c, privacy, fits, stream) ==
    /\ call[c].at \in Ended
    /\ breaker' = IF Local \in configured THEN Observed ELSE breaker
    /\ LET provider == Chosen(privacy, fits)
           reached == provider \in configured
       IN call' = [call EXCEPT ![c] =
            [at |-> IF reached THEN "request" ELSE "failed",
             privacy |-> privacy, stream |-> stream,
             provider |-> IF provider = Remote THEN Remote ELSE Local,
             attempt |-> 0, emitted |-> FALSE,
             contacted |-> IF reached THEN {provider} ELSE {}]]
    /\ UNCHANGED <<configured, now, streak>>

\* A whole answer was read.
Succeed(c) ==
    /\ call[c].at = "request" /\ ~call[c].stream
    /\ RecordSuccess(call[c].provider)
    /\ End(c, "returned")
    /\ UNCHANGED <<configured, now>>

\* Mutant of NextAttempt: output already handed on does not stop a retry.
NextAttempt_Replay(c, retriable) ==
    LET k == call[c] IN
    IF retriable /\ k.attempt < MaxRetries
    THEN Contact(c, k.provider, k.attempt + 1)
    ELSE IF ~k.emitted /\ FallbackAllowed(k.privacy, k.provider) /\ Remote \in configured
    THEN Contact(c, Remote, 0)
    ELSE End(c, "failed")

\* Mutant of NextAttempt: one retry too many.
NextAttempt_OneMore(c, retriable) ==
    LET k == call[c] IN
    IF retriable /\ k.attempt <= MaxRetries /\ ~k.emitted
    THEN Contact(c, k.provider, k.attempt + 1)
    ELSE IF ~k.emitted /\ FallbackAllowed(k.privacy, k.provider) /\ Remote \in configured
    THEN Contact(c, Remote, 0)
    ELSE End(c, "failed")

\* What follows an error of the current attempt: the next attempt, the other
\* provider, or the caller.
NextAttempt(c, retriable) ==
    LET k == call[c] IN
    IF retriable /\ k.attempt < MaxRetries /\ ~k.emitted
    THEN Contact(c, k.provider, k.attempt + 1)
    ELSE IF ~k.emitted /\ FallbackAllowed(k.privacy, k.provider) /\ Remote \in configured
    THEN Contact(c, Remote, 0)
    ELSE End(c, "failed")

\* An HTTP error, a network error, a timeout, or an unreadable answer, which
\* _normalize_error turns into a GatewayError.
Fail(c, retriable) ==
    /\ call[c].at = "request"
    /\ RecordFailure(call[c].provider)
    /\ NextAttempt(c, retriable)
    /\ UNCHANGED <<configured, now>>

\* _normalize_error raises in its turn: the body of an HTTP error cannot be read,
\* or is JSON but no object.  What leaves it is no GatewayError: no failure is
\* recorded, nothing is retried, and the fallback is not tried.  An HTTP error
\* comes before any output.
ErrorUnread(c) ==
    /\ call[c].at = "request" /\ ~call[c].emitted
    /\ End(c, "raised")
    /\ UNCHANGED <<configured, now, breaker, streak>>

\* The answer was JSON but no object: recorded as a success and then, by the
\* same attempt, as a failure.
AnswerUnusable(c) ==
    /\ call[c].at = "request" /\ ~call[c].stream
    /\ IF call[c].provider = Local
       THEN /\ breaker' = [failures |-> 1,
                           openedUntil |-> IF Threshold = 1 THEN now + ResetAfter ELSE 0]
            /\ streak' = 1
       ELSE UNCHANGED <<breaker, streak>>
    /\ NextAttempt(c, FALSE)
    /\ UNCHANGED <<configured, now>>

-----------------------------------------------------------------------------
(***************************************************************************)
(* Streams.  Between two chunks the consumer may do anything, or never      *)
(* come back.                                                               *)
(***************************************************************************)

Chunk(c) ==
    /\ call[c].at = "request" /\ call[c].stream /\ ~call[c].emitted
    /\ call' = [call EXCEPT ![c].emitted = TRUE]
    /\ UNCHANGED <<configured, now, breaker, streak>>

\* [DONE] was read.
Done(c) ==
    /\ call[c].at = "request" /\ call[c].stream
    /\ RecordSuccess(call[c].provider)
    /\ End(c, "returned")
    /\ UNCHANGED <<configured, now>>

\* The connection ended without [DONE]: the stream just stops.
Exhausted(c) ==
    /\ call[c].at = "request" /\ call[c].stream
    /\ End(c, "returned")
    /\ UNCHANGED <<configured, now, breaker, streak>>

\* The consumer drops the generator after a chunk.
Abandon(c) ==
    /\ call[c].at = "request" /\ call[c].emitted
    /\ End(c, "abandoned")
    /\ UNCHANGED <<configured, now, breaker, streak>>

-----------------------------------------------------------------------------

\* health_check of the local provider, by whoever watches the process.
HealthCheck(healthy) ==
    /\ Local \in configured
    /\ IF healthy THEN RecordSuccess(Local) ELSE RecordFailure(Local)
    /\ UNCHANGED <<configured, now, call>>

Tick ==
    /\ now < MaxTime
    /\ now' = now + 1
    /\ UNCHANGED <<configured, breaker, streak, call>>

GatewayInit ==
    /\ configured \in SUBSET Providers
    /\ now = 0
    /\ breaker = Closed
    /\ streak = 0
    /\ call = [c \in Callers |-> Idle]

\* One step of a call that is under way.
Progress(c) ==
    \/ Succeed(c)
    \/ \E retriable \in BOOLEAN : Fail(c, retriable)
    \/ ErrorUnread(c)
    \/ AnswerUnusable(c)
    \/ Chunk(c)
    \/ Done(c)
    \/ Exhausted(c)
    \/ Abandon(c)

Begin(c) ==
    \E privacy \in Policies, fits \in BOOLEAN, stream \in BOOLEAN :
        Start(c, privacy, fits, stream)

GatewayNext ==
    \/ \E c \in Callers : Begin(c) \/ Progress(c)
    \/ \E healthy \in BOOLEAN : HealthCheck(healthy)
    \/ Tick

GatewaySpec == GatewayInit /\ [][GatewayNext]_gateway

-----------------------------------------------------------------------------
(***************************************************************************)
(* Properties                                                               *)
(***************************************************************************)

Calls == [at : Ended \cup {"request"}, privacy : Policies, stream : BOOLEAN,
          provider : Providers, attempt : 0..MaxRetries, emitted : BOOLEAN,
          contacted : SUBSET Providers]

GatewayTypeOK ==
    /\ configured \in SUBSET Providers
    /\ now \in 0..MaxTime
    /\ breaker \in [failures : 0..Threshold, openedUntil : 0..(MaxTime + ResetAfter)]
    /\ streak \in 0..Threshold
    /\ call \in [Callers -> Calls]

\* A local_only call contacts no remote provider and a remote_required call no
\* local one, through every retry, fallback and breaker state: choose,
\* _fallback_allowed and _select_provider together.
PolicyKept ==
    \A c \in Callers :
        /\ call[c].privacy = "local_only" => Remote \notin call[c].contacted
        /\ call[c].privacy = "remote_required" => Local \notin call[c].contacted

\* The breaker keeps callers away from the local provider only after Threshold
\* failures with no success in between, however the calls and health checks
\* that record on it interleave.
OpenIsEarned == IsOpen => streak = Threshold

\* A call that ends with a GatewayError after the local provider failed it
\* before any output, and that may go remote, was tried at the remote provider
\* when there is one.  An error whose body cannot be read is no GatewayError:
\* the call it ends (ErrorUnread) is not promised the fallback, and does not
\* get it.
FallbackTried ==
    \A c \in Callers :
        (/\ call[c].at = "failed"
         /\ Local \in call[c].contacted
         /\ call[c].privacy # "local_only"
         /\ ~call[c].emitted
         /\ Remote \in configured) => Remote \in call[c].contacted

\* Once a stream has handed on output, its request is never sent again, to no
\* provider: _stream_with_retries, "retrying can replay a request that already
\* executed side effects such as tools".
NoReplay ==
    [][\A c \in Callers :
         (call[c].at = "request" /\ call[c].emitted /\ call'[c].at = "request")
            => call'[c] = call[c]]_gateway
=============================================================================
