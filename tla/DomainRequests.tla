--------------------------- MODULE DomainRequests ---------------------------
(***************************************************************************)
(* A question on its way through the domain router                          *)
(* (src/src/opennicf/domain_router.py): named domains are selected by       *)
(* alias, others by a model; one domain is answered by its agent, several   *)
(* by the correlation coordinator, which searches all of them in parallel   *)
(* and has the model summarize what they found                              *)
(* (src/src/opennicf/integration_correlation.py).                           *)
(*                                                                         *)
(* Requests share one gateway: its calls, its breaker and the health checks *)
(* of ModelGateway interleave with the steps here.  What the model answers  *)
(* and which tools it calls is left open; agent runs are cut at MaxTurns.   *)
(***************************************************************************)
EXTENDS ModelGateway, DomainScope

CONSTANTS
    Loads,          \* the loads: for every caller the request it submits
    Answers,        \* what the classifying model may answer, sequences of names
    MaxTurns        \* bound on the tool turns of an agent run

ASSUME RequestAssumption ==
    /\ MaxTurns \in Nat
    /\ \A load \in Loads : \A r \in Callers :
           /\ load[r].privacy \in Policies /\ load[r].budget \in Nat
           /\ load[r].domains \in Seq(STRING) /\ load[r].systems \in Seq(STRING)
           /\ load[r].components \in Seq(STRING)
    /\ Answers \subseteq Seq(STRING)

VARIABLES
    request,        \* per caller, its request
    stage,          \* per caller, where it is
    selected,       \* per caller, the selected domains
    task,           \* per caller, the outcome of each delegated search
    evidence,       \* per caller, the packages found
    turns           \* per caller, tool turns of its agent run

local == <<stage, selected, task, evidence, turns>>
vars == <<gateway, request, local>>

Stages == {"new", "classifying", "ready", "asking", "delegating", "summarizing",
           "answered", "raised"}

Answered(r) == stage[r] = "answered"

Goto(r, s) == stage' = [stage EXCEPT ![r] = s]

\* Mutant of Raise: a refused request is dropped without an error.
Raise_Silent(r) == UNCHANGED <<stage, selected, task, evidence, turns>>

Raise(r) == Goto(r, "raised") /\ UNCHANGED <<selected, task, evidence, turns>>

-----------------------------------------------------------------------------
(***************************************************************************)
(* The plan.  KeyError, PermissionError and errors of the gateway leave     *)
(* route(); only an empty selection is classified.                          *)
(***************************************************************************)

\* The coordinator's selection for each request.
Planned ==
    [q \in {load[r] : load \in Loads, r \in Callers} |->
        Selection(q.domains, q.systems, q.components)]

\* correlate() selects again, from the planned ids and the named systems.
Correlate(r, ids) ==
    LET s == Selection(ids, request[r].systems, request[r].components) IN
    IF s.error # "none" THEN Raise(r)
    ELSE /\ Goto(r, "delegating")
         /\ selected' = [selected EXCEPT ![r] = s.ids]
         /\ task' = [task EXCEPT ![r] = [i \in DOMAIN s.ids |-> "waiting"]]
         /\ UNCHANGED <<evidence, turns>>

\* route() for one domain: the factory resolves the name on its own.
RunAgent(r, name) ==
    IF name \notin DOMAIN AgentAlias THEN Raise(r)
    ELSE /\ Goto(r, "ready")
         /\ selected' = [selected EXCEPT ![r] = <<AgentAlias[name]>>]
         /\ UNCHANGED <<task, evidence, turns>>

Dispatch(r, ids) == IF Len(ids) = 1 THEN RunAgent(r, ids[1]) ELSE Correlate(r, ids)

AskModel(r, privacy, fits, stream, next) ==
    /\ Goto(r, next)
    /\ UNCHANGED <<request, selected, task, evidence, turns>>
    /\ Start(r, privacy, fits, stream)

\* plan() with an alias match, or without any name it knows.
Submit(r) ==
    /\ stage[r] = "new"
    /\ UNCHANGED <<gateway, request>>
    /\ LET s == Planned[request[r]] IN
       /\ s.error # "empty"
       /\ IF s.error = "none" THEN Dispatch(r, s.ids) ELSE Raise(r)

\* Mutant of Classify: the router's policy instead of the request's.
Classify_RouterPolicy(r) ==
    /\ stage[r] = "new"
    /\ Planned[request[r]].error = "empty"
    /\ \E fits \in BOOLEAN : AskModel(r, "local_preferred", fits, FALSE, "classifying")

\* _classify asks the model within the request's own privacy.
Classify(r) ==
    /\ stage[r] = "new"
    /\ Planned[request[r]].error = "empty"
    /\ \E fits \in BOOLEAN : AskModel(r, request[r].privacy, fits, FALSE, "classifying")

Classified(r) ==
    /\ stage[r] = "classifying"
    /\ UNCHANGED <<gateway, request>>
    /\ \/ call[r].at \in {"failed", "raised"} /\ Raise(r)
       \/ /\ call[r].at = "returned"
          /\ \E ids \in Answers : IF ids = <<>> THEN Raise(r) ELSE Dispatch(r, ids)

-----------------------------------------------------------------------------
(***************************************************************************)
(* One domain: the agent asks the model, which may ask for a tool.  A       *)
(* streamed answer carries no tool call: OpenNICFChatModel hands on the     *)
(* text of the chunks only.                                                 *)
(***************************************************************************)

AgentModes == {"exact", "symbol", "code_semantic", "logs", "docs", "schema", "query_outputs"}

\* What the permitted searches of a domain's agent may return, whatever mode
\* and systems the model asks for; outside the boundary they raise.
ToolHits ==
    [d \in Domains |->
        {{}} \cup
        UNION {Hits(d, systems, mode, {}, Cardinality(Chunks)) :
                 mode \in AgentModes,
                 systems \in {s \in SUBSET {c.system : c \in Chunks} : ~OutsideAcl(d, s)}}]

Ask(r) ==
    /\ stage[r] = "ready"
    /\ \E fits, stream \in BOOLEAN : AskModel(r, request[r].privacy, fits, stream, "asking")

\* A tool call, refused or not, and the next turn.
UseTool(r) ==
    /\ stage[r] = "asking" /\ call[r].at = "returned" /\ ~call[r].stream
    /\ turns[r] < MaxTurns
    /\ turns' = [turns EXCEPT ![r] = @ + 1]
    /\ Goto(r, "ready")
    /\ UNCHANGED <<gateway, request, selected, task>>
    /\ LET d == selected[r][1] IN
       \E hits \in ToolHits[d] : \E best \in BestOf(hits) :
           evidence' = [evidence EXCEPT ![r] = @ \cup Packages(d, hits, best)]

AgentEnds(r) ==
    /\ stage[r] = "asking"
    /\ \/ call[r].at \in {"returned", "abandoned"} /\ Goto(r, "answered")
       \/ call[r].at \in {"failed", "raised"} /\ Goto(r, "raised")
    /\ UNCHANGED <<gateway, request, selected, task, evidence, turns>>

-----------------------------------------------------------------------------
(***************************************************************************)
(* Several domains: one search per domain, all submitted to a thread pool,  *)
(* and every exception of a search packaged as a failed task.               *)
(***************************************************************************)

Settle(r, i, outcome) == task' = [task EXCEPT ![r][i] = outcome]

\* _delegate_domain, the search succeeds.
Delegate(r, i) ==
    /\ stage[r] = "delegating" /\ task[r][i] = "waiting"
    /\ Settle(r, i, "ok")
    /\ UNCHANGED <<gateway, request, stage, selected, turns>>
    /\ LET d == selected[r][i]
           systems == SystemsOf(request[r].systems, d)
           limit == Share(request[r].budget, Len(selected[r]), i)
       IN /\ ~OutsideAcl(d, systems)
          /\ \E mode \in ModesFor(request[r].mode, request[r].types) :
             \E hits \in Hits(d, systems, mode, request[r].types, limit) :
             \E best \in BestOf(hits) :
                 evidence' = [evidence EXCEPT ![r] = @ \cup Packages(d, hits, best)]

\* _delegate_domain, the search raises: a system outside the ACL, an index of
\* another embedding space, a database error.
DelegateFails(r, i) ==
    /\ stage[r] = "delegating" /\ task[r][i] = "waiting"
    /\ Settle(r, i, "failed")
    /\ UNCHANGED <<gateway, request, stage, selected, evidence, turns>>

AllSettled(r) == \A i \in DOMAIN task[r] : task[r][i] # "waiting"

\* _summarize without a provider, and with one; more than two domains make
\* the task a complex one.
SummarizeLocally(r) ==
    /\ stage[r] = "delegating" /\ AllSettled(r) /\ configured = {}
    /\ UNCHANGED <<gateway, request, selected, task, evidence, turns>>
    /\ Goto(r, "answered")

Summarize(r) ==
    /\ stage[r] = "delegating" /\ AllSettled(r) /\ configured # {}
    /\ \E fits \in BOOLEAN :
           /\ Len(selected[r]) > 2 => ~fits
           /\ AskModel(r, request[r].privacy, fits, FALSE, "summarizing")

\* Any exception of the model leaves the local text.
Summarized(r) ==
    /\ stage[r] = "summarizing" /\ call[r].at \in {"returned", "failed", "raised"}
    /\ UNCHANGED <<gateway, request, selected, task, evidence, turns>>
    /\ Goto(r, "answered")

\* The answer of a correlation.
Status(r) ==
    CASE \A i \in DOMAIN task[r] : task[r][i] = "ok" -> "ok"
      [] \A i \in DOMAIN task[r] : task[r][i] # "ok" -> "failed"
      [] OTHER -> "partial"

Edges(r) ==
    LET declared == {<<p.domain, p.target>> : p \in {q \in evidence[r] : q.target # NoDomain}} IN
    IF declared = {} /\ Len(selected[r]) > 1
    THEN {e \in ToSet(selected[r]) \X ToSet(selected[r]) : e[1] # e[2]}
    ELSE declared

PackagesOf(r, d) == {p \in evidence[r] : p.domain = d}

\* The classifications among the findings: of each search's facts, of the
\* edges, and of the failures.
Facts(r) ==
    UNION {{"fact"} \cup (IF PackagesOf(r, d) = {} THEN {"hypothesis"} ELSE {})
                    \cup (IF Cardinality(PackagesOf(r, d)) > 1 THEN {"inference"} ELSE {})
             : d \in {selected[r][i] : i \in {j \in DOMAIN task[r] : task[r][j] = "ok"}}}

Inferences(r) == IF Edges(r) # {} THEN {"inference"} ELSE {}

\* Mutant of Failures: only a run without any result reports what is missing.
Failures_TotalLoss(r) == IF Status(r) = "failed" THEN {"hypothesis", "missing_evidence"} ELSE {}

Failures(r) == IF Status(r) # "ok" THEN {"hypothesis", "missing_evidence"} ELSE {}

Findings(r) == Facts(r) \cup Inferences(r) \cup Failures(r)

-----------------------------------------------------------------------------

Init ==
    /\ GatewayInit
    /\ request \in Loads
    /\ stage = [r \in Callers |-> "new"]
    /\ selected = [r \in Callers |-> <<>>]
    /\ task = [r \in Callers |-> <<>>]
    /\ evidence = [r \in Callers |-> {}]
    /\ turns = [r \in Callers |-> 0]

Search(r) == \E i \in DOMAIN task[r] : DelegateFails(r, i) \/ Delegate(r, i)

Advance(r) ==
    \/ Submit(r) \/ Classify(r) \/ Classified(r)
    \/ Ask(r) \/ UseTool(r) \/ AgentEnds(r)
    \/ Search(r)
    \/ SummarizeLocally(r) \/ Summarize(r) \/ Summarized(r)

CallSteps(r) == UNCHANGED <<request, local>> /\ Progress(r)

Next ==
    \/ \E r \in Callers : CallSteps(r) \/ Advance(r)
    \/ (\E healthy \in BOOLEAN : HealthCheck(healthy)) /\ UNCHANGED <<request, local>>
    \/ Tick /\ UNCHANGED <<request, local>>

Spec == Init /\ [][Next]_vars

Thread(r) == CallSteps(r) \/ Advance(r)

\* The caller's thread runs, and every HTTP request it waits for ends, by its
\* timeout at the latest.
FairSpec == Spec /\ \A r \in Callers : WF_vars(Thread(r))

-----------------------------------------------------------------------------
(***************************************************************************)
(* Properties                                                               *)
(***************************************************************************)

Correlated(r) == task[r] # <<>>

TypeOK ==
    /\ GatewayTypeOK
    /\ request \in Loads
    /\ stage \in [Callers -> Stages]
    /\ \A r \in Callers :
        /\ selected[r] \in Seq(Domains)
        /\ task[r] \in Seq({"waiting", "ok", "failed"})
        /\ \A p \in evidence[r] : p.domain \in Domains /\ p.refs \subseteq Chunks
        /\ turns[r] \in 0..MaxTurns

\* What a caller asked to keep local never reaches the remote provider:
\* neither its classification, nor its agent's turns, nor its summary.
RequestStaysLocal ==
    \A r \in Callers :
        request[r].privacy = "local_only" => Remote \notin call[r].contacted

\* Evidence never leaves the boundary of the domains the request was resolved
\* to: their ACL scopes, their hard system ACL, the systems the request named,
\* and for a correlation the coordinator's allow list.
EvidenceInScope ==
    \A r \in Callers : \A p \in evidence[r] :
        /\ p.domain \in ToSet(selected[r])
        /\ Correlated(r) => p.domain \in Allowed
        /\ \A c \in p.refs :
            /\ c.domain = p.domain
            /\ Scopes[c.domain] # {} => c.scope \in Scopes[c.domain]
            /\ HardAcl[c.domain] # {} => c.system \in HardAcl[c.domain]
            /\ (Correlated(r) /\ SystemsOf(request[r].systems, c.domain) # {})
                  => \E s \in SystemsOf(request[r].systems, c.domain) : c.system \in {s, Canonical(s)}

\* The evidence a request holds.
Pieces(r) == UNION {p.refs : p \in evidence[r]}

\* The tasks of a correlation together return no more evidence than the
\* request's budget, as long as the budget has a piece for each of them.  With
\* more tasks than that it is exceeded: every task may return one piece, and
\* the remainder of the division, then the whole budget, is handed out on top.
BudgetKept ==
    \A r \in Callers : Correlated(r) =>
        LET tasks == Len(selected[r])
            budget == TaskBudget(request[r].budget)
        IN  Cardinality(Pieces(r)) <= budget + (IF tasks <= budget THEN 0 ELSE tasks)

\* An answer says so when a selected domain contributed nothing, be it that
\* its search failed or that it found nothing.
GapsAreTold ==
    \A r \in Callers :
        (/\ Answered(r) /\ Correlated(r)
         /\ \E i \in DOMAIN selected[r] : PackagesOf(r, selected[r][i]) = {})
        => Findings(r) \cap {"hypothesis", "missing_evidence"} # {}

\* A domain the request named is missing from a correlated answer only when
\* the answer carries bounded_fan_out, although route() and correlate() each
\* select and cut.
DropIsFlagged ==
    \A r \in Callers :
        (Answered(r) /\ Correlated(r)) =>
            \/ Len(selected[r]) >= FanOut
            \/ ToSet(Candidates(request[r].domains, request[r].systems, request[r].components))
                  \subseteq ToSet(selected[r])

\* Every request is answered or raises, whatever the providers do.
RequestEnds == \A r \in Callers : <>(stage[r] \in {"answered", "raised"})
=============================================================================
