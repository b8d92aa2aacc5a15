----------------------------- MODULE DomainScope -----------------------------
(***************************************************************************)
(* What a request for evidence may see: the resolution of domain and system *)
(* names, the selection of domains for a correlation                        *)
(* (src/src/opennicf/integration_correlation.py), and the boundary that the *)
(* tools of a domain agent put around every search                          *)
(* (src/src/opennicf/domain_agent.py).  Operators only, no state.           *)
(*                                                                         *)
(* A chunk is [domain, system, scope, kind, version, target]: target is the *)
(* domain of an integration edge its metadata names, or NoDomain.  Scores   *)
(* and query terms decide which of the visible chunks are hits; they are    *)
(* left open.                                                               *)
(***************************************************************************)
EXTENDS Naturals, Sequences, FiniteSets, SequencesExt, Subsequences

CONSTANTS
    Domains,        \* the profiles of the agent factory
    Allowed,        \* allowed_domain_ids of coordinator and router
    Alias,          \* the coordinator's resolution: name -> domain, partial
    AgentAlias,     \* the factory's own resolution: name -> domain, partial
    HardAcl,        \* per domain, retrieval_system_ids; {} for no system ACL
    SystemAlias,    \* alias of a system -> system, partial
    Scopes,         \* per domain, the principal's ACL scopes; {} for any
    Chunks,         \* the indexed evidence
    FanOut,         \* max_domain_fan_out
    MaxBudget,      \* max_evidence_budget
    NoDomain

Kinds == {"document", "log", "code", "schema", "query-output"}

ASSUME ScopeAssumption ==
    /\ Allowed \subseteq Domains
    /\ FanOut \in Nat \ {0}
    /\ MaxBudget \in Nat \ {0}
    /\ NoDomain \notin Domains
    /\ IsFiniteSet(Chunks)
    /\ \A n \in DOMAIN Alias : Alias[n] \in Domains
    /\ \A n \in DOMAIN AgentAlias : AgentAlias[n] \in Domains
    /\ \A d \in Domains : d \in DOMAIN Alias /\ Alias[d] = d

LesserOf(a, b) == IF a < b THEN a ELSE b
GreaterOf(a, b) == IF a > b THEN a ELSE b

-----------------------------------------------------------------------------
(***************************************************************************)
(* The domains of a request.                                                *)
(***************************************************************************)

\* The first occurrence of each value, in order.
Deduped(s) == Picked(s, {i \in DOMAIN s : \A j \in 1..(i - 1) : s[j] # s[i]})

\* Domains and systems must all be known; unknown components are skipped.
Known(names) == Picked(names, {i \in DOMAIN names : names[i] \in DOMAIN Alias})

Candidates(domains, systems, components) ==
    LET names == domains \o systems \o Known(components)
    IN  Deduped([i \in DOMAIN names |-> Alias[names[i]]])

\* Mutant of Selection: one domain fewer than the fan-out allows.
Selection_Short(domains, systems, components) ==
    LET named == domains \o systems IN
    IF Known(named) # named THEN [ids |-> <<>>, error |-> "unknown"]
    ELSE LET found == Candidates(domains, systems, components) IN
         CASE found = <<>> -> [ids |-> <<>>, error |-> "empty"]
           [] ~(ToSet(found) \subseteq Allowed) -> [ids |-> <<>>, error |-> "forbidden"]
           [] OTHER -> [ids |-> SubSeq(found, 1, GreaterOf(1, LesserOf(FanOut, Len(found)) - 1)),
                        error |-> "none"]

\* _selected_domain_ids: the selected domains, or why there are none.
Selection(domains, systems, components) ==
    LET named == domains \o systems IN
    IF Known(named) # named THEN [ids |-> <<>>, error |-> "unknown"]
    ELSE LET found == Candidates(domains, systems, components) IN
         CASE found = <<>> -> [ids |-> <<>>, error |-> "empty"]
           [] ~(ToSet(found) \subseteq Allowed) -> [ids |-> <<>>, error |-> "forbidden"]
           [] OTHER -> [ids |-> SubSeq(found, 1, LesserOf(FanOut, Len(found))),
                        error |-> "none"]

\* _partition_systems: the named systems that belong to domain d.
SystemsOf(systems, d) ==
    {s \in ToSet(systems) : s \in DOMAIN Alias /\ Alias[s] = d}

-----------------------------------------------------------------------------
(***************************************************************************)
(* Budgets: the request's evidence budget, shared over its n tasks.         *)
(***************************************************************************)

TaskBudget(budget) == GreaterOf(1, LesserOf(MaxBudget, budget))

\* Mutant of Share: one task too many gets a piece of the remainder.
Share_OneMore(budget, n, i) ==
    LesserOf(MaxBudget,
             GreaterOf(1, TaskBudget(budget) \div n)
               + (IF i - 1 <= (TaskBudget(budget) % n) THEN 1 ELSE 0))

Share(budget, n, i) ==
    LesserOf(MaxBudget,
             GreaterOf(1, TaskBudget(budget) \div n)
               + (IF i <= TaskBudget(budget) % n THEN 1 ELSE 0))

-----------------------------------------------------------------------------
(***************************************************************************)
(* The boundary of a domain's tools.                                        *)
(***************************************************************************)

Canonical(system) == IF system \in DOMAIN SystemAlias THEN SystemAlias[system] ELSE system

\* _filters raises PermissionError for a system outside a hard ACL.
OutsideAcl(d, systems) ==
    HardAcl[d] # {} /\ ~({Canonical(s) : s \in systems} \subseteq HardAcl[d])

\* Mutant of SystemFilter: a request that names no system gets no filter.
SystemFilter_Open(d, systems) ==
    IF HardAcl[d] = {} THEN systems ELSE {Canonical(s) : s \in systems}

\* The systems a search is confined to, {} for all of the domain's.
SystemFilter(d, systems) ==
    IF HardAcl[d] = {} THEN systems
    ELSE IF systems = {} THEN HardAcl[d] ELSE {Canonical(s) : s \in systems}

\* The tool of a mode searches evidence of these kinds.
KindsOf(mode) ==
    CASE mode \in {"exact", "symbol", "code_semantic"} -> {"code"}
      [] mode = "logs" -> {"log"}
      [] mode = "docs" -> {"document"}
      [] mode = "schema" -> {"schema"}
      [] mode = "query_outputs" -> {"query-output"}
      [] mode = "domain_evidence" -> Kinds

\* The modes _choose_retrieval_method may pick; what the question says is open.
ModesFor(mode, types) ==
    CASE mode # "domain_evidence" -> {mode}
      [] types = {"log"} -> {"logs"}
      [] types = {"code"} -> {"logs", "exact", "symbol"}
      [] types = {"schema"} -> {"logs", "schema"}
      [] types = {"query-output"} -> {"logs", "query_outputs"}
      [] OTHER -> {"logs", "domain_evidence"}

\* search_candidates under the filters of the domain's boundary.
Visible(d, systems, mode, types) ==
    {c \in Chunks :
        /\ c.domain = d
        /\ SystemFilter(d, systems) = {} \/ c.system \in SystemFilter(d, systems)
        /\ Scopes[d] = {} \/ c.scope \in Scopes[d]
        /\ c.kind \in KindsOf(mode)
        /\ types = {} \/ c.kind \in types}

\* _candidate_matches_terms: which candidates have the terms is left open.
TermMatches(visible) == SUBSET visible

\* _exact_search and _symbol_search: the best of what matches, up to the limit.
Matches(visible, limit) == {hits \in TermMatches(visible) : Cardinality(hits) <= limit}

\* _log_search passes over everything that is not a log entry.
LogMatches(visible, limit) == Matches({c \in visible : c.kind = "log"}, limit)

\* HybridRetriever.search ranks all candidates and cuts at the limit.
Ranked(visible, limit) ==
    kSubset(LesserOf(limit, Cardinality(visible)), visible)

\* The evidence the tool of a mode may return.
Hits(d, systems, mode, types, limit) ==
    LET visible == Visible(d, systems, mode, types) IN
    CASE mode \in {"exact", "symbol"} -> Matches(visible, limit)
      [] mode = "logs" -> LogMatches(visible, limit)
      [] OTHER -> Ranked(visible, limit)

\* _package_hits: one package per source version; the best hit of a package
\* gives it its integration edge.
Versions(hits) == {c.version : c \in hits}

BestOf(hits) == {best \in [Versions(hits) -> hits] : \A v \in Versions(hits) : best[v].version = v}

Packages(d, hits, best) ==
    {[domain |-> d, version |-> v, refs |-> {c \in hits : c.version = v},
      target |-> best[v].target] : v \in Versions(hits)}
=============================================================================
