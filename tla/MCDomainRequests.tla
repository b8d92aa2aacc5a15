-------------------------- MODULE MCDomainRequests --------------------------
(* Five domains: criminal has a hard system ACL and ACL scopes, admin is not *)
(* on the allow list.  sinquer is a system alias inside the ACL of criminal, *)
(* gff resolves to criminal and lies outside it.                             *)
EXTENDS DomainRequests

MCDomains == {"criminal", "sco", "judicial", "sigef", "admin"}

MCAlias == [n \in MCDomains \cup {"sinquer", "gff"} |->
                IF n \in {"sinquer", "gff"} THEN "criminal" ELSE n]

MCAgentAlias == [n \in MCDomains \cup {"sinquer"} |->
                IF n = "sinquer" THEN "criminal" ELSE n]

MCHardAcl == [d \in MCDomains |-> IF d = "criminal" THEN {"sys1"} ELSE {}]
MCSystemAlias == [s \in {"sinquer"} |-> "sys1"]
MCScopes == [d \in MCDomains |-> IF d = "criminal" THEN {"internal"} ELSE {}]

Piece(d, sys, scope, kind, v, target) ==
    [domain |-> d, system |-> sys, scope |-> scope, kind |-> kind,
     version |-> v, target |-> target]

MCChunks == {Piece("criminal", "sys1", "internal", "log", 1, "judicial"),
             Piece("criminal", "sys1", "internal", "code", 1, "none"),
             Piece("criminal", "sys2", "internal", "log", 2, "none"),
             Piece("criminal", "sys1", "secret", "code", 3, "none"),
             Piece("sco", "sys3", "any", "code", 4, "none"),
             Piece("admin", "sys4", "any", "code", 5, "none")}

Asked(domains, systems, privacy, budget) ==
    [domains |-> domains, systems |-> systems, components |-> <<"other">>,
     types |-> {}, mode |-> "domain_evidence", privacy |-> privacy, budget |-> budget]

Two == Asked(<<"criminal", "sco">>, <<"sinquer">>, "local_only", 2)
Outside == Asked(<<"criminal", "judicial">>, <<"gff">>, "local_preferred", 1)
Many == Asked(<<"sco", "judicial", "criminal", "sigef">>, <<>>, "remote_required", 1)
Refused == Asked(<<"sco", "judicial", "criminal", "admin">>, <<>>, "local_preferred", 2)
Unnamed == Asked(<<>>, <<>>, "local_only", 1)
Single == Asked(<<"judicial">>, <<>>, "local_only", 2)

\* A second caller shares the gateway, or is refused at once.
MCLoads == {<<Two, Refused>>, <<Outside, Single>>, <<Many, Refused>>,
            <<Unnamed, Refused>>, <<Refused, Refused>>}

MCAnswers == {<<>>, <<"sinquer">>, <<"criminal", "sco">>, <<"sco", "admin">>, <<"nowhere">>}
=============================================================================
