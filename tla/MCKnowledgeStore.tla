-------------------------- MODULE MCKnowledgeStore --------------------------
(* Content c1 is two blocks, so that a re-embedding can stop halfway, and    *)
(* names an integration edge; c2 is one block.                               *)
EXTENDS KnowledgeStore, TLC

MCPieces == ("c1" :> 2) @@ ("c2" :> 1)
MCHomeOf == [s \in Sources |-> "ns1"]
MCLinksOf == ("c1" :> {"ns2"}) @@ ("c2" :> {})
MCOrder == ("s1" :> 1) @@ ("s2" :> 2)

\* One source is delivered twice with the same content, once with another
\* parser and once with new content; two sources share a content.
MCDeliveries == {<<"s1", "c1", "p1", FALSE>>, <<"s1", "c1", "p2", FALSE>>,
                 <<"s1", "c2", "p1", TRUE>>, <<"s2", "c1", "p1", TRUE>>}

\* Production without and with a worker that falls back by itself, the same
\* store with the service's own fallback, and the store in memory.
MCDeployments == {<<"postgres", FALSE, {}>>, <<"postgres", FALSE, {"qwen"}>>,
                  <<"postgres", TRUE, {}>>, <<"postgres", TRUE, {"qwen"}>>,
                  <<"memory", FALSE, {}>>}

Symmetry == Permutations(Threads)
=============================================================================
