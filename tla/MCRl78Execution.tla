-------------------------- MODULE MCRl78Execution ---------------------------
(* Programs for Rl78Execution.  Three instructions are free, two branches   *)
(* close the loop (the first one may be skipped), and a handler follows.    *)
EXTENDS Rl78Execution

Layout(a, b, c, h) ==
    [p \in 0 .. 6 |-> CASE p = 0 -> a [] p = 1 -> b [] p = 2 -> c
                        [] p \in {3, 4} -> "br" [] p = 5 -> h [] p = 6 -> "reti"]

\* Skips are never adjacent.
SingleSkips ==
    {Layout("skip", b, c, "ei") : b \in {"op", "ei", "bc"}, c \in {"skip", "ei", "di"}}

\* A skip may skip a skip.
AdjacentSkips == {Layout("skip", "skip", "op", "op")}
=============================================================================
