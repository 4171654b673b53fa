----------------------------- MODULE MCTbCache ------------------------------
EXTENDS TbCache

\* Two pages of four units.  Page 0 has an indirect jump, two plain instructions,
\* and a branch of two units that goes back to the first of them and ends on
\* page 1, which has another indirect jump.
Insns == (0 :> 1) @@ (1 :> 1) @@ (2 :> 1) @@ (3 :> 2) @@ (5 :> 1)
Branches == (3 :> 1)

PageTable(p, q) == (0 :> p) @@ (1 :> q)

\* The second page comes and goes.
Unmapping == {PageTable(0, 1), PageTable(0, NoPage)}

\* The first page also moves to where the second one was.
Adjacent == Unmapping \cup {PageTable(1, NoPage)}

\* Pages that are not adjacent in physical memory.
Scattered == {PageTable(0, 1), PageTable(1, 0)}
=============================================================================
