--------------------------- MODULE MCExternalMmu ---------------------------
EXTENDS ExternalMmu

\* The guest's page table: two pages exchanged, the last one not mapped.
PageTable == (0 :> 1) @@ (1 :> 0) @@ (2 :> NoPage)
=============================================================================
