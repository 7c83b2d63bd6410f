--------------------------- MODULE MCEnrichment -----------------------------
EXTENDS Enrichment, TLC

CONSTANTS o1, ip

Types == o1 :> ip
=============================================================================
