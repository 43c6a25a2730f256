----------------------------- MODULE MCGClosure -----------------------------
EXTENDS GClosure
=============================================================================
