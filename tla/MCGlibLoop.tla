----------------------------- MODULE MCGlibLoop -----------------------------
EXTENDS GlibLoop
=============================================================================
