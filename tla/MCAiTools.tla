----------------------------- MODULE MCAiTools -----------------------------
EXTENDS AiTools
=============================================================================
