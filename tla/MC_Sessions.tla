---------------------------- MODULE MC_Sessions -----------------------------
\* Sessions with a few tokens and requests.
EXTENDS Sessions
==============================================================================
