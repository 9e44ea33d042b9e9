------------------------------- MODULE MCWatch -------------------------------
EXTENDS Watch
=============================================================================
