-------------------------- MODULE MCSearchRegistry --------------------------
EXTENDS SearchRegistry
=============================================================================
