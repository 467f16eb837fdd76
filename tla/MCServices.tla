----------------------------- MODULE MCServices -----------------------------
EXTENDS Services
=============================================================================
