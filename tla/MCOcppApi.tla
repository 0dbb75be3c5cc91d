------------------------------ MODULE MCOcppApi ------------------------------
EXTENDS OcppApi, MCOcppCore
=============================================================================
