----------------------------- MODULE MCOcppIdMatch -----------------------------
EXTENDS OcppIdMatch, MCOcppCore
=============================================================================
