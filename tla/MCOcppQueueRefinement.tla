------------------------ MODULE MCOcppQueueRefinement ------------------------
EXTENDS OcppQueueRefinement, MCOcppCore
=============================================================================
