----------------------------- MODULE MCRxControl -----------------------------
EXTENDS RxControl

MCValid == {1, 2}
=============================================================================
