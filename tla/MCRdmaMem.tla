------------------------------- MODULE MCRdmaMem -------------------------------
EXTENDS RdmaMem
================================================================================
