------------------------------ MODULE MCMemoryApi ------------------------------
EXTENDS MemoryApi
================================================================================
