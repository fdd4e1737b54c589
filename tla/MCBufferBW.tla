------------------------------ MODULE MCBufferBW ------------------------------
EXTENDS BufferBW
===============================================================================
