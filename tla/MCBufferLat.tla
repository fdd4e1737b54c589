------------------------------- MODULE MCBufferLat -----------------------------
EXTENDS BufferLat
================================================================================
