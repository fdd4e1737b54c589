------------------------------ MODULE MCProtoServer ----------------------------
EXTENDS ProtoServer
================================================================================
