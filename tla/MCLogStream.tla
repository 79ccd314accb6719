---------------------------- MODULE MCLogStream ----------------------------
EXTENDS LogStream
=============================================================================
