---------------------------- MODULE MCLoggingDemo ----------------------------
EXTENDS LoggingDemo
=============================================================================
