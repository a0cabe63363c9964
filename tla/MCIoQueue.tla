----------------------------- MODULE MCIoQueue ------------------------------
EXTENDS IoQueue
=============================================================================
