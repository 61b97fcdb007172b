------------------------------- MODULE MCInbox -------------------------------
EXTENDS Inbox
CONSTANTS d1, d2
=============================================================================
