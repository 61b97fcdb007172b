------------------------------ MODULE MCOutbox ------------------------------
EXTENDS Outbox
CONSTANTS r1, r2, k1
MCRows == 1..2
MCKeyOf == <<k1, k1>>
MCOffset == [r \in Relays |-> IF r = r1 THEN 1 ELSE 0]
=============================================================================
