---------------------------- MODULE MCAskExchange ----------------------------
\* Small instances of AskExchange.
EXTENDS AskExchange

CONSTANTS a1, a2

Two == {a1, a2}
PayingAndOthers == [a \in Two |-> IF a = a1 THEN {"paying"} ELSE {"openai", "own"}]
BothPaying == [a \in Two |-> {"paying"}]
Prices == [a \in Two |-> 2]
Maxima == [a \in Two |-> IF a = a1 THEN 1 ELSE 2]
=============================================================================
