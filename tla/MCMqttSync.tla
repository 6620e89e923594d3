------------------------------ MODULE MCMqttSync ------------------------------
EXTENDS MqttSync

CONSTANTS r1, r2, reply

\* Two calls wait on one topic; the buffer of the second is smaller.
MCWaitOn == [r \in {r1, r2} |-> reply]
MCRoom == [r \in {r1, r2} |-> IF r = r1 THEN 3 ELSE 2]
===============================================================================
