------------------------------ MODULE MCBroker ------------------------------
(* Two one-shot brokers of versions 1 and 2 and one resident of version 1.     *)
EXTENDS BrokerLedger
MCVersion == [b \in Brokers |-> IF b = "new" THEN 2 ELSE 1]
=============================================================================
