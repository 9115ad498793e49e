---------------------------- MODULE MCMessageQueue ----------------------------
EXTENDS MessageQueue, TLC

CONSTANTS i1, i2, n1

MCUses == i1 :> "queue_interaction_response" @@ i2 :> "queue_followup"
       @@ n1 :> "queue_message_edit"
===============================================================================
