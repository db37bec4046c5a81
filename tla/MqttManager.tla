---------------------------- MODULE MqttManager ----------------------------
(***************************************************************************)
(* What the two halves of MqttManager (mqtt_client.py) have in common: the *)
(* commands of CommandDispatch and the messages of MqttIngestion use one   *)
(* client, one flag _connected and the same two statuses of a device.      *)
(***************************************************************************)
EXTENDS Naturals, Sequences

CONSTANT None

VARIABLE connected      \* _connected

Statuses == {"online", "offline"}
=============================================================================
