------------------------------ MODULE MCPubSub ------------------------------
(* Instances of PubSub for TLC.                                             *)
EXTENDS PubSub

CONSTANT c1

MCConsumer == {c1}
=============================================================================
