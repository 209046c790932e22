-------------------------- MODULE MCRabbitPublisher --------------------------
(* RabbitPublisher with a bounded number of messages. *)
EXTENDS RabbitPublisher
=============================================================================
