---------------------------- MODULE MCServerShutdown ----------------------------
(***************************************************************************)
(* Instances of ServerShutdown (and with it of RabbitPublisher) for TLC.   *)
(***************************************************************************)
EXTENDS ServerShutdown, TLC
=============================================================================
