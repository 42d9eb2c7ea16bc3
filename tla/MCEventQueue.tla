---------------------------- MODULE MCEventQueue ----------------------------
(***************************************************************************)
(* Instances of EventQueue: one event of each kind a controller schedules, *)
(* and two responses.                                                      *)
(***************************************************************************)
EXTENDS EventQueue

CONSTANTS cleanup, refresh, transaction, command, resp1, resp2, reply

KindOf == [e \in Events |->
  CASE e = cleanup -> "cleanup" [] e = refresh -> "refresh"
    [] e = transaction -> "transaction" [] e = command -> "command"
    [] e = reply -> "reply" [] OTHER -> "response"]
=============================================================================
