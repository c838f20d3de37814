------------------------------ MODULE MCWsLogin ------------------------------
(* WsLogin on a small instance: up to three messages on one connection,  *)
(* one allowed and one refused user, a burst of two tokens and one      *)
(* flood-wait retry.                                                       *)
EXTENDS WsLogin

CONSTANTS u1, u2

MCUsers == {u1, u2}
MCAllowedUsers == {u1}

=============================================================================
