-------------------------- MODULE MCSessionDispatch --------------------------
(***************************************************************************)
(* Two replicas and a user who changes his mind, for TLC.                  *)
(***************************************************************************)
EXTENDS SessionDispatch

CONSTANTS r1, r2

TwoReplicas == {r1, r2}
ThreeMessages == {<<"turn", "stop", "turn">>, <<"turn", "turn", "turn">>,
                  <<"turn", "turn", "stop">>}
=============================================================================
