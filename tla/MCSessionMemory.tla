--------------------------- MODULE MCSessionMemory ---------------------------
(***************************************************************************)
(* Chats of one account, for TLC: long enough for the prompt to outgrow    *)
(* the window while an earlier consolidation is still under way.           *)
(***************************************************************************)
EXTENDS SessionMemory

CONSTANT c1

OneChat == {c1}
Talks == {<<"fact", "plain", "fact", "plain">>,
          <<"plain", "plain", "new", "fact">>,
          <<"fact", "new", "plain", "big">>,
          <<"plain", "fact", "big", "plain">>,
          <<"plain", "new", "fact", "new">>}
=============================================================================
