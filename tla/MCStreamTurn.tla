----------------------------- MODULE MCStreamTurn -----------------------------
(* Values for the constants of StreamTurn.                                  *)
EXTENDS StreamTurn, TLC

CONSTANTS plain, compacting, fresh

==============================================================================
