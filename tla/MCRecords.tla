------------------------------ MODULE MCRecords ------------------------------
(* Symmetry for the instances of ConversationRecords: requests,             *)
(* conversations and workers are interchangeable, and no liveness is        *)
(* checked.                                                                 *)
EXTENDS ConversationRecords, TLC

Symmetry == Permutations(Requests) \cup Permutations(Conversations)
              \cup Permutations(Workers)
=============================================================================
