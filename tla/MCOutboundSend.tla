--------------------------- MODULE MCOutboundSend ---------------------------
(* Small instances of OutboundSend for TLC. *)
EXTENDS OutboundSend, TLC

Interchangeable ==
    Permutations(Workers) \cup Permutations(Tasks) \cup Permutations(Operators)
=============================================================================
