---------------------------- MODULE MCTransport ----------------------------
(* Instances of Transport for TLC: one caller reads a chat, another is a chat, a voice turn or a batch. *)
EXTENDS Transport

CONSTANTS chat, other, Retried

MCMakes == [c \in Callers |-> IF c = chat THEN {"read"} ELSE {"read", "voice", "batch"}]
MCBudget == [read |-> 1, voice |-> 1, batch |-> 0]
MCTimeout == [read |-> 1, voice |-> 1, batch |-> 1]
MCMaxAttempts == [request \in DOMAIN MCBudget |-> IF request \in Retried THEN 2 ELSE 1]
=============================================================================
