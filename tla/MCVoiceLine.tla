---------------------------- MODULE MCVoiceLine ----------------------------
(* The instance of VoiceLine that TLC checks. A partial of three words     *)
(* covers the turn of four; the first read, without words, does not.       *)
EXTENDS VoiceLine

CONSTANT u1

MCUtterances == {u1}
MCLengths == {3, 4}
MCSaid == {[of |-> u1, words |-> 4]}
=============================================================================
