--------------------------- MODULE MCVideoIngestion ---------------------------
(* Three uploads of one content, for TLC; one names the camera and another   *)
(* may be cut off.                                                           *)
EXTENDS VideoIngestion, TLC

CONSTANTS r1, r2, r3, clip

MCContent == r1 :> clip @@ r2 :> clip @@ r3 :> clip

===============================================================================
