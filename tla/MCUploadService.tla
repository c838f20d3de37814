--------------------------- MODULE MCUploadService ---------------------------
(* A small instance of UploadService: two channels, one with two bots and  *)
(* one without, two concurrent requests on one session with two parts.     *)
EXTENDS UploadService, TLC

CONSTANTS c1, c2, t1, t2

MCBotsOf == [ch \in Channels |-> IF ch = c1 THEN <<t1, t2>> ELSE <<>>]

MCSymmetry == Permutations(Req)

=============================================================================
