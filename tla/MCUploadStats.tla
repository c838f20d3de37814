---------------------------- MODULE MCUploadStats ----------------------------
(* Two users, three file rows, two sizes, a window of up to two days.     *)
EXTENDS UploadStats, TLC

CONSTANTS a, b, f1, f2, f3

=============================================================================
