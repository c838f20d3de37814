---------------------------- MODULE MCAuthLogin ----------------------------
(* Up to three concurrent logins, two user ids whose accounts have the     *)
(* user names n1 and n2, of which n1 is on the allow-list, two session     *)
(* strings.                                                                *)
EXTENDS AuthLogin, TLC

CONSTANTS r1, r2, r3, u1, u2, n1, n2, s1, s2

MCNameOf == (u1 :> n1) @@ (u2 :> n2)

MCSymmetry == Permutations(Req)

=============================================================================
