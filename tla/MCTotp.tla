------------------------------- MODULE MCTotp -------------------------------
(***************************************************************************)
(* TLC instance of Totp: interchangeable requests, enough of them to use   *)
(* one code as often as its bound allows and once more.                    *)
(***************************************************************************)
EXTENDS Totp, TLC

Symmetry == Permutations(Req)

=============================================================================
