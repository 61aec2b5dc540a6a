---------------------------- MODULE MCAndroidWallet ----------------------------
(***************************************************************************)
(* A small instance of AndroidWallet, and its properties.                    *)
(***************************************************************************)
EXTENDS AndroidWallet, TLC

Symmetry == Permutations(Psws)
=============================================================================
