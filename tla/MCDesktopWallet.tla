---------------------------- MODULE MCDesktopWallet ----------------------------
(***************************************************************************)
(* A small instance of DesktopWallet, and its properties.                    *)
(***************************************************************************)
EXTENDS DesktopWallet, TLC

Symmetry == Permutations(Psws)
=============================================================================
