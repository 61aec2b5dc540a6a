---------------------------- MODULE MCBrowserWallet ----------------------------
(* Instances of BrowserWallet for TLC. *)
EXTENDS BrowserWallet, TLC

CONSTANTS k1, k2, u, s1, s2, p1, p2, d1, d2

Interchangeable == Permutations(Keys) \cup Permutations(Pages) \cup Permutations(Devices)
                     \cup Permutations(Psws)
=============================================================================
