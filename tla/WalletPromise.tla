---------------------------- MODULE WalletPromise ----------------------------
(***************************************************************************)
(* What the browser's wallets promise: a device gets a wallet of each type   *)
(* once and keeps it, and a restorable wallet appears only after the server  *)
(* stored its backup.  Nothing is promised for a device on which two pages   *)
(* save at the same time.                                                    *)
(***************************************************************************)
CONSTANTS Devices, Types, Keys, Psws, Nothing
VARIABLES wallets, backups, raced

vars == <<wallets, backups, raced>>

Init == /\ wallets = [d \in Devices |-> [type \in Types |-> Nothing]]
        /\ backups = {}
        /\ raced = {}

Backup == /\ \E key \in Keys : backups' = backups \cup {key}
          /\ UNCHANGED <<wallets, raced>>

Install == /\ \E d \in Devices, type \in Types, key \in Keys, psw \in Psws :
                 /\ wallets[d][type] = Nothing
                 /\ type = "R" => key \in backups
                 /\ wallets' = [wallets EXCEPT ![d][type] = <<key, psw>>]
           /\ UNCHANGED <<backups, raced>>

Race == /\ \E d \in Devices :
              /\ raced' = raced \cup {d}
              /\ \A e \in Devices \ raced' : wallets'[e] = wallets[e]
        /\ UNCHANGED backups

Next == Backup \/ Install \/ Race
Spec == Init /\ [][Next]_vars
=============================================================================
