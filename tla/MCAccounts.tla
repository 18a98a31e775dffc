----------------------------- MODULE MCAccounts -----------------------------
(* Small instances of Accounts for TLC: the two accounts of the seed, and a *)
(* registration that shares its username with one and its email with the    *)
(* other, besides new ones.                                                 *)
EXTENDS Accounts

NewAccount(name, address, role) == [username |-> name, email |-> address, role |-> role]

MCSeedAccounts == <<NewAccount("operator_1", "operator_1@", "operator"),
                    NewAccount("admin", "admin@", "admin")>>
MCHandAccounts == {NewAccount("root", "root@", "admin")}
MCRegistrable  == {NewAccount("admin", "operator_1@", "operator"),
                   NewAccount("ann", "ann@", "operator")}
=============================================================================
