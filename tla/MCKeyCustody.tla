---------------------------- MODULE MCKeyCustody ----------------------------
(* Admin requests, phones and roles are interchangeable.                    *)
EXTENDS KeyCustody, TLC

Alike == Permutations(Admins) \cup Permutations(Phones) \cup Permutations(Roles)
=============================================================================
