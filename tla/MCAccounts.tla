------------------------------ MODULE MCAccounts ------------------------------
(***************************************************************************)
(* Two people who want the same user name, two handler threads and two     *)
(* sessions.                                                               *)
(***************************************************************************)
EXTENDS Accounts, TLC

MCNameOf == [p \in Person |-> "name"]

MCMailOf == [p \in Person |-> p]

MCSymmetry == Permutations(Thread) \cup Permutations(User) \cup Permutations(Session)
                \cup Permutations(Person)

=============================================================================
