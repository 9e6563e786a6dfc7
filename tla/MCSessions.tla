------------------------------ MODULE MCSessions ------------------------------
(***************************************************************************)
(* Two users, two handler threads and three sessions: logins of both       *)
(* users, two logins of one, or a login that is refreshed twice.           *)
(***************************************************************************)
EXTENDS RefreshSessions, TLC

MCSymmetry == Permutations(Thread) \cup Permutations(User) \cup Permutations(Session)

=============================================================================
