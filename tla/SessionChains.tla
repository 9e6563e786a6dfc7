----------------------------- MODULE SessionChains ----------------------------
(***************************************************************************)
(* What the refresh sessions promise, with no rows and no transactions in  *)
(* sight.  A login begins a chain of sessions, each of which replaces the  *)
(* one before it, so that a chain has at most one session that can be      *)
(* refreshed: its tip.  A chain that lost its tip has ended for good.      *)
(***************************************************************************)
CONSTANTS
  Session,   \* sessions; a chain goes by its first one
  None       \* no tip

VARIABLES
  used,   \* sessions that exist
  tip     \* chain -> the session that can be refreshed, or None

chains == <<used, tip>>

Init ==
  /\ used = {}
  /\ tip = [l \in Session |-> None]

Begin(l) ==
  /\ l \notin used
  /\ used' = used \cup {l}
  /\ tip' = [tip EXCEPT ![l] = l]

Advance(l, s) ==
  /\ tip[l] # None
  /\ s \notin used
  /\ used' = used \cup {s}
  /\ tip' = [tip EXCEPT ![l] = s]

End(L) ==
  /\ tip' = [l \in Session |-> IF l \in L THEN None ELSE tip[l]]
  /\ UNCHANGED used

Next ==
  \/ \E l \in Session : Begin(l)
  \/ \E l, s \in Session : Advance(l, s)
  \/ \E L \in SUBSET Session : End(L)

Spec == Init /\ [][Next]_chains

=============================================================================
