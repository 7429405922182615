----------------------------- MODULE CleanupLife -----------------------------
(* What the cleanup of one false helper promises: a durable plan exists     *)
(* before a runner takes the helper out of the source; a plan that was      *)
(* stopped stays stopped until a person authorises it; the commit uses up   *)
(* the promotion that allowed the cleanup, once.  The user may edit the     *)
(* file at any time.                                                        *)
EXTENDS Naturals

VARIABLES
  plan,       \* "none", "pending", "quarantined" or "committed"
  authority,  \* the promotion: "active" or "consumed"
  helper,     \* whether the source holds the false helper
  edits       \* how many edits the user has made

vars == <<plan, authority, helper, edits>>

Init ==
  /\ plan = "none"
  /\ authority = "active"
  /\ helper \in BOOLEAN
  /\ edits = 0

Prepare ==
  /\ plan = "none"
  /\ plan' = "pending"
  /\ UNCHANGED <<authority, helper, edits>>

Remove ==
  /\ plan = "pending"
  /\ helper' = FALSE
  /\ UNCHANGED <<plan, authority, edits>>

Stop ==
  /\ plan = "pending"
  /\ plan' = "quarantined"
  /\ UNCHANGED <<authority, helper, edits>>

Authorize ==
  /\ plan = "quarantined"
  /\ plan' = "pending"
  /\ UNCHANGED <<authority, helper, edits>>

Commit ==
  /\ plan = "pending"
  /\ authority = "active"
  /\ plan' = "committed"
  /\ authority' = "consumed"
  /\ UNCHANGED <<helper, edits>>

Edit ==
  /\ edits' = edits + 1
  /\ helper' \in BOOLEAN
  /\ UNCHANGED <<plan, authority>>

Next == Prepare \/ Remove \/ Stop \/ Authorize \/ Commit \/ Edit

Spec == Init /\ [][Next]_vars
==============================================================================
