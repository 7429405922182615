--------------------------- MODULE DispatchLedger ---------------------------
(***************************************************************************)
(* What the dispatch service promises its callers, whatever processes and  *)
(* files it uses: every job walks the legal ledger state machine, at most  *)
(* Cap jobs are in flight, and the result of a job is handed off once.     *)
(* AsyncDispatch implements this module.                                   *)
(***************************************************************************)
EXTENDS Integers, FiniteSets

CONSTANTS Jobs,  \* the job ids of the ledger
          Cap    \* LEANFLOW_DISPATCH_MAX_CONCURRENT

VARIABLES state,     \* state[j]: the ledger state of job j
          consumed   \* consumed[j]: whether the result of j was handed off

vars == <<state, consumed>>

States == {"proposed", "deployed", "running", "done", "failed", "stuck", "killed"}
TerminalStates == {"done", "failed", "stuck", "killed"}
InFlightStates == {"deployed", "running"}

\* The legal ledger state machine.
Transitions ==
  [s \in States |->
     CASE s = "proposed" -> {"deployed", "killed"}
       [] s = "deployed" -> {"running", "failed", "killed"}
       [] s = "running"  -> {"done", "failed", "stuck", "killed"}
       [] s = "stuck"    -> {"killed"}
       [] OTHER          -> {}]

CanTransition(current, target) == target \in Transitions[current]

InFlight == {j \in Jobs : state[j] \in InFlightStates}

TypeOK ==
  /\ state \in [Jobs -> States]
  /\ consumed \in [Jobs -> BOOLEAN]

Init ==
  /\ state = [j \in Jobs |-> "proposed"]
  /\ consumed = [j \in Jobs |-> FALSE]
-----------------------------------------------------------------------------
\* A job moves along one legal edge; entering flight needs a free slot.
Move(j, s) ==
  /\ CanTransition(state[j], s)
  /\ s = "deployed" => Cardinality(InFlight) < Cap
  /\ state' = [state EXCEPT ![j] = s]
  /\ UNCHANGED consumed

\* The one correction the ledger allows: a result that was published before
\* a killed or failed verdict replaces that verdict.
Restore(j) ==
  /\ state[j] \in {"killed", "failed"}
  /\ ~consumed[j]
  /\ state' = [state EXCEPT ![j] = "done"]
  /\ UNCHANGED consumed

\* The one-way hand-off of a finished job's result.
Consume(j) ==
  /\ state[j] = "done"
  /\ ~consumed[j]
  /\ consumed' = [consumed EXCEPT ![j] = TRUE]
  /\ UNCHANGED state

Next ==
  \E j \in Jobs : \/ \E s \in States : Move(j, s)
                  \/ Restore(j)
                  \/ Consume(j)

Spec == Init /\ [][Next]_vars
=============================================================================
