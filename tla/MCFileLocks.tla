------------------------------ MODULE MCFileLocks ------------------------------
(* A project directory with two source files, and a process with the guard of *)
(* terminal outcomes and two file tools.                                      *)
EXTENDS FileLocks

CONSTANTS guard, tool, worker, runner, dir, f, g, old

OneProc == [a \in {guard, tool, worker} |-> runner]
\* Every agent uses its own session id; old is the session of an old entry.
OwnIds == [a \in {guard, tool, worker} |-> a]
Agents == {guard, tool, worker}
OldAndAgents == {guard, tool, worker, old}
Tree == {dir, f, g}
Below == {<<dir, dir>>, <<f, f>>, <<g, g>>, <<f, dir>>, <<g, dir>>}
===============================================================================
