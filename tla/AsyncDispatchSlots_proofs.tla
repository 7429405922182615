----------------------- MODULE AsyncDispatchSlots_proofs -----------------------
(***************************************************************************)
(* Theorems about AsyncDispatch: processes, results and slots.  Which      *)
(* process may work, what its result is bound to, how many there are, and  *)
(* under which kills a process that works keeps the slot of its job.       *)
(***************************************************************************)
EXTENDS AsyncDispatch_proofs

-----------------------------------------------------------------------------
(* The invariants *)

\* Steps at which a call goes by an entry that was running when it was read.
Past == {"killTerm", "killAwait", "died", "expire"}

\* What a call in the middle of a launch, a recovery or a verdict goes by: the
\* entry still has the nonce it read, no process works that it is about to
\* supersede, and the one whose helpers it salvages is gone.
CallSound(c) ==
  LET j == call[c].job  n == call[c].nonce
  IN  /\ call[c].at \in LaunchSteps \cup RecoverySteps => n = ledger[j].nonce
      /\ call[c].at \in Past =>
           n = ledger[j].nonce /\ ledger[j].state \notin {"proposed", "deployed"}
      /\ call[c].at \in LaunchSteps \cup {"rotate"} =>
           \A m \in Nonces : worker[j][m].stage # "backend"
      /\ call[c].at = "salvage" => WorkerExited(j, n)

\* A proposed job was never launched.
Unlaunched(j) ==
  ledger[j].state = "proposed" =>
    /\ ledger[j].nonce = 0 /\ ledger[j].attempt = 0
    /\ \A n \in Nonces : worker[j][n].stage = "none"

\* A process has a parent, the spec and the fence let only the current nonce
\* through, and what is published was published by a process that got so far.
WorkerSound(j, n) ==
  LET w == worker[j][n]
  IN  /\ w.stage # "none" =>
           /\ w.parent.caller \in Callers /\ w.parent.epoch <= epoch[w.parent.caller]
           /\ spec[j] = n => ledger[j].nonce = n
      /\ w.stage = "backend" => ledger[j].nonce = n
      /\ w.stage \in {"identified", "backend"} => files[j][n].receipt # NoPid
      /\ files[j][n].result # "none" => w.stage \in {"published", "exited"}

CurrentInv ==
  /\ \A c \in Callers : CallSound(c)
  /\ \A j \in Jobs : Unlaunched(j)
  /\ \A j \in Jobs, n \in Nonces : WorkerSound(j, n)

\* A result is one of done, and an entry that is owned is one of a launch.
ResultsOfDone ==
  \A j \in Jobs :
    /\ ledger[j].result # "none" => ledger[j].state = "done"
    /\ ledger[j].owned \/ ledger[j].result = "full" => ledger[j].nonce \in Nonces

\* The nonces that were launched, and the one that is about to be.
Used(j) == {n \in Nonces : worker[j][n].stage # "none" \/ n = ledger[j].nonce}
UsedBounded == \A j \in Jobs : Cardinality(Used(j)) <= ledger[j].attempt

\* For any kills, crashes and write faults.
LaunchInv == StartInv /\ CurrentInv /\ ResultsOfDone /\ ResultOfItsLaunch /\ UsedBounded

Reserving == LaunchSteps \cup {"recover", "retire", "await", "rotate"}
PreBackend == {"started", "loaded", "identified"}
Following == {"receipt", "commit", "fail"}

\* A kill on a job that has been launched holds its launch lock: none read the
\* job before its launch and goes on without the lock.
KillsLocked ==
  \A c \in Callers : call[c].at \in KillSteps /\ ledger[call[c].job].nonce # 0 => call[c].locked

\* A launch keeps its reservation; a kill that found no process to end finds
\* none later, and has closed the fence.
CallReserved(c) ==
  LET j == call[c].job
  IN  /\ call[c].at \in Reserving => ledger[j].state = "deployed"
      /\ call[c].at \in {"killFence", "killCommit"} => ledger[j].state # "running"
      /\ call[c].at = "killCommit" /\ ledger[j].state = "deployed" => spec[j] = 0

\* Who may still pass the fence, or has, belongs to a job in flight.
WorkerReserved(j, n) ==
  /\ worker[j][n].stage \in PreBackend /\ spec[j] = n => ledger[j].state \in L!InFlightStates
  /\ worker[j][n].stage = "backend" => ledger[j].state \in L!InFlightStates

\* A process of a deployed job does not get past its fence: its launcher is
\* still at work under the lock, or is dead.
WorkerAttended(j, n) ==
  ledger[j].state = "deployed" =>
    /\ worker[j][n].stage # "backend"
    /\ worker[j][n].stage \in PreBackend /\ spec[j] = n /\ ParentAlive(j, n) =>
         LET c == worker[j][n].parent.caller
         IN  call[c].at \in Following /\ call[c].job = j /\ call[c].nonce = n

\* Only a caller that may kill is in a step of a kill.
KillersOnly == \A c \in Callers : call[c].at \in KillSteps => c \in Killers

\* For kills under the lock.  A transaction that fails leaves a process behind
\* that nobody attends.
SlotInv ==
  /\ \A c \in Callers : CallReserved(c)
  /\ \A j \in Jobs, n \in Nonces : WorkerReserved(j, n)
  /\ ~WriteFaults => \A j \in Jobs, n \in Nonces : WorkerAttended(j, n)

-----------------------------------------------------------------------------
(* What the steps of a caller leave alone *)

StagesKept ==
  \A j \in Jobs, n \in Nonces : /\ worker'[j][n].stage = worker[j][n].stage
                                /\ worker'[j][n].parent = worker[j][n].parent

\* Results stay as they are, and no receipt is withdrawn.
ArtifactsKept ==
  \A j \in Jobs, n \in Nonces :
    /\ files'[j][n].result = files[j][n].result
    /\ files[j][n].receipt # NoPid => files'[j][n].receipt # NoPid

\* The nonce and the attempts are kept, and no job begins to be in flight.
EntryKept(j) ==
  /\ ledger'[j].nonce = ledger[j].nonce /\ ledger'[j].attempt = ledger[j].attempt
  /\ ledger'[j].state \in {"proposed", "deployed"} => ledger'[j].state = ledger[j].state
  /\ ledger'[j].state = "running" => ledger[j].state \in {"deployed", "running"}
  /\ ledger'[j].owned => ledger[j].owned \/ ledger[j].nonce \in Nonces

\* A result is written into done, a full one from an exited process.
ResultWritten(j) ==
  \/ ledger'[j].result = ledger[j].result /\ (ledger[j].state = "done" => ledger'[j].state = "done")
  \/ ledger'[j].result = "none"
  \/ /\ ledger'[j].state = "done"
     /\ ledger[j].nonce \in Nonces
     /\ ledger'[j].result = "full" =>
          BoundFiles(j).result = "ok" /\ WorkerExited(j, ledger[j].nonce)

\* A running job is closed once its process is gone, unless a kill that knows
\* nothing of the process does it; a deployed one is moved by the call that has
\* it at hand.
LeavesFlight(c, j) ==
  /\ ledger[j].state = "running" /\ ledger'[j].state # "running" =>
       \/ WorkerExited(j, ledger[j].nonce)
       \/ call[c].at = "killCommit" /\ call[c].job = j
  /\ ledger[j].state = "deployed" /\ ledger'[j].state # "deployed" =>
       /\ call[c].job = j
       /\ \/ ledger'[j].state = "running" /\ call[c].at \in {"commit", "recover", "retire", "await"}
          \/ call[c].at \in {"fail", "rotate"} /\ spec'[j] = 0
          \/ call[c].at = "killCommit"

LedgerFrame(c) == \A j \in Jobs : EntryKept(j) /\ ResultWritten(j) /\ LeavesFlight(c, j)

\* What a call that goes on takes for granted.
Reserves(c) ==
  call'[c].at \in Reserving =>
    /\ UNCHANGED ledger
    /\ \/ ledger[call'[c].job].state = "deployed"
       \/ call[c].at \in Reserving /\ call'[c].job = call[c].job

Fences(c) ==
  /\ call'[c].at \in {"killFence", "killCommit"} =>
       \/ ledger'[call'[c].job].state # "running"
       \/ UNCHANGED ledger /\ call[c].at = "killFence" /\ call'[c].job = call[c].job
  /\ call'[c].at = "killCommit" /\ ledger'[call'[c].job].state = "deployed" =>
       spec'[call'[c].job] = 0

Kills(c) == call'[c].at \in KillSteps => c \in Killers \/ call[c].at \in KillSteps

Follows(c) ==
  call[c].at \in Following =>
    \/ call'[c].at \in Following /\ call'[c].job = call[c].job /\ call'[c].nonce = call[c].nonce
    \/ epoch'[c] > epoch[c]
    \/ WriteFaults
    \/ ledger'[call[c].job].state # "deployed"

CallFrame(c) == OthersWait(c) /\ CallSound(c)' /\ Reserves(c) /\ Fences(c) /\ Kills(c) /\ Follows(c)

EpochsGrow == \A c \in Callers : epoch[c] <= epoch'[c]
SpecsFenced == \A j \in Jobs : spec'[j] \in {spec[j], 0}

\* A step that launches nothing and starts no process.
QuietStep(c) ==
  StagesKept /\ ArtifactsKept /\ LedgerFrame(c) /\ CallFrame(c) /\ EpochsGrow /\ SpecsFenced

-----------------------------------------------------------------------------
(* Quiet steps keep the invariants *)

\* What a call goes by stays as it is.
LEMMA QuietCurrent ==
  ASSUME TypeInv, TypeInv', CurrentInv, NEW c \in Callers, QuietStep(c)
  PROVE  CurrentInv'
<1> USE DEF CurrentInv, QuietStep, StagesKept, ArtifactsKept, LedgerFrame, EntryKept
<1>1. ASSUME NEW d \in Callers PROVE CallSound(d)'
  <2>1. CASE d = c
    BY <2>1 DEF CallFrame
  <2>2. CASE d # c
    <3>1. call'[d] = call[d]
      BY <2>2 DEF CallFrame, OthersWait
    <3>2. CASE call[d].at = "idle"
      BY <3>1, <3>2 DEF CallSound, LaunchSteps, RecoverySteps, Past
    <3>3. CASE call[d].at # "idle"
      <4>1. /\ call[d].job \in Jobs
            /\ call[d].at \in LaunchSteps \cup RecoverySteps => call[d].nonce \in Nonces
        BY <3>3, CallFacts
      <4>2. CallSound(d)
        OBVIOUS
      <4> QED
        BY <3>1, <4>1, <4>2 DEF CallSound, WorkerExited, RecoverySteps
    <3> QED
      BY <3>2, <3>3
  <2> QED
    BY <2>1, <2>2
<1>2. ASSUME NEW j \in Jobs PROVE Unlaunched(j)'
  BY DEF Unlaunched
<1>3. ASSUME NEW j \in Jobs, NEW n \in Nonces PROVE WorkerSound(j, n)'
  <2>1. WorkerSound(j, n) /\ spec'[j] \in {spec[j], 0} /\ n # 0
    BY DEF SpecsFenced, Nonces
  <2>2. worker[j][n].parent.caller \in Callers =>
          epoch[worker[j][n].parent.caller] <= epoch'[worker[j][n].parent.caller]
    BY DEF EpochsGrow
  <2>3. \A d \in Callers : epoch[d] \in Nat /\ epoch'[d] \in Nat
    BY NumbersAssumption DEF TypeInv, Epochs
  <2>4. worker[j][n].parent.epoch \in Nat
    <3>1. worker[j][n] \in WorkerStates
      BY DEF TypeInv
    <3>2. worker[j][n].parent \in Pids
      BY <3>1 DEF WorkerStates
    <3> QED
      BY <3>2, NumbersAssumption DEF Pids, Epochs
  <2> QED
    BY <2>1, <2>2, <2>3, <2>4 DEF WorkerSound
<1> QED
  BY <1>1, <1>2, <1>3

\* A full result stays bound to the success of its process.
LEMMA QuietResults ==
  ASSUME TypeInv, ResultsOfDone, ResultOfItsLaunch, NEW c \in Callers, QuietStep(c)
  PROVE  ResultsOfDone' /\ ResultOfItsLaunch'
<1> SUFFICES ASSUME NEW j \in Jobs
             PROVE  /\ ledger'[j].result # "none" => ledger'[j].state = "done"
                    /\ ledger'[j].owned \/ ledger'[j].result = "full" => ledger'[j].nonce \in Nonces
                    /\ ledger'[j].result = "full" =>
                         /\ ledger'[j].state = "done"
                         /\ files'[j][ledger'[j].nonce].result = "ok"
                         /\ worker'[j][ledger'[j].nonce].stage \in {"none", "exited"}
  BY DEF ResultsOfDone, ResultOfItsLaunch, BoundFiles, WorkerExited
<1> DEFINE n == ledger[j].nonce
<1>1. /\ ResultWritten(j) /\ ledger'[j].nonce = n
      /\ ledger'[j].owned => ledger[j].owned \/ n \in Nonces
  BY DEF QuietStep, LedgerFrame, EntryKept
<1>2. n \in Nonces => /\ files'[j][n].result = files[j][n].result
                      /\ worker'[j][n].stage = worker[j][n].stage
  BY DEF QuietStep, StagesKept, ArtifactsKept
<1>3. /\ ledger[j].result # "none" => ledger[j].state = "done"
      /\ ledger[j].owned \/ ledger[j].result = "full" => n \in Nonces
      /\ ledger[j].result = "full" =>
           files[j][n].result = "ok" /\ worker[j][n].stage \in {"none", "exited"}
  BY DEF ResultsOfDone, ResultOfItsLaunch, BoundFiles, WorkerExited
<1> QED
  BY <1>1, <1>2, <1>3 DEF ResultWritten, BoundFiles, WorkerExited
-----------------------------------------------------------------------------
(* Frames of the elementary changes *)

\* A signal changes neither stage nor parent, whatever nonce it goes to.
LEMMA SignalFrame ==
  ASSUME TypeInv, NEW j \in Jobs, NEW n, Signal(j, n)
  PROVE  StagesKept
<1> DEFINE w == [worker[j][n] EXCEPT !.signaled = TRUE]
<1>1. worker' = [worker EXCEPT ![j][n] = w]
  BY DEF Signal
<1>2. n \in Nonces => w.stage = worker[j][n].stage /\ w.parent = worker[j][n].parent
  <2>1. n \in Nonces => worker[j][n] \in WorkerStates
    BY DEF TypeInv
  <2> QED
    BY <2>1 DEF WorkerStates
<1> HIDE DEF w
<1>3. \A i \in Jobs, m \in Nonces : worker'[i][m] = IF i = j /\ m = n THEN w ELSE worker[i][m]
  BY <1>1 DEF TypeInv
<1> QED
  BY <1>2, <1>3 DEF StagesKept

\* Dropping helper evidence changes neither results nor receipts.
LEMMA DropFrame ==
  ASSUME TypeInv, NEW j \in Jobs, DropEvidence(j)
  PROVE  ArtifactsKept
<1> DEFINE k == ledger[j].nonce
           f == [files[j][k] EXCEPT !.evidence = FALSE]
<1>1. files' = [files EXCEPT ![j][k] = f]
  BY DEF DropEvidence
<1>2. k \in Nonces => f.result = files[j][k].result /\ f.receipt = files[j][k].receipt
  <2>1. k \in Nonces => files[j][k] \in FileStates
    BY DEF TypeInv
  <2> QED
    BY <2>1 DEF FileStates
<1> HIDE DEF f, k
<1>3. \A i \in Jobs, m \in Nonces : files'[i][m] = IF i = j /\ m = k THEN f ELSE files[i][m]
  BY <1>1 DEF TypeInv
<1> QED
  BY <1>2, <1>3 DEF ArtifactsKept

\* What is not touched is kept.
LEMMA KeptFrame ==
  /\ UNCHANGED worker => StagesKept
  /\ UNCHANGED files => ArtifactsKept
  /\ UNCHANGED spec => SpecsFenced
  /\ UNCHANGED ledger => \A c \in Callers : LedgerFrame(c)
  /\ TypeInv /\ UNCHANGED epoch => EpochsGrow
<1>1. TypeInv => \A c \in Callers : epoch[c] \in Nat
  BY NumbersAssumption DEF TypeInv, Epochs
<1> QED
  BY <1>1 DEF StagesKept, ArtifactsKept, SpecsFenced, LedgerFrame, EntryKept, ResultWritten,
              LeavesFlight, EpochsGrow

\* One entry is written: the frame asks something of that entry alone.
LEMMA EntryFrame ==
  ASSUME TypeInv, NEW c \in Callers, NEW j \in Jobs, NEW e, SetEntry(j, e),
         EntryKept(j), ResultWritten(j), LeavesFlight(c, j)
  PROVE  LedgerFrame(c)
<1>1. \A i \in Jobs \ {j} : ledger'[i] = ledger[i]
  BY DEF SetEntry, TypeInv
<1>2. \A i \in Jobs \ {j} : EntryKept(i) /\ ResultWritten(i) /\ LeavesFlight(c, i)
  BY <1>1 DEF EntryKept, ResultWritten, LeavesFlight
<1> QED
  BY <1>2 DEF LedgerFrame

\* A verdict, on an exited process or on a reservation that is fenced.
LEMMA ClosedFrame ==
  ASSUME TypeInv, NEW c \in Callers, NEW j \in Jobs, NEW s \in {"done", "failed", "killed"},
         NEW r \in Results, NEW note \in Notes, SetEntry(j, Closed(j, s, r, note)),
         r # "none" => /\ s = "done" /\ ledger[j].nonce \in Nonces
                       /\ r = "full" => BoundFiles(j).result = "ok" /\ WorkerExited(j, ledger[j].nonce),
         ledger[j].state = "running" =>
           \/ WorkerExited(j, ledger[j].nonce)
           \/ call[c].at = "killCommit" /\ call[c].job = j,
         ledger[j].state = "deployed" =>
           /\ call[c].job = j
           /\ \/ call[c].at \in {"fail", "rotate"} /\ spec'[j] = 0
              \/ call[c].at = "killCommit"
  PROVE  LedgerFrame(c)
<1> DEFINE e == Closed(j, s, r, note)
<1>1. ledger[j] \in Entries
  BY DEF TypeInv, GoodEntries
<1>2. /\ e.state = s /\ e.result = r
      /\ e.nonce = ledger[j].nonce /\ e.attempt = ledger[j].attempt /\ e.owned = ledger[j].owned
  BY <1>1 DEF Closed, Entries
<1>3. ledger'[j] = e
  BY DEF SetEntry, TypeInv
<1> HIDE DEF e
<1>4. EntryKept(j) /\ ResultWritten(j) /\ LeavesFlight(c, j)
  BY <1>2, <1>3 DEF EntryKept, ResultWritten, LeavesFlight
<1> QED
  BY <1>4, EntryFrame

\* Running, for a reservation that the call has at hand.
LEMMA RunningFrame ==
  ASSUME TypeInv, NEW c \in Callers, NEW j \in Jobs, SetRunning(j), ledger[j].state = "deployed",
         call[c].job = j, call[c].at \in {"commit", "recover", "retire", "await"}
  PROVE  LedgerFrame(c) /\ ledger'[j].state = "running"
<1> DEFINE e == [ledger[j] EXCEPT !.state = "running", !.owned = TRUE, !.note = "none"]
<1>1. ledger[j] \in Entries /\ ledger[j].nonce \in Nonces
  BY DEF TypeInv, GoodEntries
<1>2. /\ e.state = "running" /\ e.result = ledger[j].result
      /\ e.nonce = ledger[j].nonce /\ e.attempt = ledger[j].attempt
  BY <1>1 DEF Entries
<1>3. ledger'[j] = e
  BY DEF SetRunning, SetEntry, TypeInv
<1> HIDE DEF e
<1>4. EntryKept(j) /\ ResultWritten(j) /\ LeavesFlight(c, j)
  BY <1>1, <1>2, <1>3 DEF EntryKept, ResultWritten, LeavesFlight
<1> QED
  BY <1>2, <1>3, <1>4, EntryFrame DEF SetRunning

\* Notes and hand-offs.
LEMMA RewriteFrame ==
  ASSUME TypeInv, NEW c \in Callers, NEW j \in Jobs, NEW e, SetEntry(j, e),
         e.state = ledger[j].state, e.nonce = ledger[j].nonce, e.attempt = ledger[j].attempt,
         e.owned = ledger[j].owned, e.result = ledger[j].result
  PROVE  LedgerFrame(c) /\ ledger'[j].state = ledger[j].state
<1>1. ledger'[j] = e
  BY DEF SetEntry, TypeInv
<1>2. EntryKept(j) /\ ResultWritten(j) /\ LeavesFlight(c, j)
  BY <1>1 DEF EntryKept, ResultWritten, LeavesFlight
<1> QED
  BY <1>1, <1>2, EntryFrame

\* The harvest of an exited process.
LEMMA HarvestFrame ==
  ASSUME TypeInv, NEW c \in Callers, NEW j \in Jobs, ledger[j].state = "running",
         WorkerExited(j, ledger[j].nonce),
         HarvestSuccess(j) \/ HarvestEvidence(j) \/ HarvestFailure(j)
  PROVE  LedgerFrame(c) /\ ArtifactsKept
<1>0. ledger[j].nonce \in Nonces
  BY JobFacts
<1>1. CASE HarvestSuccess(j)
  BY <1>0, <1>1, ClosedFrame, DropFrame DEF HarvestSuccess, Results, Notes
<1>2. CASE HarvestEvidence(j)
  BY <1>0, <1>2, ClosedFrame, KeptFrame DEF HarvestEvidence, Results, Notes
<1>3. CASE HarvestFailure(j)
  BY <1>3, ClosedFrame, KeptFrame DEF HarvestFailure, Results, Notes
<1> QED
  BY <1>1, <1>2, <1>3

\* Its closing under another verdict.
LEMMA CloseExitedFrame ==
  ASSUME TypeInv, NEW c \in Callers, NEW j \in Jobs, ledger[j].state = "running",
         WorkerExited(j, ledger[j].nonce),
         NEW s \in {"failed", "killed"}, NEW note \in Notes, CloseExited(j, s, note)
  PROVE  LedgerFrame(c) /\ ArtifactsKept
<1>1. CASE HarvestSuccess(j) \/ HarvestEvidence(j)
  BY <1>1, HarvestFrame
<1>2. CASE SetEntry(j, Closed(j, s, "none", note)) /\ UNCHANGED files
  BY <1>2, ClosedFrame, KeptFrame DEF Results
<1> QED
  BY <1>1, <1>2 DEF CloseExited

\* A call that returns takes nothing for granted.
LEMMA ReturnFrame ==
  ASSUME TypeInv, NEW c \in Callers, Return(c), Follows(c)
  PROVE  CallFrame(c)
BY ReturnFacts
DEF CallFrame, CallSound, Reserves, Fences, Kills, Idle, LaunchSteps, RecoverySteps, KillSteps,
    Reserving, Past

\* A call that was not following a launch has nothing to keep up.
LEMMA NotFollowing ==
  ASSUME NEW c \in Callers, call[c].at \notin Following
  PROVE  Follows(c)
BY DEF Follows

\* A call that goes on, with what the next step takes for granted.
LEMMA MoveFrame ==
  ASSUME TypeInv, CurrentInv, NEW c \in Callers, NEW s \in Steps, s # "idle",
         OthersWait(c),
         call'[c].at = s, call'[c].job = call[c].job, call'[c].nonce = call[c].nonce,
         call[c].at # "idle", StagesKept, LedgerFrame(c), Follows(c),
         s \in LaunchSteps \cup RecoverySteps => call[c].at \in LaunchSteps \cup RecoverySteps,
         s \in Past => call[c].at \in Past,
         s \in LaunchSteps \cup {"rotate"} =>
           \/ call[c].at \in LaunchSteps \cup {"rotate"}
           \/ \A m \in Nonces : worker[call[c].job][m].stage # "backend",
         s = "salvage" => WorkerExited(call[c].job, call[c].nonce),
         s \in Reserving => UNCHANGED ledger /\ call[c].at \in Reserving,
         s \in {"killFence", "killCommit"} =>
           UNCHANGED ledger /\ call[c].at = "killFence" /\ spec'[call[c].job] = 0,
         s \in KillSteps => call[c].at \in KillSteps
  PROVE  CallFrame(c)
<1>1. /\ call[c].job \in Jobs
      /\ call[c].at \in LaunchSteps \cup RecoverySteps => call[c].nonce \in Nonces
  BY CallFacts
<1>2. CallSound(c) /\ EntryKept(call[c].job)
  BY <1>1 DEF CurrentInv, LedgerFrame
<1>3. CallSound(c)'
  BY <1>1, <1>2 DEF CallSound, StagesKept, EntryKept, WorkerExited, RecoverySteps
<1>4. Reserves(c)
  BY DEF Reserves
<1>5. Fences(c)
  BY DEF Fences
<1>6. Kills(c)
  BY DEF Kills
<1> QED
  BY <1>3, <1>4, <1>5, <1>6 DEF CallFrame

\* The same, for a call whose step alone changes, with what the next step takes for granted.
LEMMA GotoFrame ==
  ASSUME TypeInv, CurrentInv, NEW c \in Callers, NEW s \in Steps, Goto(c, s), s # "idle",
         call[c].at # "idle", StagesKept, LedgerFrame(c), Follows(c),
         s \in LaunchSteps \cup RecoverySteps => call[c].at \in LaunchSteps \cup RecoverySteps,
         s \in Past => call[c].at \in Past,
         s \in LaunchSteps \cup {"rotate"} =>
           \/ call[c].at \in LaunchSteps \cup {"rotate"}
           \/ \A m \in Nonces : worker[call[c].job][m].stage # "backend",
         s = "salvage" => WorkerExited(call[c].job, call[c].nonce),
         s \in Reserving => UNCHANGED ledger /\ call[c].at \in Reserving,
         s \in {"killFence", "killCommit"} =>
           UNCHANGED ledger /\ call[c].at = "killFence" /\ spec'[call[c].job] = 0,
         s \in KillSteps => call[c].at \in KillSteps
  PROVE  CallFrame(c)
BY MoveFrame, GotoFacts

\* A call that begins, by what it read.
LEMMA BeginFrame ==
  ASSUME TypeInv, NEW c \in Callers, NEW r, call' = [call EXCEPT ![c] = r], call[c] = Idle,
         r.job \in Jobs,
         r.at \in {"recover", "kill", "died", "expire"},
         r.at # "kill" => r.nonce = ledger'[r.job].nonce,
         r.at = "kill" => c \in Killers,
         r.at \in Past => ledger'[r.job].state \notin {"proposed", "deployed"},
         r.at = "recover" => UNCHANGED ledger /\ ledger[r.job].state = "deployed"
  PROVE  CallFrame(c)
<1>1. OthersWait(c) /\ call'[c] = r
  BY DEF TypeInv, OthersWait
<1>2. call[c].at = "idle"
  BY DEF Idle
<1> USE DEF LaunchSteps, RecoverySteps, KillSteps, Reserving, Following, Past
<1>3. CallSound(c)'
  BY <1>1 DEF CallSound
<1>4. Reserves(c) /\ Fences(c) /\ Kills(c) /\ Follows(c)
  BY <1>1, <1>2 DEF Reserves, Fences, Kills, Follows
<1> QED
  BY <1>1, <1>3, <1>4 DEF CallFrame
\* A step outside any call.
LEMMA StayFrame ==
  ASSUME TypeInv, NEW c \in Callers, call[c] = Idle, UNCHANGED call
  PROVE  CallFrame(c)
BY DEF CallFrame, OthersWait, CallSound, Reserves, Fences, Kills, Follows, Idle, LaunchSteps,
       RecoverySteps, KillSteps, Reserving, Following, Past

\* A fence that is closed.
LEMMA FenceFrame ==
  ASSUME TypeInv, NEW j \in Jobs, spec' = [spec EXCEPT ![j] = 0]
  PROVE  SpecsFenced /\ spec'[j] = 0
BY DEF SpecsFenced, TypeInv

\* A receipt is published.
LEMMA ReceiptFrame ==
  ASSUME TypeInv, NEW c \in Callers, NEW j \in Jobs, NEW n \in Nonces,
         files' = [files EXCEPT ![j][n].receipt = Pid(c)]
  PROVE  ArtifactsKept
<1> DEFINE f == [files[j][n] EXCEPT !.receipt = Pid(c)]
<1>1. files' = [files EXCEPT ![j][n] = f]
  OBVIOUS
<1>2. f.result = files[j][n].result /\ f.receipt = Pid(c)
  BY DEF TypeInv, FileStates
<1>3. Pid(c) # NoPid
  BY NoneAssumption DEF Pid, NoPid
<1> HIDE DEF f
<1>4. \A i \in Jobs, m \in Nonces : files'[i][m] = IF i = j /\ m = n THEN f ELSE files[i][m]
  BY <1>1 DEF TypeInv
<1> QED
  BY <1>2, <1>3, <1>4 DEF ArtifactsKept

-----------------------------------------------------------------------------
(* The quiet steps of a launch *)

\* Reading again, publishing the receipt, giving up, committing and failing.
LEMMA LaunchQuiet ==
  ASSUME StartInv, CurrentInv, NEW c \in Callers,
         \/ Recheck(c) \/ PublishReceipt(c) \/ LaunchRaises(c)
         \/ FailLaunch(c) \/ CommitRunning(c)
  PROVE  QuietStep(c)
<1> USE DEF StartInv
<1> DEFINE j == call[c].job
<1>1. /\ j \in Jobs /\ call[c].nonce \in Nonces /\ call[c].nonce = ledger[j].nonce
      /\ call[c].at \in LaunchSteps \cup RecoverySteps
  <2>1. call[c].at \in LaunchSteps \cup RecoverySteps
    BY DEF Recheck, PublishReceipt, LaunchRaises, FailLaunch, CommitRunning,
           LaunchSteps, RecoverySteps
  <2>2. CallSound(c)
    BY DEF CurrentInv
  <2> QED
    BY <2>1, <2>2, CallFacts DEF CallSound, LaunchSteps, RecoverySteps
<1>2. StillReserved(c) <=> ledger[j].state = "deployed"
  BY <1>1 DEF StillReserved
<1>3. UNCHANGED epoch /\ ArtifactsKept
  BY <1>1, ReceiptFrame, KeptFrame
  DEF Recheck, PublishReceipt, LaunchRaises, FailLaunch, CommitRunning
<1>4. ArtifactsKept /\ EpochsGrow
  BY <1>3, KeptFrame
<1>5. CASE Recheck(c)
  <2>1. UNCHANGED <<ledger, spec, worker>> /\ call[c].at = "recheck"
    BY <1>5 DEF Recheck
  <2>2. StagesKept /\ LedgerFrame(c) /\ SpecsFenced /\ Follows(c)
    BY <2>1, KeptFrame, NotFollowing DEF Following
  <2>3. CASE Goto(c, "write")
    BY <2>1, <2>2, <2>3, GotoFrame, <1>4
    DEF QuietStep, Steps, LaunchSteps, RecoverySteps, KillSteps, Past, Reserving
  <2>4. CASE Return(c)
    BY <2>2, <2>4, ReturnFrame, <1>4 DEF QuietStep
  <2> QED
    BY <1>5, <2>3, <2>4 DEF Recheck
<1>6. CASE LaunchRaises(c)
  <2>1. UNCHANGED <<ledger, spec, worker>> /\ call[c].at \in {"write", "spawn", "receipt"} /\ Goto(c, "fail")
    BY <1>6 DEF LaunchRaises
  <2>2. StagesKept /\ LedgerFrame(c) /\ SpecsFenced
    BY <2>1, KeptFrame
  <2>3. Follows(c)
    BY <2>1, GotoFacts DEF Follows, Following
  <2> QED
    BY <2>1, <2>2, <2>3, GotoFrame, <1>4
    DEF QuietStep, Steps, LaunchSteps, RecoverySteps, KillSteps, Past, Reserving
<1>7. CASE FailLaunch(c)
  <2>1. Return(c) /\ UNCHANGED worker /\ call[c].at = "fail"
    BY <1>7 DEF FailLaunch
  <2>2. CASE ledger[j].state = "deployed"
    <3>1. spec' = [spec EXCEPT ![j] = 0] /\ SetEntry(j, Closed(j, "failed", "none", "none"))
      BY <1>2, <1>7, <2>2 DEF FailLaunch
    <3>2. SpecsFenced /\ spec'[j] = 0
      BY <1>1, <3>1, FenceFrame
    <3>3. LedgerFrame(c)
      BY <1>1, <2>1, <2>2, <3>1, <3>2, ClosedFrame DEF Results, Notes
    <3>4. ledger'[j].state = "failed"
      BY <1>1, <3>1 DEF SetEntry, Closed, TypeInv, GoodEntries, Entries
    <3>5. Follows(c)
      BY <3>4 DEF Follows
    <3> QED
      BY <2>1, <3>2, <3>3, <3>5, ReturnFrame, KeptFrame, <1>4 DEF QuietStep
  <2>3. CASE ledger[j].state # "deployed"
    <3>1. UNCHANGED <<ledger, spec>>
      BY <1>2, <1>7, <2>3 DEF FailLaunch
    <3>2. Follows(c)
      BY <2>3, <3>1 DEF Follows
    <3> QED
      BY <2>1, <3>1, <3>2, ReturnFrame, KeptFrame, <1>4 DEF QuietStep
  <2> QED
    BY <2>2, <2>3
<1>8. CASE CommitRunning(c)
  <2>1. Return(c) /\ UNCHANGED spec /\ call[c].at = "commit"
    BY <1>8 DEF CommitRunning
  <2>2. CASE ledger[j].state = "deployed"
    <3>1. SetRunning(j) /\ UNCHANGED worker
      BY <1>2, <1>8, <2>2 DEF CommitRunning
    <3>2. LedgerFrame(c) /\ ledger'[j].state = "running"
      BY <1>1, <2>1, <2>2, <3>1, RunningFrame
    <3>3. Follows(c)
      BY <3>2 DEF Follows
    <3> QED
      BY <2>1, <3>1, <3>2, <3>3, ReturnFrame, KeptFrame, <1>4 DEF QuietStep
  <2>3. CASE ledger[j].state # "deployed"
    <3>1. UNCHANGED ledger /\ (UNCHANGED worker \/ Signal(j, call[c].nonce))
      BY <1>2, <1>8, <2>3 DEF CommitRunning
    <3>2. StagesKept
      BY <1>1, <3>1, SignalFrame, KeptFrame
    <3>3. Follows(c)
      BY <2>3, <3>1 DEF Follows
    <3> QED
      BY <2>1, <3>1, <3>2, <3>3, ReturnFrame, KeptFrame, <1>4 DEF QuietStep
  <2> QED
    BY <2>2, <2>3
<1>9. CASE PublishReceipt(c)
  <2>1. UNCHANGED <<ledger, spec, worker>> /\ call[c].at = "receipt" /\ Goto(c, "commit")
    BY <1>9 DEF PublishReceipt
  <2>2. Follows(c)
    BY <2>1, GotoFacts DEF Follows, Following
  <2> QED
    BY <2>1, <2>2, KeptFrame, GotoFrame, <1>4
    DEF QuietStep, Steps, LaunchSteps, RecoverySteps, KillSteps, Past, Reserving
<1> QED
  BY <1>5, <1>6, <1>7, <1>8, <1>9

-----------------------------------------------------------------------------
(* The quiet steps of a recovery *)

\* The branch of a rotation that draws a nonce.
Rotates(c) == StillReserved(c) /\ ledger[call[c].job].attempt < MaxAttempts

\* A call in the middle of a recovery has the nonce of its entry, which alone
\* may have a process that works.
LEMMA RecoveryFacts ==
  ASSUME StartInv, CurrentInv, NEW c \in Callers, call[c].at \in RecoverySteps
  PROVE  /\ call[c].job \in Jobs /\ call[c].nonce \in Nonces
         /\ call[c].nonce = ledger[call[c].job].nonce
         /\ StillReserved(c) <=> ledger[call[c].job].state = "deployed"
         /\ \A m \in Nonces :
              worker[call[c].job][m].stage = "backend" =>
                m = call[c].nonce /\ files[call[c].job][m].receipt # NoPid
<1>1. call[c].at # "idle" /\ call[c].at \in LaunchSteps \cup RecoverySteps
  BY DEF RecoverySteps
<1>2. call[c].job \in Jobs /\ call[c].nonce \in Nonces
  BY <1>1, CallFacts DEF StartInv
<1>3. call[c].nonce = ledger[call[c].job].nonce
  BY <1>1 DEF CurrentInv, CallSound
<1>4. StillReserved(c) <=> ledger[call[c].job].state = "deployed"
  BY <1>3 DEF StillReserved
<1>5. ASSUME NEW m \in Nonces, worker[call[c].job][m].stage = "backend"
      PROVE  m = call[c].nonce /\ files[call[c].job][m].receipt # NoPid
  BY <1>2, <1>3, <1>5 DEF CurrentInv, WorkerSound
<1> QED
  BY <1>2, <1>3, <1>4, <1>5

\* The old process is gone.
LEMMA RetiredQuiet ==
  ASSUME StartInv, CurrentInv, NEW c \in Callers, call[c].at \in {"retire", "await"},
         AfterRetirement(c), WorkerExited(call[c].job, call[c].nonce),
         UNCHANGED <<spec, worker, files, epoch>>
  PROVE  QuietStep(c)
<1> USE DEF StartInv
<1> DEFINE j == call[c].job
<1>1. /\ j \in Jobs /\ call[c].nonce \in Nonces /\ call[c].nonce = ledger[j].nonce
      /\ StillReserved(c) <=> ledger[j].state = "deployed"
      /\ \A m \in Nonces : worker[j][m].stage # "backend"
  BY RecoveryFacts DEF RecoverySteps, WorkerExited
<1>2. StagesKept /\ ArtifactsKept /\ EpochsGrow /\ SpecsFenced /\ Follows(c)
  BY KeptFrame, NotFollowing DEF Following
<1>3. CASE Goto(c, "rotate") /\ UNCHANGED ledger
  BY <1>1, <1>2, <1>3, KeptFrame, GotoFrame
  DEF QuietStep, Steps, LaunchSteps, RecoverySteps, KillSteps, Past, Reserving
<1>4. CASE StillReserved(c) /\ SetRunning(j) /\ Goto(c, "salvage")
  <2>1. LedgerFrame(c)
    BY <1>1, <1>4, RunningFrame
  <2> QED
    BY <1>1, <1>2, <1>4, <2>1, GotoFrame
    DEF QuietStep, Steps, LaunchSteps, RecoverySteps, KillSteps, Past, Reserving
<1>5. CASE Return(c) /\ UNCHANGED ledger
  BY <1>2, <1>5, KeptFrame, ReturnFrame DEF QuietStep
<1> QED
  BY <1>3, <1>4, <1>5 DEF AfterRetirement

\* A recovery up to its harvest, and a rotation that draws no nonce.
LEMMA RecoveryQuiet ==
  ASSUME StartInv, CurrentInv, NEW c \in Callers,
         \/ RecoverUnidentified(c) \/ RecoverAdopt(c) \/ RecoverRetire(c) \/ Retire(c)
         \/ AwaitRetirement(c) \/ Salvage(c) \/ HarvestAdopted(c)
         \/ RotateNonce(c) /\ ~Rotates(c)
  PROVE  QuietStep(c)
<1> USE DEF StartInv
<1> DEFINE j == call[c].job
           n == call[c].nonce
<1>1. call[c].at \in RecoverySteps
  BY DEF RecoverUnidentified, RecoverAdopt, RecoverRetire, Retire, AwaitRetirement, Salvage,
         HarvestAdopted, RotateNonce, RecoverySteps
<1>2. /\ j \in Jobs /\ n \in Nonces /\ n = ledger[j].nonce
      /\ StillReserved(c) <=> ledger[j].state = "deployed"
      /\ \A m \in Nonces : worker[j][m].stage = "backend" => m = n /\ files[j][m].receipt # NoPid
  BY <1>1, RecoveryFacts
<1>3. Follows(c)
  BY <1>1, NotFollowing DEF Following, RecoverySteps
<1>4. UNCHANGED epoch /\ EpochsGrow
  <2>1. UNCHANGED epoch
    BY DEF RecoverUnidentified, RecoverAdopt, RecoverRetire, Retire, AwaitRetirement, Salvage,
           HarvestAdopted, RotateNonce
  <2> QED
    BY <2>1, KeptFrame
<1>5. CASE RecoverUnidentified(c)
  <2>1. /\ UNCHANGED <<ledger, spec, worker, files>> /\ call[c].at = "recover"
        /\ files[j][n].receipt = NoPid
    BY <1>5 DEF RecoverUnidentified
  <2>2. CASE Goto(c, "rotate")
    BY <1>2, <1>3, <1>4, <2>1, <2>2, KeptFrame, GotoFrame
    DEF QuietStep, Steps, LaunchSteps, RecoverySteps, KillSteps, Past, Reserving
  <2>3. CASE Return(c)
    BY <1>3, <1>4, <2>1, <2>3, KeptFrame, ReturnFrame DEF QuietStep
  <2> QED
    BY <1>5, <2>2, <2>3 DEF RecoverUnidentified
<1>6. CASE RecoverAdopt(c)
  <2>1. UNCHANGED <<spec, worker, files>> /\ call[c].at = "recover"
    BY <1>6 DEF RecoverAdopt
  <2>2. CASE StillReserved(c) /\ SetRunning(j) /\ Goto(c, "harvest")
    <3>1. LedgerFrame(c)
      BY <1>2, <2>1, <2>2, RunningFrame
    <3> QED
      BY <1>3, <1>4, <2>1, <2>2, <3>1, KeptFrame, GotoFrame
      DEF QuietStep, Steps, LaunchSteps, RecoverySteps, KillSteps, Past, Reserving
  <2>3. CASE Return(c) /\ UNCHANGED ledger
    BY <1>3, <1>4, <2>1, <2>3, KeptFrame, ReturnFrame DEF QuietStep
  <2> QED
    BY <1>6, <2>2, <2>3 DEF RecoverAdopt
<1>7. CASE RecoverRetire(c)
  <2>1. /\ UNCHANGED <<ledger, spec, worker, files>> /\ call[c].at = "recover"
        /\ OthersWait(c)
        /\ call'[c].at = "retire" /\ call'[c].job = j /\ call'[c].nonce = n
    BY <1>7 DEF RecoverRetire, OthersWait, TypeInv, GoodCalls, Calls
  <2> QED
    BY <1>3, <1>4, <2>1, KeptFrame, MoveFrame
    DEF QuietStep, Steps, LaunchSteps, RecoverySteps, KillSteps, Past, Reserving
<1>8. CASE Retire(c)
  <2>1. UNCHANGED <<spec, files>> /\ call[c].at = "retire"
    BY <1>8 DEF Retire
  <2>2. CASE WorkerExited(j, n) /\ AfterRetirement(c) /\ UNCHANGED worker
    BY <1>4, <2>1, <2>2, RetiredQuiet
  <2>3. CASE Signal(j, n) /\ Goto(c, "await") /\ UNCHANGED ledger
    <3>1. StagesKept
      BY <1>2, <2>3, SignalFrame
    <3> QED
      BY <1>3, <1>4, <2>1, <2>3, <3>1, KeptFrame, GotoFrame
      DEF QuietStep, Steps, LaunchSteps, RecoverySteps, KillSteps, Past, Reserving
  <2>4. CASE Return(c) /\ UNCHANGED <<ledger, worker>>
    BY <1>3, <1>4, <2>1, <2>4, KeptFrame, ReturnFrame DEF QuietStep
  <2> QED
    BY <1>8, <2>2, <2>3, <2>4 DEF Retire
<1>9. CASE AwaitRetirement(c)
  <2>1. UNCHANGED <<spec, worker, files>> /\ call[c].at = "await"
    BY <1>9 DEF AwaitRetirement
  <2>2. CASE WorkerExited(j, n) /\ AfterRetirement(c)
    BY <1>4, <2>1, <2>2, RetiredQuiet
  <2>3. CASE Return(c) /\ UNCHANGED ledger
    BY <1>3, <1>4, <2>1, <2>3, KeptFrame, ReturnFrame DEF QuietStep
  <2> QED
    BY <1>9, <2>2, <2>3 DEF AwaitRetirement
<1>10. CASE Salvage(c)
  <2>1. UNCHANGED <<spec, worker, files>> /\ call[c].at = "salvage" /\ Return(c)
    BY <1>10 DEF Salvage
  <2>2. WorkerExited(j, ledger[j].nonce)
    BY <1>2, <2>1 DEF CurrentInv, CallSound
  <2>3. LedgerFrame(c)
    <3>1. CASE Running(j) /\ SetEntry(j, Closed(j, "done", "partial", "none"))
      BY <1>2, <2>2, <3>1, ClosedFrame DEF Running, Results, Notes
    <3>2. CASE UNCHANGED ledger
      BY <3>2, KeptFrame
    <3> QED
      BY <1>10, <3>1, <3>2 DEF Salvage
  <2> QED
    BY <1>3, <1>4, <2>1, <2>3, KeptFrame, ReturnFrame DEF QuietStep
<1>11. CASE HarvestAdopted(c)
  <2>1. UNCHANGED <<spec, worker>> /\ Return(c)
    BY <1>11 DEF HarvestAdopted
  <2>2. LedgerFrame(c) /\ ArtifactsKept
    <3>1. CASE Harvestable(j) /\ (HarvestSuccess(j) \/ HarvestEvidence(j) \/ HarvestFailure(j))
      BY <1>2, <3>1, HarvestFrame DEF Harvestable, Running
    <3>2. CASE UNCHANGED <<ledger, files>>
      BY <3>2, KeptFrame
    <3> QED
      BY <1>11, <3>1, <3>2 DEF HarvestAdopted
  <2> QED
    BY <1>3, <1>4, <2>1, <2>2, KeptFrame, ReturnFrame DEF QuietStep
<1>12. CASE RotateNonce(c) /\ ~Rotates(c)
  <2>1. UNCHANGED <<worker, files>> /\ call[c].at = "rotate"
    BY <1>12 DEF RotateNonce
  <2>2. CASE ~StillReserved(c)
    <3>1. Return(c) /\ UNCHANGED <<ledger, spec>>
      BY <1>12, <2>2 DEF RotateNonce
    <3> QED
      BY <1>3, <1>4, <2>1, <3>1, KeptFrame, ReturnFrame DEF QuietStep
  <2>3. CASE StillReserved(c)
    <3>1. ~(ledger[j].attempt < MaxAttempts)
      BY <1>12, <2>3 DEF Rotates
    <3>2. /\ Return(c)
          /\ spec' = [spec EXCEPT ![j] = 0] /\ SetEntry(j, Closed(j, "failed", "none", "none"))
      BY <1>12, <2>3, <3>1 DEF RotateNonce
    <3>3. SpecsFenced /\ spec'[j] = 0
      BY <1>2, <3>2, FenceFrame
    <3>4. LedgerFrame(c)
      BY <1>2, <2>1, <2>3, <3>2, <3>3, ClosedFrame DEF Results, Notes
    <3> QED
      BY <1>3, <1>4, <2>1, <3>2, <3>3, <3>4, KeptFrame, ReturnFrame DEF QuietStep
  <2> QED
    BY <2>2, <2>3
<1> QED
  BY <1>5, <1>6, <1>7, <1>8, <1>9, <1>10, <1>11, <1>12

-----------------------------------------------------------------------------
(* The quiet steps that begin a call *)

\* A call begins by what it read, and changes no entry but its note.
LEMMA BeginsQuiet ==
  ASSUME StartInv, NEW c \in Callers, NEW j \in Jobs,
         \/ DeployAsync(c, j) /\ ledger[j].state # "proposed"
         \/ ReconcileDeployed(c, j) \/ FindNothing(c, j) \/ MarkExpired(c, j) \/ BeginKill(c, j)
  PROVE  QuietStep(c)
<1> USE DEF StartInv
<1>1. UNCHANGED <<spec, worker, files, epoch>> /\ call[c] = Idle
  BY DEF DeployAsync, ReconcileDeployed, FindNothing, MarkExpired, BeginKill
<1>2. StagesKept /\ ArtifactsKept /\ SpecsFenced /\ EpochsGrow
  BY <1>1, KeptFrame
<1>3. ASSUME ledger[j].state = "deployed", UNCHANGED ledger,
             call' = [call EXCEPT ![c] = [at |-> "recover", job |-> j, nonce |-> ledger[j].nonce,
                                          locked |-> TRUE, evidence |-> FALSE]]
      PROVE  QuietStep(c)
  <2> DEFINE r == [at |-> "recover", job |-> j, nonce |-> ledger[j].nonce,
                   locked |-> TRUE, evidence |-> FALSE]
  <2>1. call' = [call EXCEPT ![c] = r] /\ r.at = "recover" /\ r.job = j /\ r.nonce = ledger[j].nonce
    BY <1>3
  <2> HIDE DEF r
  <2>2. CallFrame(c)
    BY <1>1, <1>3, <2>1, BeginFrame DEF Past
  <2> QED
    BY <1>2, <1>3, <2>2, KeptFrame DEF QuietStep
<1>4. ASSUME NEW s \in {"died", "expire"}, ledger'[j].state = "running",
             ledger'[j].nonce = ledger[j].nonce,
             call' = [call EXCEPT ![c] = [at |-> s, job |-> j, nonce |-> ledger[j].nonce,
                                          locked |-> FALSE, evidence |-> FALSE]]
      PROVE  CallFrame(c)
  <2> DEFINE r == [at |-> s, job |-> j, nonce |-> ledger[j].nonce,
                   locked |-> FALSE, evidence |-> FALSE]
  <2>1. call' = [call EXCEPT ![c] = r] /\ r.at = s /\ r.job = j /\ r.nonce = ledger[j].nonce
    BY <1>4
  <2> HIDE DEF r
  <2> QED
    BY <1>1, <1>4, <2>1, BeginFrame
<1>5. CASE DeployAsync(c, j) /\ ledger[j].state # "proposed"
  BY <1>3, <1>5 DEF DeployAsync
<1>6. CASE ReconcileDeployed(c, j)
  BY <1>3, <1>6 DEF ReconcileDeployed
<1>7. CASE FindNothing(c, j)
  BY <1>2, <1>4, <1>7, KeptFrame DEF FindNothing, Running, QuietStep
<1>8. CASE MarkExpired(c, j)
  <2> DEFINE e == [ledger[j] EXCEPT !.note = "pending"]
  <2>1. SetEntry(j, e) /\ ledger[j].state = "running"
    BY <1>8 DEF MarkExpired, Running
  <2>2. /\ e.state = ledger[j].state /\ e.nonce = ledger[j].nonce /\ e.attempt = ledger[j].attempt
        /\ e.owned = ledger[j].owned /\ e.result = ledger[j].result
    BY DEF TypeInv, GoodEntries, Entries
  <2> HIDE DEF e
  <2>3. LedgerFrame(c) /\ ledger'[j].state = "running"
    BY <2>1, <2>2, RewriteFrame
  <2>4. ledger'[j].nonce = ledger[j].nonce
    BY <2>3 DEF LedgerFrame, EntryKept
  <2> QED
    BY <1>2, <1>4, <1>8, <2>3, <2>4 DEF MarkExpired, QuietStep
<1>9. CASE BeginKill(c, j)
  <2> DEFINE r == [at |-> "kill", job |-> j, nonce |-> 0,
                   locked |-> ledger[j].nonce # 0, evidence |-> FALSE]
  <2>1. call' = [call EXCEPT ![c] = r] /\ r.at = "kill" /\ r.job = j
    BY <1>9 DEF BeginKill
  <2>2. UNCHANGED ledger /\ c \in Killers
    BY <1>9 DEF BeginKill
  <2> HIDE DEF r
  <2>3. CallFrame(c)
    BY <1>1, <2>1, <2>2, BeginFrame DEF Past
  <2> QED
    BY <1>2, <2>2, <2>3, KeptFrame DEF QuietStep
<1> QED
  BY <1>5, <1>6, <1>7, <1>8, <1>9

-----------------------------------------------------------------------------
(* The quiet steps on jobs that are running or closed *)

\* Overturning a verdict by older artifacts of the exited process.
LEMMA RestoredFrame ==
  ASSUME TypeInv, ResultsOfDone, NEW c \in Callers, NEW j \in Jobs, RecoverArtifact(c, j)
  PROVE  LedgerFrame(c) /\ ArtifactsKept
<1>1. /\ ledger[j].owned /\ WorkerExited(j, ledger[j].nonce)
      /\ ledger[j].state \in {"killed", "failed"}
  BY DEF RecoverArtifact, Recoverable, RecoverableResult, RecoverableEvidence
<1>2. ledger[j].nonce \in Nonces
  BY <1>1 DEF ResultsOfDone
<1>3. ASSUME NEW r \in {"full", "partial"}, SetEntry(j, Restored(j, r)),
             r = "full" => BoundFiles(j).result = "ok"
      PROVE  LedgerFrame(c)
  <2>1. ledger'[j] = Restored(j, r)
    BY <1>3 DEF SetEntry, TypeInv
  <2>2. /\ ledger'[j].state = "done" /\ ledger'[j].result = r
        /\ ledger'[j].nonce = ledger[j].nonce /\ ledger'[j].attempt = ledger[j].attempt
        /\ ledger'[j].owned = ledger[j].owned
    BY <2>1 DEF Restored, TypeInv, GoodEntries, Entries
  <2>3. EntryKept(j) /\ ResultWritten(j) /\ LeavesFlight(c, j)
    BY <1>1, <1>2, <1>3, <2>2 DEF EntryKept, ResultWritten, LeavesFlight
  <2> QED
    BY <1>3, <2>3, EntryFrame
<1>4. ArtifactsKept
  BY DropFrame, KeptFrame DEF RecoverArtifact
<1> QED
  BY <1>3, <1>4 DEF RecoverArtifact, RecoverableResult

\* Harvests, verdicts, consumption and recovered artifacts.
LEMMA RunningQuiet ==
  ASSUME StartInv, CurrentInv, ResultsOfDone, NEW c \in Callers,
         \/ \E j \in Jobs : \/ HarvestResult(c, j) \/ CloseExpired(c, j)
                            \/ Consume(c, j) \/ RecoverArtifact(c, j)
         \/ DeclareDied(c) \/ SignalExpired(c)
  PROVE  QuietStep(c)
<1> USE DEF StartInv
<1>1. ASSUME NEW j \in Jobs,
             \/ HarvestResult(c, j) \/ CloseExpired(c, j) \/ Consume(c, j) \/ RecoverArtifact(c, j)
      PROVE  QuietStep(c)
  <2>1. UNCHANGED <<spec, worker, epoch, call>> /\ call[c] = Idle
    BY <1>1 DEF HarvestResult, CloseExpired, Consume, RecoverArtifact
  <2>2. StagesKept /\ SpecsFenced /\ EpochsGrow /\ CallFrame(c)
    BY <2>1, KeptFrame, StayFrame
  <2>3. LedgerFrame(c) /\ ArtifactsKept
    <3>1. CASE HarvestResult(c, j)
      BY <3>1, HarvestFrame DEF HarvestResult, Harvestable, Running
    <3>2. CASE CloseExpired(c, j)
      BY <3>2, CloseExitedFrame DEF CloseExpired, Running, Notes
    <3>3. CASE Consume(c, j)
      <4> DEFINE e == [ledger[j] EXCEPT !.consumed = TRUE]
      <4>1. SetEntry(j, e) /\ UNCHANGED files
        BY <3>3 DEF Consume
      <4>2. /\ e.state = ledger[j].state /\ e.nonce = ledger[j].nonce
            /\ e.attempt = ledger[j].attempt
            /\ e.owned = ledger[j].owned /\ e.result = ledger[j].result
        BY DEF TypeInv, GoodEntries, Entries
      <4> HIDE DEF e
      <4> QED
        BY <4>1, <4>2, RewriteFrame, KeptFrame
    <3>4. CASE RecoverArtifact(c, j)
      BY <3>4, RestoredFrame
    <3> QED
      BY <1>1, <3>1, <3>2, <3>3, <3>4
  <2> QED
    BY <2>2, <2>3 DEF QuietStep
<1>2. CASE DeclareDied(c)
  <2> DEFINE j == call[c].job
  <2>1. /\ UNCHANGED <<spec, worker, files, epoch>> /\ Return(c) /\ call[c].at = "died"
        /\ j \in Jobs /\ call[c].nonce = ledger[j].nonce
    BY <1>2, CallFacts DEF DeclareDied, CurrentInv, CallSound, Past
  <2>2. CASE UNCHANGED ledger
    BY <2>1, <2>2, KeptFrame, NotFollowing, ReturnFrame DEF QuietStep, Following
  <2>3. CASE /\ Running(j) /\ WorkerExited(j, call[c].nonce)
             /\ SetEntry(j, IF BoundFiles(j).evidence THEN Closed(j, "done", "partial", "none")
                                                     ELSE Closed(j, "failed", "none", "died"))
    <3>1. ledger[j].nonce \in Nonces /\ ledger[j].state = "running"
      BY <2>1, <2>3, JobFacts DEF Running
    <3>2. LedgerFrame(c)
      <4>1. CASE SetEntry(j, Closed(j, "done", "partial", "none"))
        BY <2>1, <2>3, <3>1, <4>1, ClosedFrame DEF Results, Notes
      <4>2. CASE SetEntry(j, Closed(j, "failed", "none", "died"))
        BY <2>1, <2>3, <3>1, <4>2, ClosedFrame DEF Results, Notes
      <4> QED
        BY <2>3, <4>1, <4>2
    <3> QED
      BY <2>1, <3>2, KeptFrame, NotFollowing, ReturnFrame DEF QuietStep, Following
  <2>4. CASE SetEntry(j, [ledger[j] EXCEPT !.note = "unconfirmed"])
    <3> DEFINE e == [ledger[j] EXCEPT !.note = "unconfirmed"]
    <3>1. /\ SetEntry(j, e) /\ e.state = ledger[j].state /\ e.nonce = ledger[j].nonce
          /\ e.attempt = ledger[j].attempt
          /\ e.owned = ledger[j].owned /\ e.result = ledger[j].result
      BY <2>1, <2>4 DEF TypeInv, GoodEntries, Entries
    <3> HIDE DEF e
    <3>2. LedgerFrame(c)
      BY <2>1, <3>1, RewriteFrame
    <3> QED
      BY <2>1, <3>2, KeptFrame, NotFollowing, ReturnFrame DEF QuietStep, Following
  <2> QED
    BY <1>2, <2>2, <2>3, <2>4 DEF DeclareDied
<1>3. CASE SignalExpired(c)
  <2>1. /\ UNCHANGED <<ledger, spec, files, epoch>> /\ Return(c) /\ call[c].at = "expire"
        /\ call[c].job \in Jobs
    BY <1>3, CallFacts DEF SignalExpired
  <2>2. StagesKept
    BY <1>3, <2>1, SignalFrame, KeptFrame DEF SignalExpired
  <2> QED
    BY <2>1, <2>2, KeptFrame, NotFollowing, ReturnFrame DEF QuietStep, Following
<1> QED
  BY <1>1, <1>2, <1>3

-----------------------------------------------------------------------------
(* The quiet steps of a kill, and crashes *)

\* The verdict of a kill on an exited process.
LEMMA KillCloseFrame ==
  ASSUME TypeInv, CurrentInv, NEW c \in Callers, call[c].at \in {"killTerm", "killAwait"},
         WorkerExited(call[c].job, call[c].nonce), KillClose(c)
  PROVE  LedgerFrame(c) /\ ArtifactsKept
<1> DEFINE j == call[c].job
<1>1. j \in Jobs /\ call[c].nonce = ledger[j].nonce
  BY CallFacts DEF CurrentInv, CallSound, Past
<1>2. CASE Running(j) /\ CloseExited(j, "killed", "none")
  BY <1>1, <1>2, CloseExitedFrame DEF Running, Notes
<1>3. CASE UNCHANGED <<ledger, files>>
  BY <1>3, KeptFrame
<1> QED
  BY <1>2, <1>3 DEF KillClose

\* The date of an artifact is neither its result nor its receipt.
LEMMA LateFrame ==
  ASSUME TypeInv, NEW j \in Jobs, NEW k, NEW late, files' = [files EXCEPT ![j][k].late = late]
  PROVE  ArtifactsKept
<1> DEFINE f == [files[j][k] EXCEPT !.late = late]
<1>1. files' = [files EXCEPT ![j][k] = f]
  OBVIOUS
<1>2. k \in Nonces => f.result = files[j][k].result /\ f.receipt = files[j][k].receipt
  <2>1. k \in Nonces => files[j][k] \in FileStates
    BY DEF TypeInv
  <2> QED
    BY <2>1 DEF FileStates
<1> HIDE DEF f
<1>3. \A i \in Jobs, m \in Nonces : files'[i][m] = IF i = j /\ m = k THEN f ELSE files[i][m]
  BY <1>1 DEF TypeInv
<1> QED
  BY <1>2, <1>3 DEF ArtifactsKept

\* A kill goes on by what its second read shows, and ends in a verdict or none.
LEMMA KillQuiet ==
  ASSUME StartInv, CurrentInv, NEW c \in Callers,
         KillRead(c) \/ KillTerminate(c) \/ KillAwait(c) \/ KillFence(c) \/ KillCommit(c)
  PROVE  QuietStep(c)
<1> USE DEF StartInv
<1> DEFINE j == call[c].job
<1>1. j \in Jobs /\ UNCHANGED epoch /\ call[c].at \in KillSteps
  BY CallFacts DEF KillRead, KillTerminate, KillAwait, KillFence, KillCommit, KillSteps
<1>2. EpochsGrow /\ Follows(c)
  BY <1>1, KeptFrame, NotFollowing DEF KillSteps, Following
<1>3. CASE KillRead(c)
  <2>1. UNCHANGED <<spec, worker>> /\ call[c].at = "kill"
    BY <1>3 DEF KillRead
  <2>2. StagesKept /\ SpecsFenced
    BY <2>1, KeptFrame
  <2>3. CASE Return(c) /\ UNCHANGED <<ledger, files>>
    BY <1>2, <2>2, <2>3, KeptFrame, ReturnFrame DEF QuietStep
  <2>4. CASE Harvestable(j) /\ (HarvestSuccess(j) \/ HarvestEvidence(j)) /\ Return(c)
    BY <1>1, <1>2, <2>2, <2>4, HarvestFrame, ReturnFrame DEF QuietStep, Harvestable, Running
  <2>5. ASSUME NEW s \in {"killTerm", "killFence", "killCommit"},
               call' = [call EXCEPT ![c].at = s, ![c].nonce = ledger[j].nonce],
               UNCHANGED <<ledger, files>>,
               s = "killTerm" => ledger[j].state = "running",
               s = "killFence" => ledger[j].state = "deployed",
               s = "killCommit" => ledger[j].state = "proposed"
        PROVE  QuietStep(c)
    <3>1. /\ OthersWait(c)
          /\ call'[c].at = s /\ call'[c].job = j /\ call'[c].nonce = ledger[j].nonce
      BY <2>5 DEF OthersWait, TypeInv, GoodCalls, Calls
    <3>2. CallSound(c)'
      BY <2>5, <3>1 DEF CallSound, LaunchSteps, RecoverySteps, Past
    <3>3. Reserves(c) /\ Fences(c) /\ Kills(c)
      BY <1>1, <2>5, <3>1 DEF Reserves, Fences, Kills, Reserving, LaunchSteps
    <3> QED
      BY <1>2, <2>2, <2>5, <3>1, <3>2, <3>3, KeptFrame DEF QuietStep, CallFrame
  <2> QED
    BY <1>3, <2>3, <2>4, <2>5 DEF KillRead, Running
<1>4. CASE KillTerminate(c)
  <2>1. UNCHANGED spec /\ call[c].at = "killTerm"
    BY <1>4 DEF KillTerminate
  <2>2. CASE WorkerExited(j, call[c].nonce) /\ KillClose(c) /\ Return(c) /\ UNCHANGED worker
    BY <1>2, <2>1, <2>2, KillCloseFrame, KeptFrame, ReturnFrame DEF QuietStep
  <2>3. CASE Signal(j, call[c].nonce) /\ Goto(c, "killAwait") /\ UNCHANGED <<ledger, files>>
    <3>1. StagesKept
      BY <1>1, <2>3, SignalFrame
    <3> QED
      BY <1>1, <1>2, <2>1, <2>3, <3>1, KeptFrame, GotoFrame
      DEF QuietStep, Steps, LaunchSteps, RecoverySteps, KillSteps, Past, Reserving
  <2>4. CASE Return(c) /\ UNCHANGED <<ledger, worker, files>>
    BY <1>2, <2>1, <2>4, KeptFrame, ReturnFrame DEF QuietStep
  <2> QED
    BY <1>4, <2>2, <2>3, <2>4 DEF KillTerminate
<1>5. CASE KillAwait(c)
  <2>1. UNCHANGED <<spec, worker>> /\ call[c].at = "killAwait" /\ Return(c)
    BY <1>5 DEF KillAwait
  <2>2. LedgerFrame(c) /\ ArtifactsKept
    BY <1>5, <2>1, KillCloseFrame, KeptFrame DEF KillAwait
  <2> QED
    BY <1>2, <2>1, <2>2, KeptFrame, ReturnFrame DEF QuietStep
<1>6. CASE KillFence(c)
  <2>1. /\ UNCHANGED <<ledger, worker, files>> /\ call[c].at = "killFence" /\ Goto(c, "killCommit")
        /\ spec' = [spec EXCEPT ![j] = 0]
    BY <1>6 DEF KillFence
  <2>2. SpecsFenced /\ spec'[j] = 0
    BY <1>1, <2>1, FenceFrame
  <2> QED
    BY <1>1, <1>2, <2>1, <2>2, KeptFrame, GotoFrame
    DEF QuietStep, Steps, LaunchSteps, RecoverySteps, KillSteps, Past, Reserving
<1>7. CASE KillCommit(c)
  <2>1. UNCHANGED <<spec, worker>> /\ call[c].at = "killCommit" /\ Return(c)
    BY <1>7 DEF KillCommit
  <2>3. ArtifactsKept
    BY <1>1, <1>7, LateFrame, KeptFrame DEF KillCommit
  <2>2. LedgerFrame(c)
    <3>1. CASE SetEntry(j, Closed(j, "killed", "none", "none"))
      BY <1>1, <2>1, <3>1, ClosedFrame DEF Results, Notes
    <3>2. CASE UNCHANGED ledger
      BY <3>2, KeptFrame
    <3> QED
      BY <1>7, <3>1, <3>2 DEF KillCommit
  <2> QED
    BY <1>2, <2>1, <2>2, <2>3, KeptFrame, ReturnFrame DEF QuietStep
<1> QED
  BY <1>3, <1>4, <1>5, <1>6, <1>7

\* A crash drops the call, and nothing it launched has that pid for a parent
\* that is alive.
LEMMA CrashQuiet ==
  ASSUME StartInv, NEW c \in Callers, Crash(c)
  PROVE  QuietStep(c)
<1> USE DEF StartInv
<1>1. UNCHANGED <<ledger, spec, worker, files>> /\ Return(c)
  BY DEF Crash
<1>2. \A d \in Callers : epoch[d] \in Nat
  BY NumbersAssumption DEF TypeInv, Epochs
<1>3. epoch' = [epoch EXCEPT ![c] = epoch[c] + 1]
  BY DEF Crash
<1>4. EpochsGrow /\ epoch'[c] > epoch[c]
  BY <1>2, <1>3 DEF EpochsGrow, TypeInv
<1>5. CallFrame(c)
  BY <1>1, <1>4, ReturnFrame DEF Follows
<1> QED
  BY <1>1, <1>4, <1>5, KeptFrame DEF QuietStep

-----------------------------------------------------------------------------
(* The steps that draw, fence and start *)

\* No other call holds the lock of job j.
Alone(c, j) == \A d \in Callers \ {c} : ~(call[d].locked /\ call[d].job = j)

\* Call c draws a nonce k for job j, whose processes are not at work.
Draws(c, j, k) ==
  /\ OthersWait(c) /\ Alone(c, j) /\ call[c].at \in {"idle", "rotate"}
  /\ call'[c].at = "recheck" /\ call'[c].job = j /\ call'[c].nonce = k
  /\ k \in Nonces /\ worker[j][k].stage = "none"
  /\ \A m \in Nonces : worker[j][m].stage # "backend"
  /\ ledger[j].state \in {"proposed", "deployed"} /\ ledger'[j].state = "deployed"
  /\ ledger'[j].nonce = k /\ ledger'[j].attempt = ledger[j].attempt + 1
  /\ ledger'[j].result = ledger[j].result
  /\ \A i \in Jobs \ {j} : ledger'[i] = ledger[i] /\ spec'[i] = spec[i]
  /\ \A m \in Nonces : spec'[j] = m => worker[j][m].stage = "none"
  /\ UNCHANGED <<worker, files, epoch>>

\* Call c, which holds the lock of its job, opens the fence to a nonce that
\* names no process yet, or leaves it open behind a crash.
Opens(c) ==
  LET j == call[c].job
  IN  /\ OthersWait(c) /\ j \in Jobs /\ Alone(c, j)
      /\ \/ call'[c].at = "idle" /\ call[c].at = "rotate"
         \/ /\ call'[c].at = "spawn" /\ call'[c].job = j /\ call'[c].nonce = call[c].nonce
            /\ call[c].at = "write"
      /\ UNCHANGED <<ledger, worker>> /\ EpochsGrow
      /\ \A i \in Jobs \ {j} : spec'[i] = spec[i]
      /\ \A m \in Nonces : spec'[j] = m => worker[j][m].stage = "none"
      /\ \A i \in Jobs, m \in Nonces :
           /\ files'[i][m].result \in {files[i][m].result, "none"}
           /\ worker[i][m].stage # "none" => files'[i][m] = files[i][m]

\* Call c starts the process of its nonce.
Spawns(c) ==
  LET j == call[c].job  n == call[c].nonce
  IN  /\ OthersWait(c) /\ j \in Jobs /\ n \in Nonces /\ Alone(c, j)
      /\ call[c].at = "spawn"
      /\ call'[c].at = "receipt" /\ call'[c].job = j /\ call'[c].nonce = n
      /\ ledger[j].nonce = n /\ worker[j][n].stage = "none"
      /\ worker'[j][n].stage = "started" /\ worker'[j][n].parent = Pid(c)
      /\ \A i \in Jobs, m \in Nonces : i # j \/ m # n => worker'[i][m] = worker[i][m]
      /\ UNCHANGED <<ledger, spec, files, epoch>>

\* A fresh launch, with the next nonce of its job.
LEMMA DeployDraws ==
  ASSUME StartInv, CurrentInv, NEW c \in Callers, NEW j \in Jobs, DeployAsync(c, j),
         ledger[j].state = "proposed"
  PROVE  Draws(c, j, issued[j] + 1)
<1> USE DEF StartInv
<1> DEFINE k == issued[j] + 1
           e == [ledger[j] EXCEPT !.state = "deployed", !.nonce = k, !.attempt = 1]
           r == [at |-> "recheck", job |-> j, nonce |-> k, locked |-> TRUE, evidence |-> FALSE]
<1>1. /\ issued[j] < MaxNonce /\ SetEntry(j, e) /\ call' = [call EXCEPT ![c] = r]
      /\ call[c] = Idle /\ LaunchLockFree(j) /\ UNCHANGED <<spec, worker, files, epoch>>
  BY DEF DeployAsync
<1>2. k \in Nonces
  BY <1>1, NextNonce
<1>3. /\ ledger[j].attempt = 0 /\ \A m \in Nonces : worker[j][m].stage = "none"
  BY DEF CurrentInv, Unlaunched
<1>4. /\ e.state = "deployed" /\ e.nonce = k /\ e.attempt = 1 /\ e.result = ledger[j].result
  BY DEF TypeInv, GoodEntries, Entries
<1>5. r.at = "recheck" /\ r.job = j /\ r.nonce = k
  OBVIOUS
<1> HIDE DEF e, r, k
<1>6. ledger'[j] = e /\ \A i \in Jobs \ {j} : ledger'[i] = ledger[i]
  BY <1>1 DEF SetEntry, TypeInv
<1>7. call'[c] = r /\ OthersWait(c)
  BY <1>1 DEF TypeInv, OthersWait
<1>8. Alone(c, j) /\ call[c].at = "idle"
  BY <1>1 DEF Alone, LaunchLockFree, Idle
<1>9. Draws(c, j, k)
  BY <1>1, <1>2, <1>3, <1>4, <1>5, <1>6, <1>7, <1>8 DEF Draws
<1> QED
  BY <1>9 DEF k

\* A call that launches or recovers is alone with its job.
LEMMA AloneAtWork ==
  ASSUME StartInv, NEW c \in Callers, call[c].at \in LaunchSteps \cup RecoverySteps
  PROVE  /\ call[c].job \in Jobs /\ call[c].nonce \in Nonces /\ call[c].locked
         /\ Alone(c, call[c].job)
<1>1. call[c].at # "idle"
  BY DEF LaunchSteps, RecoverySteps
<1>2. call[c].job \in Jobs /\ call[c].nonce \in Nonces
  BY <1>1, CallFacts DEF StartInv
<1> QED
  BY <1>2 DEF StartInv, LockHeld, Alone

\* A retry, with the next nonce of its job.
LEMMA RotationDraws ==
  ASSUME StartInv, CurrentInv, NEW c \in Callers, RotateNonce(c), Rotates(c)
  PROVE  Draws(c, call[c].job, issued[call[c].job] + 1)
<1> USE DEF StartInv
<1> DEFINE j == call[c].job
           k == issued[j] + 1
           e == [ledger[j] EXCEPT !.nonce = k, !.attempt = @ + 1, !.owned = FALSE]
<1>1. call[c].at = "rotate" /\ UNCHANGED <<worker, files, epoch>>
  BY DEF RotateNonce
<1>2. j \in Jobs /\ Alone(c, j)
  BY <1>1, AloneAtWork DEF RecoverySteps
<1>3. ledger[j].attempt \in Nat /\ ledger[j].attempt < MaxAttempts /\ ledger[j].state = "deployed"
  BY <1>2, NumbersAssumption DEF Rotates, StillReserved, TypeInv, GoodEntries, Entries
<1>4. ~(ledger[j].attempt >= MaxAttempts)
  BY <1>3, NumbersAssumption
<1>5. /\ issued[j] < MaxNonce /\ SetEntry(j, e) /\ spec' = [spec EXCEPT ![j] = k]
      /\ call' = [call EXCEPT ![c].at = "recheck", ![c].nonce = k]
  BY <1>4 DEF RotateNonce, Rotates
<1>6. k \in Nonces
  BY <1>2, <1>5, NextNonce
<1>7. worker[j][k].stage = "none"
  <2>1. issued[j] \in Nat
    BY <1>2, MaxNonceType DEF TypeInv
  <2> QED
    BY <1>2, <1>6, <2>1 DEF NonceUnused
<1>8. /\ e.state = "deployed" /\ e.nonce = k /\ e.attempt = ledger[j].attempt + 1
      /\ e.result = ledger[j].result
  BY <1>2, <1>3 DEF TypeInv, GoodEntries, Entries
<1> HIDE DEF e, k
<1>9. ledger'[j] = e /\ \A i \in Jobs \ {j} : ledger'[i] = ledger[i]
  BY <1>2, <1>5 DEF SetEntry, TypeInv
<1>10. /\ OthersWait(c) /\ call'[c].at = "recheck" /\ call'[c].nonce = k /\ call'[c].job = j
  BY <1>5 DEF OthersWait, TypeInv, GoodCalls, Calls
<1>11. spec'[j] = k /\ \A i \in Jobs \ {j} : spec'[i] = spec[i]
  BY <1>2, <1>5 DEF TypeInv
<1>12. \A m \in Nonces : worker[j][m].stage # "backend"
  BY <1>1 DEF CurrentInv, CallSound
<1>13. Draws(c, j, k)
  BY <1>1, <1>2, <1>3, <1>6, <1>7, <1>8, <1>9, <1>10, <1>11, <1>12 DEF Draws
<1> QED
  BY <1>13 DEF k

\* The spec of a launch.
LEMMA SpecOpens ==
  ASSUME StartInv, NEW c \in Callers, WriteSpec(c)
  PROVE  Opens(c)
<1> USE DEF StartInv
<1> DEFINE j == call[c].job
           n == call[c].nonce
<1>1. call[c].at = "write" /\ UNCHANGED <<ledger, worker>> /\ Goto(c, "spawn") /\ EpochsGrow
  BY KeptFrame DEF WriteSpec
<1>2. j \in Jobs /\ n \in Nonces /\ Alone(c, j)
  BY <1>1, AloneAtWork DEF LaunchSteps, RecoverySteps
<1>3. worker[j][n].stage = "none"
  BY <1>1 DEF NonceUnused, Starting
<1>4. /\ \A i \in Jobs \ {j} : spec'[i] = spec[i]
      /\ \A m \in Nonces : spec'[j] = m => worker[j][m].stage = "none"
  BY <1>2, <1>3 DEF WriteSpec, TypeInv
<1>5. \A i \in Jobs, m \in Nonces : files'[i][m] = IF i = j /\ m = n THEN NoFiles ELSE files[i][m]
  BY <1>2 DEF WriteSpec, TypeInv
<1>6. ASSUME NEW i \in Jobs, NEW m \in Nonces
      PROVE  /\ files'[i][m].result \in {files[i][m].result, "none"}
             /\ worker[i][m].stage # "none" => files'[i][m] = files[i][m]
  <2>1. CASE i = j /\ m = n
    BY <1>3, <1>5, <2>1 DEF NoFiles
  <2>2. CASE ~(i = j /\ m = n)
    BY <1>5, <2>2
  <2> QED
    BY <2>1, <2>2
<1>7. /\ OthersWait(c)
      /\ call'[c].at = "spawn" /\ call'[c].job = j /\ call'[c].nonce = n
  BY <1>1, GotoFacts
<1> QED
  BY <1>1, <1>2, <1>4, <1>6, <1>7 DEF Opens

\* A transaction cut short has closed the fence, or has left it open to a nonce
\* that names no process.
LEMMA AheadIsStep ==
  ASSUME StartInv, NEW c \in Callers, SpecAhead(c), Return(c),
         UNCHANGED <<ledger, worker, files>>, EpochsGrow,
         WriteFaults \/ epoch'[c] > epoch[c]
  PROVE  QuietStep(c) \/ Opens(c)
<1> USE DEF StartInv
<1> DEFINE j == call[c].job
           k == issued[j] + 1
<1>1. j \in Jobs /\ Alone(c, j)
  BY AloneAtWork DEF SpecAhead, LaunchSteps, RecoverySteps
<1>2. CASE spec' = [spec EXCEPT ![j] = 0]
  <2>1. SpecsFenced
    BY <1>1, <1>2, FenceFrame
  <2>2. Follows(c)
    BY DEF Follows
  <2> QED
    BY <2>1, <2>2, KeptFrame, ReturnFrame DEF QuietStep
<1>3. CASE call[c].at = "rotate" /\ issued[j] < MaxNonce /\ spec' = [spec EXCEPT ![j] = k]
  <2>1. k \in Nonces /\ issued[j] \in Nat
    BY <1>1, <1>3, NextNonce, MaxNonceType DEF TypeInv
  <2>2. worker[j][k].stage = "none"
    BY <1>1, <2>1 DEF NonceUnused
  <2>3. /\ \A i \in Jobs \ {j} : spec'[i] = spec[i]
        /\ \A m \in Nonces : spec'[j] = m => worker[j][m].stage = "none"
    BY <1>1, <1>3, <2>1, <2>2 DEF TypeInv
  <2>4. OthersWait(c) /\ call'[c].at = "idle"
    BY ReturnFacts DEF Idle
  <2> QED
    BY <1>1, <1>3, <2>3, <2>4 DEF Opens
<1> QED
  BY <1>2, <1>3 DEF SpecAhead

\* So is every transaction that raises.
LEMMA RaiseIsStep ==
  ASSUME StartInv, NEW c \in Callers, TransactionRaises(c)
  PROVE  QuietStep(c) \/ Opens(c)
<1> USE DEF StartInv
<1>1. Return(c) /\ WriteFaults /\ UNCHANGED <<ledger, worker, files>> /\ EpochsGrow
  BY KeptFrame DEF TransactionRaises
<1>2. CASE SpecAhead(c)
  BY <1>1, <1>2, AheadIsStep
<1>3. CASE UNCHANGED spec
  <2>1. Follows(c)
    BY <1>1 DEF Follows
  <2> QED
    BY <1>1, <1>3, <2>1, KeptFrame, ReturnFrame DEF QuietStep
<1> QED
  BY <1>2, <1>3 DEF TransactionRaises

\* And every crash.
LEMMA CrashIsLaunchStep ==
  ASSUME StartInv, NEW c \in Callers, Crash(c) \/ CrashInTransaction(c)
  PROVE  QuietStep(c) \/ Opens(c)
<1> USE DEF StartInv
<1>1. CASE Crash(c)
  BY <1>1, CrashQuiet
<1>2. CASE CrashInTransaction(c)
  <2>1. \A d \in Callers : epoch[d] \in Nat
    BY NumbersAssumption DEF TypeInv, Epochs
  <2>2. epoch' = [epoch EXCEPT ![c] = epoch[c] + 1]
    BY <1>2 DEF CrashInTransaction
  <2>3. EpochsGrow /\ epoch'[c] > epoch[c]
    BY <2>1, <2>2 DEF EpochsGrow, TypeInv
  <2> QED
    BY <1>2, <2>3, AheadIsStep DEF CrashInTransaction
<1> QED
  BY <1>1, <1>2

\* The start of a process.
LEMMA SpawnSpawns ==
  ASSUME StartInv, CurrentInv, NEW c \in Callers, SpawnWorker(c)
  PROVE  Spawns(c)
<1> USE DEF StartInv
<1> DEFINE j == call[c].job
           n == call[c].nonce
           w == [stage |-> "started", signaled |-> FALSE, parent |-> Pid(c)]
<1>1. /\ call[c].at = "spawn" /\ Goto(c, "receipt") /\ worker' = [worker EXCEPT ![j][n] = w]
      /\ UNCHANGED <<ledger, spec, files, epoch>>
  BY DEF SpawnWorker
<1>2. j \in Jobs /\ n \in Nonces /\ Alone(c, j)
  BY <1>1, AloneAtWork DEF LaunchSteps, RecoverySteps
<1>3. worker[j][n].stage = "none" /\ ledger[j].nonce = n
  BY <1>1 DEF NonceUnused, Starting, CurrentInv, CallSound, LaunchSteps
<1>4. w.stage = "started" /\ w.parent = Pid(c)
  OBVIOUS
<1> HIDE DEF w
<1>5. \A i \in Jobs, m \in Nonces : worker'[i][m] = IF i = j /\ m = n THEN w ELSE worker[i][m]
  BY <1>1, <1>2 DEF TypeInv
<1>6. /\ OthersWait(c)
      /\ call'[c].at = "receipt" /\ call'[c].job = j /\ call'[c].nonce = n
  BY <1>1, GotoFacts
<1> QED
  BY <1>1, <1>2, <1>3, <1>4, <1>5, <1>6 DEF Spawns

-----------------------------------------------------------------------------
(* The steps of a process *)

\* Process n of job j goes on, only forward, and what it publishes is its own.
WorkerFrame(j, n) ==
  /\ UNCHANGED <<ledger, spec, call, epoch>>
  /\ \A i \in Jobs, m \in Nonces : i # j \/ m # n =>
       worker'[i][m] = worker[i][m] /\ files'[i][m] = files[i][m]
  /\ worker[j][n].stage \notin {"none", "exited"} /\ worker'[j][n].stage # "none"
  /\ worker'[j][n].parent = worker[j][n].parent
  /\ worker'[j][n].stage \in PreBackend => worker[j][n].stage \in PreBackend
  /\ worker'[j][n].stage = "backend" /\ worker[j][n].stage # "backend" =>
       /\ worker[j][n].stage \in PreBackend
       /\ LaunchLockFree(j) /\ spec[j] = n /\ ParentAlive(j, n)
  /\ worker'[j][n].stage \in {"identified", "backend"} => files'[j][n].receipt # NoPid
  /\ files'[j][n].result # "none" => worker'[j][n].stage \in {"published", "exited"}

\* A stage of process n, and of no other.
LEMMA GoesFrame ==
  ASSUME TypeInv, NEW j \in Jobs, NEW n \in Nonces, NEW s \in Stages, WorkerGoes(j, n, s)
  PROVE  /\ worker'[j][n].stage = s /\ worker'[j][n].parent = worker[j][n].parent
         /\ \A i \in Jobs, m \in Nonces : i # j \/ m # n => worker'[i][m] = worker[i][m]
<1> DEFINE w == [worker[j][n] EXCEPT !.stage = s]
<1>1. worker' = [worker EXCEPT ![j][n] = w]
  BY DEF WorkerGoes
<1>2. w.stage = s /\ w.parent = worker[j][n].parent
  BY DEF TypeInv, WorkerStates
<1> HIDE DEF w
<1>3. \A i \in Jobs, m \in Nonces : worker'[i][m] = IF i = j /\ m = n THEN w ELSE worker[i][m]
  BY <1>1 DEF TypeInv
<1> QED
  BY <1>2, <1>3

\* Every step of a process is one.
LEMMA WorkerIsFrame ==
  ASSUME TypeInv, CurrentInv, NEW j \in Jobs, NEW n \in Nonces, WorkerNext(j, n)
  PROVE  WorkerFrame(j, n)
<1>1. UNCHANGED <<ledger, spec, call, epoch>>
  BY DEF WorkerNext, LoadSpec, PublishIdentity, PassFence, PublishEvidence,
         FinishBackend, InterruptWorker, ExitWorker
<1>2. /\ worker[j][n].stage \in {"identified", "backend"} => files[j][n].receipt # NoPid
      /\ files[j][n].result # "none" => worker[j][n].stage \in {"published", "exited"}
      /\ worker[j][n].stage # "none" => worker[j][n].parent.caller \in Callers
  BY DEF CurrentInv, WorkerSound
<1> USE DEF PreBackend
<1>3. ASSUME WorkerGoes(j, n, "exited"), UNCHANGED files,
             worker[j][n].stage \notin {"none", "exited"}
      PROVE  WorkerFrame(j, n)
  BY <1>1, <1>2, <1>3, GoesFrame DEF WorkerFrame, Stages
<1>4. CASE LoadSpec(j, n)
  <2>1. worker[j][n].stage = "started" /\ UNCHANGED files
    BY <1>4 DEF LoadSpec
  <2>2. CASE WorkerGoes(j, n, "loaded")
    BY <1>1, <1>2, <2>1, <2>2, GoesFrame DEF WorkerFrame, Stages
  <2>3. CASE WorkerGoes(j, n, "exited")
    BY <1>3, <2>1, <2>3
  <2> QED
    BY <1>4, <2>2, <2>3 DEF LoadSpec
<1>5. CASE PublishIdentity(j, n)
  <2> DEFINE p == IF ParentAlive(j, n) THEN worker[j][n].parent ELSE OrphanPid
             f == [files[j][n] EXCEPT !.receipt = p]
  <2>1. WorkerGoes(j, n, "identified") /\ worker[j][n].stage = "loaded"
    BY <1>5 DEF PublishIdentity
  <2>2. p # NoPid
    BY <1>2, <2>1, NoneAssumption DEF NoPid, OrphanPid
  <2>3. files' = [files EXCEPT ![j][n] = f]
    BY <1>5 DEF PublishIdentity
  <2> HIDE DEF p
  <2>4. f.receipt = p /\ f.result = files[j][n].result
    BY DEF TypeInv, FileStates
  <2> HIDE DEF f
  <2>5. \A i \in Jobs, m \in Nonces : files'[i][m] = IF i = j /\ m = n THEN f ELSE files[i][m]
    BY <2>3 DEF TypeInv
  <2>6. /\ files'[j][n] = f
        /\ \A i \in Jobs, m \in Nonces : i # j \/ m # n => files'[i][m] = files[i][m]
    BY <2>5
  <2>7. /\ worker'[j][n].stage = "identified" /\ worker'[j][n].parent = worker[j][n].parent
        /\ \A i \in Jobs, m \in Nonces : i # j \/ m # n => worker'[i][m] = worker[i][m]
    BY <2>1, GoesFrame DEF Stages
  <2> QED
    BY <1>1, <1>2, <2>1, <2>2, <2>4, <2>6, <2>7 DEF WorkerFrame
<1>6. CASE PassFence(j, n)
  <2>1. worker[j][n].stage = "identified" /\ LaunchLockFree(j) /\ UNCHANGED files
    BY <1>6 DEF PassFence
  <2>2. CASE spec[j] = n /\ ParentAlive(j, n) /\ WorkerGoes(j, n, "backend")
    BY <1>1, <1>2, <2>1, <2>2, GoesFrame DEF WorkerFrame, Stages
  <2>3. CASE WorkerGoes(j, n, "exited")
    BY <1>3, <2>1, <2>3
  <2> QED
    BY <1>6, <2>2, <2>3 DEF PassFence
<1>7. CASE PublishEvidence(j, n)
  <2>1. PICK late \in Dated(j, n, "evidence") :
          files' = [files EXCEPT ![j][n].evidence = TRUE, ![j][n].late = late]
    BY <1>7 DEF PublishEvidence
  <2> DEFINE f0 == [files[j][n] EXCEPT !.evidence = TRUE]
             f == [f0 EXCEPT !.late = late]
  <2>2. files' = [files EXCEPT ![j][n] = f]
    BY <2>1 DEF TypeInv
  <2>3. f.receipt = files[j][n].receipt /\ f.result = files[j][n].result
    BY DEF TypeInv, FileStates
  <2>4. UNCHANGED worker /\ worker[j][n].stage = "backend"
    BY <1>7 DEF PublishEvidence
  <2> HIDE DEF f
  <2>5. \A i \in Jobs, m \in Nonces : files'[i][m] = IF i = j /\ m = n THEN f ELSE files[i][m]
    BY <2>2 DEF TypeInv
  <2>6. /\ files'[j][n] = f
        /\ \A i \in Jobs, m \in Nonces : i # j \/ m # n => files'[i][m] = files[i][m]
    BY <2>5
  <2> QED
    BY <1>1, <1>2, <2>3, <2>4, <2>6 DEF WorkerFrame
<1>8. ASSUME NEW r, NEW late, files' = [files EXCEPT ![j][n].result = r, ![j][n].late = late],
             WorkerGoes(j, n, "published"), worker[j][n].stage \notin {"none", "exited"}
      PROVE  WorkerFrame(j, n)
  <2> DEFINE f0 == [files[j][n] EXCEPT !.result = r]
             f == [f0 EXCEPT !.late = late]
  <2>1. files' = [files EXCEPT ![j][n] = f]
    BY <1>8 DEF TypeInv
  <2> HIDE DEF f
  <2>2. \A i \in Jobs, m \in Nonces : files'[i][m] = IF i = j /\ m = n THEN f ELSE files[i][m]
    BY <2>1 DEF TypeInv
  <2>3. /\ worker'[j][n].stage = "published" /\ worker'[j][n].parent = worker[j][n].parent
        /\ \A i \in Jobs, m \in Nonces : i # j \/ m # n => worker'[i][m] = worker[i][m]
    BY <1>8, GoesFrame DEF Stages
  <2>4. \A i \in Jobs, m \in Nonces : i # j \/ m # n => files'[i][m] = files[i][m]
    BY <2>2
  <2>5. worker[j][n].stage \notin {"none", "exited"}
    BY <1>8
  <2> QED
    BY <1>1, <2>3, <2>4, <2>5 DEF WorkerFrame
<1>9. CASE FinishBackend(j, n)
  BY <1>8, <1>9 DEF FinishBackend
<1>10. CASE InterruptWorker(j, n)
  <2>1. worker[j][n].stage \notin {"none", "exited"}
    BY <1>10 DEF InterruptWorker, WorkerAlive
  <2>2. ASSUME NEW late, WorkerGoes(j, n, "published"),
               files' = [files EXCEPT ![j][n].result = "interrupted", ![j][n].late = late]
        PROVE  WorkerFrame(j, n)
    BY <1>8, <2>1, <2>2
  <2>3. CASE WorkerGoes(j, n, "exited") /\ UNCHANGED files
    BY <1>3, <2>1, <2>3
  <2> QED
    BY <1>10, <2>2, <2>3 DEF InterruptWorker
<1>11. CASE ExitWorker(j, n)
  BY <1>3, <1>11 DEF ExitWorker, WorkerAlive
<1> QED
  BY <1>4, <1>5, <1>6, <1>7, <1>9, <1>10, <1>11 DEF WorkerNext

-----------------------------------------------------------------------------
(* The other steps keep what calls go by and what results are bound to *)

\* The calls that wait keep what they go by when only job j changes, under its
\* lock, and none of them has a process of j in mind that was running.
LEMMA OthersSound ==
  ASSUME StartInv, TypeInv', CurrentInv, NEW c \in Callers, NEW j \in Jobs,
         OthersWait(c), Alone(c, j),
         \A i \in Jobs \ {j} : ledger'[i] = ledger[i] /\ \A m \in Nonces : worker'[i][m] = worker[i][m],
         \/ ledger'[j] = ledger[j]
         \/ ledger[j].state \in {"proposed", "deployed"} /\ ledger'[j].state = "deployed",
         NEW d \in Callers \ {c}
  PROVE  CallSound(d)'
<1>1. call'[d] = call[d] /\ CallSound(d)
  BY DEF OthersWait, CurrentInv
<1>2. CASE call[d].at = "idle"
  BY <1>1, <1>2 DEF CallSound, LaunchSteps, RecoverySteps, Past
<1>3. CASE call[d].at # "idle" /\ call[d].job # j
  <2>1. /\ call[d].job \in Jobs \ {j}
        /\ call[d].at \in LaunchSteps \cup RecoverySteps => call[d].nonce \in Nonces
    BY <1>3, CallFacts DEF StartInv
  <2> QED
    BY <1>1, <2>1 DEF CallSound, WorkerExited, RecoverySteps
<1>4. CASE call[d].at # "idle" /\ call[d].job = j
  <2>1. call[d].at \notin LaunchSteps \cup RecoverySteps
    BY <1>4 DEF Alone, StartInv, LockHeld
  <2> QED
    BY <1>1, <1>4, <2>1 DEF CallSound, RecoverySteps, Past
<1> QED
  BY <1>2, <1>3, <1>4

\* The artifacts of the nonce a process was never started under.
LEMMA NoneFull ==
  ASSUME TypeInv, CurrentInv, ResultsOfDone, ResultOfItsLaunch, NEW j \in Jobs,
         ledger[j].result = "full"
  PROVE  /\ ledger[j].nonce \in Nonces /\ ledger[j].state = "done"
         /\ files[j][ledger[j].nonce].result = "ok"
         /\ worker[j][ledger[j].nonce].stage = "exited"
<1>1. /\ ledger[j].nonce \in Nonces /\ ledger[j].state = "done"
      /\ files[j][ledger[j].nonce].result = "ok"
      /\ worker[j][ledger[j].nonce].stage \in {"none", "exited"}
  BY DEF ResultsOfDone, ResultOfItsLaunch, BoundFiles, WorkerExited
<1>2. worker[j][ledger[j].nonce].stage \in {"published", "exited"}
  BY <1>1 DEF CurrentInv, WorkerSound
<1> QED
  BY <1>1, <1>2

\* A drawn nonce is current, and supersedes no process that works.
LEMMA DrawsKeeps ==
  ASSUME StartInv, TypeInv', CurrentInv, ResultsOfDone, ResultOfItsLaunch,
         NEW c \in Callers, NEW j \in Jobs, NEW k, Draws(c, j, k)
  PROVE  CurrentInv' /\ ResultsOfDone' /\ ResultOfItsLaunch'
<1> USE DEF Draws
<1>1. ASSUME NEW d \in Callers PROVE CallSound(d)'
  <2>1. CASE d = c
    BY <2>1 DEF CallSound, LaunchSteps, RecoverySteps, Past
  <2>2. CASE d # c
    BY <2>2, OthersSound
  <2> QED
    BY <2>1, <2>2
<1>2. ASSUME NEW i \in Jobs PROVE Unlaunched(i)'
  BY DEF CurrentInv, Unlaunched
<1>3. ASSUME NEW i \in Jobs, NEW m \in Nonces PROVE WorkerSound(i, m)'
  BY DEF CurrentInv, WorkerSound
<1>4. ResultsOfDone'
  BY DEF ResultsOfDone
<1>5. ASSUME NEW i \in Jobs, ledger'[i].result = "full"
      PROVE  /\ ledger'[i].state = "done"
             /\ files'[i][ledger'[i].nonce].result = "ok"
             /\ worker'[i][ledger'[i].nonce].stage \in {"none", "exited"}
  <2>1. i # j
    BY <1>5 DEF ResultsOfDone
  <2> QED
    BY <1>5, <2>1, NoneFull DEF StartInv
<1>6. ResultOfItsLaunch'
  BY <1>5 DEF ResultOfItsLaunch, BoundFiles, WorkerExited
<1> QED
  BY <1>1, <1>2, <1>3, <1>4, <1>6 DEF CurrentInv

\* Incarnations are numbers.
LEMMA EpochFacts ==
  ASSUME TypeInv, TypeInv'
  PROVE  /\ \A d \in Callers : epoch[d] \in Nat /\ epoch'[d] \in Nat
         /\ \A i \in Jobs, m \in Nonces : worker[i][m].parent.epoch \in Nat
<1>1. \A d \in Callers : epoch[d] \in Nat /\ epoch'[d] \in Nat
  BY NumbersAssumption DEF TypeInv, Epochs
<1>2. ASSUME NEW i \in Jobs, NEW m \in Nonces PROVE worker[i][m].parent.epoch \in Nat
  <2>1. worker[i][m] \in WorkerStates
    BY DEF TypeInv
  <2>2. worker[i][m].parent \in Pids
    BY <2>1 DEF WorkerStates
  <2> QED
    BY <2>2, NumbersAssumption DEF Pids, Epochs
<1> QED
  BY <1>1, <1>2

\* A fence is opened to no process, and nothing that was published is lost.
LEMMA OpensKeeps ==
  ASSUME StartInv, TypeInv', CurrentInv, ResultsOfDone, ResultOfItsLaunch,
         NEW c \in Callers, Opens(c)
  PROVE  CurrentInv' /\ ResultsOfDone' /\ ResultOfItsLaunch'
<1> USE DEF Opens
<1>1. ASSUME NEW d \in Callers PROVE CallSound(d)'
  <2>1. CASE d = c
    BY <2>1 DEF CallSound, CurrentInv, LaunchSteps, RecoverySteps, Past
  <2>2. CASE d # c
    BY <2>2, OthersSound
  <2> QED
    BY <2>1, <2>2
<1>2. ASSUME NEW i \in Jobs PROVE Unlaunched(i)'
  BY DEF CurrentInv, Unlaunched
<1>3. ASSUME NEW i \in Jobs, NEW m \in Nonces PROVE WorkerSound(i, m)'
  <2>1. WorkerSound(i, m)
    BY DEF CurrentInv
  <2>2. worker[i][m].stage # "none" /\ spec'[i] = m => spec[i] = m
    OBVIOUS
  <2>3. worker[i][m].parent.caller \in Callers =>
          epoch[worker[i][m].parent.caller] <= epoch'[worker[i][m].parent.caller]
    BY DEF EpochsGrow
  <2>4. (\A d \in Callers : epoch[d] \in Nat /\ epoch'[d] \in Nat) /\ worker[i][m].parent.epoch \in Nat
    BY EpochFacts DEF StartInv
  <2>5. worker'[i][m] = worker[i][m] /\ ledger'[i] = ledger[i]
    OBVIOUS
  <2>6. /\ files'[i][m].result # "none" => files[i][m].result # "none"
        /\ worker[i][m].stage # "none" => files'[i][m].receipt = files[i][m].receipt
    OBVIOUS
  <2> QED
    BY <2>1, <2>2, <2>3, <2>4, <2>5, <2>6 DEF WorkerSound
<1>4. ResultsOfDone'
  BY DEF ResultsOfDone
<1>5. ASSUME NEW i \in Jobs, ledger'[i].result = "full"
      PROVE  /\ ledger'[i].state = "done"
             /\ files'[i][ledger'[i].nonce].result = "ok"
             /\ worker'[i][ledger'[i].nonce].stage \in {"none", "exited"}
  BY <1>5, NoneFull DEF StartInv
<1>6. ResultOfItsLaunch'
  BY <1>5 DEF ResultOfItsLaunch, BoundFiles, WorkerExited
<1> QED
  BY <1>1, <1>2, <1>3, <1>4, <1>6 DEF CurrentInv

\* A process is started under the current nonce.
LEMMA SpawnsKeeps ==
  ASSUME StartInv, TypeInv', CurrentInv, ResultsOfDone, ResultOfItsLaunch,
         NEW c \in Callers, Spawns(c)
  PROVE  CurrentInv' /\ ResultsOfDone' /\ ResultOfItsLaunch'
<1> USE DEF Spawns
<1> DEFINE j == call[c].job
           n == call[c].nonce
<1>1. ASSUME NEW d \in Callers PROVE CallSound(d)'
  <2>1. CASE d = c
    <3>1. CallSound(c)
      BY DEF CurrentInv
    <3> QED
      BY <2>1, <3>1 DEF CallSound, LaunchSteps, RecoverySteps, Past
  <2>2. CASE d # c
    BY <2>2, OthersSound
  <2> QED
    BY <2>1, <2>2
<1>2. ASSUME NEW i \in Jobs PROVE Unlaunched(i)'
  BY DEF CurrentInv, Unlaunched, Nonces
<1>3. ASSUME NEW i \in Jobs, NEW m \in Nonces PROVE WorkerSound(i, m)'
  <2>1. CASE i = j /\ m = n
    <3>1. files[j][n].result = "none"
      BY DEF CurrentInv, WorkerSound
    <3>2. epoch[c] \in Nat
      BY NumbersAssumption DEF StartInv, TypeInv, Epochs
    <3> QED
      BY <2>1, <3>1, <3>2 DEF WorkerSound, Pid
  <2>2. CASE i # j \/ m # n
    BY <2>2 DEF CurrentInv, WorkerSound
  <2> QED
    BY <2>1, <2>2
<1>4. ResultsOfDone'
  BY DEF ResultsOfDone
<1>5. ASSUME NEW i \in Jobs, ledger'[i].result = "full"
      PROVE  /\ ledger'[i].state = "done"
             /\ files'[i][ledger'[i].nonce].result = "ok"
             /\ worker'[i][ledger'[i].nonce].stage \in {"none", "exited"}
  <2>1. /\ ledger[i].nonce \in Nonces /\ ledger[i].state = "done"
        /\ files[i][ledger[i].nonce].result = "ok"
        /\ worker[i][ledger[i].nonce].stage = "exited"
    BY <1>5, NoneFull DEF StartInv
  <2> QED
    BY <2>1
<1>6. ResultOfItsLaunch'
  BY <1>5 DEF ResultOfItsLaunch, BoundFiles, WorkerExited
<1> QED
  BY <1>1, <1>2, <1>3, <1>4, <1>6 DEF CurrentInv

\* A process that goes on was let through as the current one, and one that
\* has exited does not go on.
LEMMA WorkerKeeps ==
  ASSUME StartInv, TypeInv', CurrentInv, ResultsOfDone, ResultOfItsLaunch,
         NEW j \in Jobs, NEW n \in Nonces, WorkerFrame(j, n)
  PROVE  CurrentInv' /\ ResultsOfDone' /\ ResultOfItsLaunch'
<1> USE DEF WorkerFrame
<1>0. worker[j][n].stage # "none" /\ WorkerSound(j, n)
  BY DEF CurrentInv
<1>1. ASSUME NEW d \in Callers PROVE CallSound(d)'
  <2>1. CallSound(d)
    BY DEF CurrentInv
  <2>2. CASE call[d].at = "idle"
    BY <2>1, <2>2 DEF CallSound, LaunchSteps, RecoverySteps, Past
  <2>3. CASE call[d].at # "idle"
    <3>1. /\ call[d].job \in Jobs
          /\ call[d].at \in LaunchSteps \cup RecoverySteps => call[d].nonce \in Nonces
      BY <2>3, CallFacts DEF StartInv
    <3>2. ASSUME call[d].at \in LaunchSteps \cup {"rotate"}, NEW m \in Nonces
          PROVE  worker'[call[d].job][m].stage # "backend"
      <4>1. worker[call[d].job][m].stage # "backend"
        BY <2>1, <3>2 DEF CallSound
      <4>2. call[d].locked
        BY <3>2 DEF StartInv, LockHeld, RecoverySteps
      <4>3. CASE call[d].job = j /\ m = n
        BY <4>1, <4>2, <4>3 DEF LaunchLockFree
      <4>4. CASE call[d].job # j \/ m # n
        BY <3>1, <4>1, <4>4
      <4> QED
        BY <4>3, <4>4
    <3>3. call[d].at = "salvage" => worker'[call[d].job][call[d].nonce].stage \in {"none", "exited"}
      BY <2>1, <3>1 DEF CallSound, WorkerExited, RecoverySteps
    <3> QED
      BY <2>1, <3>2, <3>3 DEF CallSound, WorkerExited
  <2> QED
    BY <2>2, <2>3
<1>2. ASSUME NEW i \in Jobs PROVE Unlaunched(i)'
  BY DEF CurrentInv, Unlaunched
<1>3. ASSUME NEW i \in Jobs, NEW m \in Nonces PROVE WorkerSound(i, m)'
  <2>1. CASE i = j /\ m = n
    BY <1>0, <2>1 DEF WorkerSound
  <2>2. CASE i # j \/ m # n
    BY <2>2 DEF CurrentInv, WorkerSound
  <2> QED
    BY <2>1, <2>2
<1>4. ResultsOfDone'
  BY DEF ResultsOfDone
<1>5. ASSUME NEW i \in Jobs, ledger'[i].result = "full"
      PROVE  /\ ledger'[i].state = "done"
             /\ files'[i][ledger'[i].nonce].result = "ok"
             /\ worker'[i][ledger'[i].nonce].stage \in {"none", "exited"}
  <2>1. /\ ledger[i].nonce \in Nonces /\ ledger[i].state = "done"
        /\ files[i][ledger[i].nonce].result = "ok"
        /\ worker[i][ledger[i].nonce].stage = "exited"
    BY <1>5, NoneFull DEF StartInv
  <2> QED
    BY <2>1
<1>6. ResultOfItsLaunch'
  BY <1>5 DEF ResultOfItsLaunch, BoundFiles, WorkerExited
<1> QED
  BY <1>1, <1>2, <1>3, <1>4, <1>6 DEF CurrentInv

-----------------------------------------------------------------------------
(* Every step keeps the invariant of launches *)

\* The kinds of step a caller takes.
LaunchStep(c) ==
  \/ QuietStep(c)
  \/ \E j \in Jobs, k \in Nonces : Draws(c, j, k)
  \/ Opens(c)
  \/ Spawns(c)

\* Every step of a caller is of one of them.
LEMMA CallerStep ==
  ASSUME StartInv, CurrentInv, ResultsOfDone, NEW c \in Callers, CallerNext(c)
  PROVE  LaunchStep(c)
<1>1. CASE LaunchNext(c)
  <2>1. ASSUME NEW j \in Jobs, DeployAsync(c, j) PROVE LaunchStep(c)
    <3>1. CASE ledger[j].state = "proposed"
      <4>1. Draws(c, j, issued[j] + 1)
        BY <2>1, <3>1, DeployDraws
      <4>2. issued[j] + 1 \in Nonces
        BY <4>1 DEF Draws
      <4> QED
        BY <4>1, <4>2 DEF LaunchStep
    <3>2. CASE ledger[j].state # "proposed"
      BY <2>1, <3>2, BeginsQuiet DEF LaunchStep
    <3> QED
      BY <3>1, <3>2
  <2> QED
    BY <1>1, <2>1, LaunchQuiet, SpecOpens, SpawnSpawns, RaiseIsStep DEF LaunchNext, LaunchStep
<1>2. CASE RecoveryNext(c)
  <2>1. CASE RotateNonce(c) /\ Rotates(c)
    <3>1. Draws(c, call[c].job, issued[call[c].job] + 1)
      BY <2>1, RotationDraws
    <3>2. call[c].job \in Jobs
      BY <2>1, AloneAtWork DEF RotateNonce, RecoverySteps
    <3>3. issued[call[c].job] + 1 \in Nonces
      BY <3>1 DEF Draws
    <3> QED
      BY <3>1, <3>2, <3>3 DEF LaunchStep
  <2>2. CASE RotateNonce(c) /\ ~Rotates(c)
    BY <2>2, RecoveryQuiet DEF LaunchStep
  <2>3. CASE ~RotateNonce(c)
    BY <1>2, <2>3, BeginsQuiet, RecoveryQuiet DEF RecoveryNext, LaunchStep
  <2> QED
    BY <2>1, <2>2, <2>3
<1>3. CASE RunningNext(c)
  BY <1>3, BeginsQuiet, RunningQuiet DEF RunningNext, LaunchStep
<1>4. CASE KillNext(c)
  BY <1>4, BeginsQuiet, KillQuiet DEF KillNext, LaunchStep
<1>5. CASE Crash(c) \/ CrashInTransaction(c)
  BY <1>5, CrashIsLaunchStep DEF LaunchStep
<1> QED
  BY <1>1, <1>2, <1>3, <1>4, <1>5 DEF CallerNext

\* There are finitely many nonces to use.
LEMMA UsedFinite ==
  ASSUME NEW j \in Jobs
  PROVE  IsFiniteSet(Used(j))
<1>1. IsFiniteSet(Nonces)
  BY MaxNonceType, FS_Interval DEF Nonces
<1> QED
  BY <1>1, FS_Subset DEF Used

\* The nonces used stay as many as the attempts when none is drawn.
LEMMA UsedKept ==
  ASSUME UsedBounded,
         \A j \in Jobs : ledger'[j].nonce = ledger[j].nonce /\ ledger'[j].attempt = ledger[j].attempt,
         \A j \in Jobs, n \in Nonces :
           worker'[j][n].stage # "none" => worker[j][n].stage # "none" \/ n = ledger[j].nonce,
         \A j \in Jobs, n \in Nonces : worker[j][n].stage # "none" => worker'[j][n].stage # "none"
  PROVE  UsedBounded'
<1> SUFFICES ASSUME NEW j \in Jobs PROVE Cardinality(Used(j)') <= ledger'[j].attempt
  BY DEF UsedBounded
<1>1. Used(j)' = Used(j)
  BY DEF Used
<1> QED
  BY <1>1 DEF UsedBounded

\* One more is drawn with one more attempt.
LEMMA UsedDrawn ==
  ASSUME TypeInv, UsedBounded, NEW c \in Callers, NEW j \in Jobs, NEW k \in Nonces, Draws(c, j, k)
  PROVE  UsedBounded'
<1> SUFFICES ASSUME NEW i \in Jobs PROVE Cardinality(Used(i)') <= ledger'[i].attempt
  BY DEF UsedBounded
<1>0. Cardinality(Used(i)) <= ledger[i].attempt
  BY DEF UsedBounded
<1>1. CASE i # j
  <2>1. Used(i)' = Used(i) /\ ledger'[i] = ledger[i]
    BY <1>1 DEF Draws, Used
  <2> QED
    BY <1>0, <2>1
<1>2. CASE i = j
  <2>1. Used(j)' \subseteq Used(j) \cup {k}
    BY DEF Draws, Used
  <2>2. /\ IsFiniteSet(Used(j) \cup {k})
        /\ Cardinality(Used(j) \cup {k}) <= Cardinality(Used(j)) + 1
        /\ Cardinality(Used(j)) \in Nat
    <3>1. IsFiniteSet(Used(j)) /\ Cardinality(Used(j)) \in Nat
      BY UsedFinite, FS_CardinalityType
    <3>2. /\ IsFiniteSet(Used(j) \cup {k})
          /\ Cardinality(Used(j) \cup {k}) =
               IF k \in Used(j) THEN Cardinality(Used(j)) ELSE Cardinality(Used(j)) + 1
      BY <3>1, FS_AddElement
    <3> QED
      BY <3>1, <3>2
  <2>3. Cardinality(Used(j)') <= Cardinality(Used(j) \cup {k})
    BY <2>1, <2>2, FS_Subset
  <2>4. Cardinality(Used(j)') \in Nat /\ Cardinality(Used(j) \cup {k}) \in Nat
    BY <2>1, <2>2, FS_Subset, FS_CardinalityType
  <2>5. ledger[j].attempt \in Nat /\ ledger'[j].attempt = ledger[j].attempt + 1
    BY NumbersAssumption DEF TypeInv, GoodEntries, Entries, Draws
  <2> QED
    BY <1>0, <1>2, <2>2, <2>3, <2>4, <2>5
<1> QED
  BY <1>1, <1>2

\* Nothing changes.
LEMMA LaunchStutters ==
  ASSUME CurrentInv, ResultsOfDone, ResultOfItsLaunch, UsedBounded, UNCHANGED vars
  PROVE  CurrentInv' /\ ResultsOfDone' /\ ResultOfItsLaunch' /\ UsedBounded'
<1> USE DEF vars
<1>1. CurrentInv'
  BY DEF CurrentInv, CallSound, Unlaunched, WorkerSound, WorkerExited
<1>2. ResultsOfDone' /\ ResultOfItsLaunch'
  BY DEF ResultsOfDone, ResultOfItsLaunch, BoundFiles, WorkerExited
<1>3. UsedBounded'
  BY DEF UsedBounded, Used
<1> QED
  BY <1>1, <1>2, <1>3

\* Whoever moves, launches stay current, bound and counted.
LEMMA LaunchInvStep == LaunchInv /\ [Next]_vars => LaunchInv'
<1> SUFFICES ASSUME LaunchInv, [Next]_vars PROVE LaunchInv'
  OBVIOUS
<1> USE DEF LaunchInv
<1>1. StartInv'
  BY StartInvStep
<1>2. TypeInv /\ TypeInv'
  BY <1>1 DEF StartInv
<1>3. ASSUME NEW c \in Callers, CallerNext(c) PROVE LaunchInv'
  <2>1. LaunchStep(c)
    BY <1>3, CallerStep
  <2>2. CASE QuietStep(c)
    <3>1. UsedBounded'
      BY <2>2, UsedKept DEF QuietStep, StagesKept, LedgerFrame, EntryKept
    <3> QED
      BY <1>1, <1>2, <2>2, <3>1, QuietCurrent, QuietResults
  <2>3. ASSUME NEW j \in Jobs, NEW k \in Nonces, Draws(c, j, k) PROVE LaunchInv'
    BY <1>1, <1>2, <2>3, DrawsKeeps, UsedDrawn
  <2>4. CASE Opens(c)
    <3>1. UsedBounded'
      BY <2>4, UsedKept DEF Opens
    <3> QED
      BY <1>1, <1>2, <2>4, <3>1, OpensKeeps
  <2>5. CASE Spawns(c)
    <3>1. UsedBounded'
      BY <2>5, UsedKept DEF Spawns
    <3> QED
      BY <1>1, <1>2, <2>5, <3>1, SpawnsKeeps
  <2> QED
    BY <2>1, <2>2, <2>3, <2>4, <2>5 DEF LaunchStep
<1>4. ASSUME NEW j \in Jobs, NEW n \in Nonces, WorkerNext(j, n) PROVE LaunchInv'
  <2>1. WorkerFrame(j, n)
    BY <1>2, <1>4, WorkerIsFrame
  <2>2. UsedBounded'
    BY <2>1, UsedKept DEF WorkerFrame
  <2> QED
    BY <1>1, <1>2, <2>1, <2>2, WorkerKeeps
<1>5. CASE UNCHANGED vars
  BY <1>1, <1>5, LaunchStutters
<1> QED
  BY <1>3, <1>4, <1>5 DEF Next

\* Nothing was launched yet.
LEMMA LaunchInvInit == Init => LaunchInv
<1> SUFFICES ASSUME Init PROVE LaunchInv
  OBVIOUS
<1>1. StartInv
  <2>1. \A c \in Callers : call[c].at = "idle" /\ ~call[c].locked
    BY DEF Init, Idle
  <2>2. LockHeld
    BY <2>1 DEF LockHeld, LaunchSteps, RecoverySteps
  <2>3. NonceUnused
    BY <2>1 DEF Init, NoWorker, NonceUnused, Starting
  <2> QED
    BY <2>2, <2>3, InitTypeInv DEF StartInv
<1>2. CurrentInv
  <2>1. ASSUME NEW c \in Callers PROVE CallSound(c)
    BY DEF Init, Idle, CallSound, LaunchSteps, RecoverySteps, Past
  <2>2. ASSUME NEW j \in Jobs PROVE Unlaunched(j)
    BY DEF Init, Proposed, NoWorker, Unlaunched
  <2>3. ASSUME NEW j \in Jobs, NEW n \in Nonces PROVE WorkerSound(j, n)
    BY DEF Init, NoWorker, NoFiles, WorkerSound
  <2> QED
    BY <2>1, <2>2, <2>3 DEF CurrentInv
<1>3. ResultsOfDone /\ ResultOfItsLaunch
  BY DEF Init, Proposed, ResultsOfDone, ResultOfItsLaunch
<1>4. UsedBounded
  <2> SUFFICES ASSUME NEW j \in Jobs PROVE Cardinality(Used(j)) <= ledger[j].attempt
    BY DEF UsedBounded
  <2>1. Used(j) = {}
    BY DEF Init, Proposed, NoWorker, Used, Nonces
  <2>2. ledger[j].attempt = 0
    BY DEF Init, Proposed
  <2> QED
    BY <2>1, <2>2, FS_EmptySet
<1> QED
  BY <1>1, <1>2, <1>3, <1>4 DEF LaunchInv

\* However launches are retried, recovered, killed, crashed out of or hit by
\* failing transactions: only the process of the current nonce may work, full
\* results are bound to it, and no nonce is used without an attempt.
THEOREM LaunchInvariant == Spec => []LaunchInv
BY LaunchInvInit, LaunchInvStep, PTL DEF Spec

\* Two workers never execute one job at the same time: the spec and the fence
\* let through only the process whose nonce is in the entry.
THEOREM OneBackend == Spec => []OneBackendPerJob
<1>1. LaunchInv => OneBackendPerJob
  BY DEF LaunchInv, CurrentInv, WorkerSound, OneBackendPerJob
<1> QED
  BY <1>1, LaunchInvariant, PTL

\* A full result in the ledger is the success its own launch nonce published.
THEOREM ResultsBound == Spec => []ResultOfItsLaunch
BY LaunchInvariant, PTL DEF LaunchInv

\* Retries, recoveries and crashes spawn at most MaxAttempts processes a job.
THEOREM SpawnsCounted == Spec => []SpawnsBounded
<1>1. LaunchInv => SpawnsBounded
  <2> SUFFICES ASSUME LaunchInv, NEW j \in Jobs
               PROVE  Cardinality({n \in Nonces : worker[j][n].stage # "none"}) <= MaxAttempts
    BY DEF SpawnsBounded
  <2> DEFINE S == {n \in Nonces : worker[j][n].stage # "none"}
  <2>1. S \subseteq Used(j)
    BY DEF Used
  <2>2. Cardinality(S) <= Cardinality(Used(j)) /\ Cardinality(S) \in Nat /\ Cardinality(Used(j)) \in Nat
    BY <2>1, UsedFinite, FS_Subset, FS_CardinalityType
  <2>3. Cardinality(Used(j)) <= ledger[j].attempt
    BY DEF LaunchInv, UsedBounded
  <2>4. ledger[j].attempt \in 0..MaxAttempts
    BY DEF LaunchInv, StartInv, TypeInv, GoodEntries, Entries
  <2> HIDE DEF S
  <2>5. Cardinality(S) <= MaxAttempts
    BY <2>2, <2>3, <2>4, NumbersAssumption
  <2> QED
    BY <2>5 DEF S
<1> QED
  BY <1>1, LaunchInvariant, PTL

-----------------------------------------------------------------------------
(* Kills *)

\* Only who may kill is in the middle of a kill.
LEMMA KillersStep ==
  ASSUME LaunchInv, KillersOnly, [Next]_vars
  PROVE  KillersOnly'
<1> USE DEF KillersOnly
<1>1. ASSUME NEW c \in Callers, CallerNext(c) PROVE KillersOnly'
  <2>1. LaunchStep(c)
    BY <1>1, CallerStep DEF LaunchInv
  <2>2. OthersWait(c)
    BY <2>1 DEF LaunchStep, QuietStep, CallFrame, Draws, Opens, Spawns
  <2>3. call'[c].at \in KillSteps => c \in Killers \/ call[c].at \in KillSteps
    BY <2>1 DEF LaunchStep, QuietStep, CallFrame, Kills, Draws, Opens, Spawns, KillSteps
  <2> QED
    BY <2>2, <2>3 DEF OthersWait
<1>2. ASSUME NEW j \in Jobs, NEW n \in Nonces, WorkerNext(j, n) PROVE KillersOnly'
  <2>1. UNCHANGED call
    BY <1>2, WorkerRests DEF LaunchInv, StartInv, Rests
  <2> QED
    BY <2>1
<1>3. CASE UNCHANGED vars
  BY <1>3 DEF vars
<1> QED
  BY <1>1, <1>2, <1>3 DEF Next

\* Who does not kill is never in the middle of a kill.
THEOREM KillersInvariant == Spec => []KillersOnly
<1>1. Init => KillersOnly
  BY DEF Init, Idle, KillersOnly, KillSteps
<1> QED
  BY <1>1, KillersStep, LaunchInvariant, PTL DEF Spec

-----------------------------------------------------------------------------
(* A process that works keeps the slot of its job *)

\* An entry leaves deployed by the hand of a call that is alone with its job.
LEMMA LeavesAlone ==
  ASSUME LaunchInv, KillsLocked, NEW c \in Callers, QuietStep(c), NEW j \in Jobs,
         ledger[j].state = "deployed", ledger'[j].state # "deployed",
         NEW d \in Callers, call[d].locked, call[d].job = j
  PROVE  c = d
<1>1. /\ call[c].job = j
      /\ call[c].at \in {"commit", "recover", "retire", "await", "fail", "rotate", "killCommit"}
  BY DEF QuietStep, LedgerFrame, LeavesFlight
<1>2. ledger[j].nonce # 0
  BY JobFacts DEF LaunchInv, StartInv, Nonces
<1>3. call[c].locked
  BY <1>1, <1>2 DEF KillsLocked, KillSteps, LaunchInv, StartInv, LockHeld, LaunchSteps, RecoverySteps
<1> QED
  BY <1>1, <1>3 DEF LaunchInv, StartInv, LockHeld

\* Quiet steps keep reservations.
LEMMA QuietReserves ==
  ASSUME LaunchInv, KillsLocked, SlotInv, NEW c \in Callers, QuietStep(c), NEW d \in Callers
  PROVE  CallReserved(d)'
<1>1. /\ LedgerFrame(c) /\ CallFrame(c) /\ SpecsFenced /\ CallReserved(d)
  BY DEF QuietStep, SlotInv
<1>2. CASE d = c
  <2>1. call'[c].at \in Reserving => ledger'[call'[c].job].state = "deployed"
    BY <1>1, <1>2 DEF CallFrame, Reserves, CallReserved
  <2>2. /\ call'[c].at \in {"killFence", "killCommit"} => ledger'[call'[c].job].state # "running"
        /\ call'[c].at = "killCommit" /\ ledger'[call'[c].job].state = "deployed" =>
             spec'[call'[c].job] = 0
    BY <1>1, <1>2 DEF CallFrame, Fences, CallReserved
  <2> QED
    BY <1>2, <2>1, <2>2 DEF CallReserved
<1>3. CASE d # c /\ call[d].at \in Reserving \cup {"killFence", "killCommit"}
  <2> DEFINE j == call[d].job
  <2>1. call'[d] = call[d]
    BY <1>1, <1>3 DEF CallFrame, OthersWait
  <2>2. j \in Jobs
    BY <1>3, CallFacts DEF LaunchInv, StartInv, Reserving, LaunchSteps
  <2>3. ledger[j].state = "deployed" => call[d].locked
    <3>1. CASE call[d].at \in Reserving
      BY <3>1 DEF Reserving, LaunchInv, StartInv, LockHeld, RecoverySteps
    <3>2. CASE call[d].at \in {"killFence", "killCommit"}
      BY <2>2, <3>2, JobFacts DEF KillsLocked, KillSteps, LaunchInv, StartInv, Nonces
    <3> QED
      BY <1>3, <3>1, <3>2
  <2>4. ledger[j].state = "deployed" => ledger'[j].state = "deployed"
    BY <1>3, <2>2, <2>3, LeavesAlone
  <2>5. /\ ledger'[j].state = "deployed" => ledger[j].state = "deployed"
        /\ ledger'[j].state = "running" => ledger[j].state \in {"deployed", "running"}
        /\ spec'[j] \in {spec[j], 0}
    BY <1>1, <2>2 DEF LedgerFrame, EntryKept, SpecsFenced
  <2> QED
    BY <1>1, <2>1, <2>4, <2>5 DEF CallReserved
<1>4. CASE d # c /\ call[d].at \notin Reserving \cup {"killFence", "killCommit"}
  BY <1>1, <1>4 DEF CallFrame, OthersWait, CallReserved
<1> QED
  BY <1>2, <1>3, <1>4

\* And no slot is given up under a process that works or may still begin to.
LEMMA QuietHolds ==
  ASSUME Killers = {} \/ ~WriteFaults, LaunchInv, KillersOnly, SlotInv,
         NEW c \in Callers, QuietStep(c), NEW j \in Jobs, NEW n \in Nonces
  PROVE  WorkerReserved(j, n)'
<1>1. /\ worker'[j][n].stage = worker[j][n].stage
      /\ LeavesFlight(c, j) /\ EntryKept(j) /\ spec'[j] \in {spec[j], 0} /\ n # 0
  BY DEF QuietStep, StagesKept, LedgerFrame, SpecsFenced, Nonces
<1>2. WorkerReserved(j, n) /\ WorkerSound(j, n) /\ CallReserved(c) /\ CallSound(c)
  BY DEF SlotInv, LaunchInv, CurrentInv
<1>3. ASSUME \/ worker[j][n].stage \in PreBackend /\ spec'[j] = n
             \/ worker[j][n].stage = "backend"
      PROVE  ledger'[j].state \in L!InFlightStates
  <2>1. /\ ledger[j].state \in {"deployed", "running"} /\ ledger[j].nonce = n
        /\ worker[j][n].stage \notin {"none", "exited"}
    BY <1>1, <1>2, <1>3 DEF WorkerReserved, WorkerSound, PreBackend, L!InFlightStates
  <2>2. CASE ledger[j].state = "running"
    BY <1>1, <1>2, <2>1, <2>2 DEF LeavesFlight, WorkerExited, CallReserved, L!InFlightStates
  <2>3. CASE ledger[j].state = "deployed" /\ ledger'[j].state # "deployed"
    <3>1. CASE ledger'[j].state = "running"
      BY <3>1 DEF L!InFlightStates
    <3>2. CASE call[c].at \in {"fail", "rotate"} /\ spec'[j] = 0 /\ call[c].job = j
      BY <1>1, <1>2, <1>3, <2>1, <3>2 DEF CallSound, LaunchSteps
    <3>3. CASE call[c].at = "killCommit" /\ call[c].job = j
      <4>1. spec[j] = 0
        BY <1>2, <2>3, <3>3 DEF CallReserved
      <4>2. ~WriteFaults
        BY <3>3 DEF KillersOnly, KillSteps
      <4>3. worker[j][n].stage # "backend"
        BY <2>3, <4>2 DEF SlotInv, WorkerAttended
      <4> QED
        BY <1>1, <1>3, <4>1, <4>3
    <3> QED
      BY <1>1, <2>3, <3>1, <3>2, <3>3 DEF LeavesFlight
  <2> QED
    BY <2>1, <2>2, <2>3 DEF L!InFlightStates
<1> QED
  BY <1>1, <1>3 DEF WorkerReserved

\* A launcher goes on to attend its process, or dies, or settles the entry.
LEMMA QuietAttends ==
  ASSUME ~WriteFaults, LaunchInv, TypeInv', SlotInv, NEW c \in Callers, QuietStep(c),
         NEW j \in Jobs, NEW n \in Nonces
  PROVE  WorkerAttended(j, n)'
<1> SUFFICES ASSUME ledger'[j].state = "deployed"
             PROVE  /\ worker'[j][n].stage # "backend"
                    /\ worker'[j][n].stage \in PreBackend /\ spec'[j] = n /\ ParentAlive(j, n)' =>
                         LET d == worker'[j][n].parent.caller
                         IN  call'[d].at \in Following /\ call'[d].job = j /\ call'[d].nonce = n
  BY DEF WorkerAttended
<1> DEFINE p == worker[j][n].parent
<1>1. /\ worker'[j][n].stage = worker[j][n].stage /\ worker'[j][n].parent = p
      /\ ledger[j].state = "deployed" /\ spec'[j] \in {spec[j], 0} /\ n # 0
  BY DEF QuietStep, StagesKept, LedgerFrame, EntryKept, SpecsFenced, Nonces
<1>2. worker[j][n].stage # "backend" /\ WorkerAttended(j, n)
  BY <1>1 DEF SlotInv, WorkerAttended
<1>3. ASSUME worker[j][n].stage \in PreBackend, spec'[j] = n, ParentAlive(j, n)'
      PROVE  call'[p.caller].at \in Following /\ call'[p.caller].job = j /\ call'[p.caller].nonce = n
  <2>1. p.caller \in Callers /\ epoch'[p.caller] = p.epoch
    BY <1>1, <1>3 DEF ParentAlive
  <2>2. p.epoch <= epoch[p.caller] /\ epoch[p.caller] <= epoch'[p.caller]
    BY <1>3, <2>1 DEF LaunchInv, CurrentInv, WorkerSound, PreBackend, QuietStep, EpochsGrow
  <2>3. epoch[p.caller] = p.epoch
    BY <2>1, <2>2, EpochFacts DEF LaunchInv, StartInv
  <2>4. call[p.caller].at \in Following /\ call[p.caller].job = j /\ call[p.caller].nonce = n
    BY <1>1, <1>2, <1>3, <2>1, <2>3 DEF WorkerAttended, ParentAlive
  <2>5. CASE p.caller # c
    BY <2>1, <2>4, <2>5 DEF QuietStep, CallFrame, OthersWait
  <2>6. CASE p.caller = c
    <3>1. Follows(c)
      BY DEF QuietStep, CallFrame
    <3>2. ~(epoch'[c] > epoch[c])
      BY <2>1, <2>3, <2>6, EpochFacts DEF LaunchInv, StartInv
    <3> QED
      BY <2>4, <2>6, <3>1, <3>2 DEF Follows
  <2> QED
    BY <2>5, <2>6
<1> QED
  BY <1>1, <1>2, <1>3

\* The steps of a caller that are quiet.
LEMMA QuietSlots ==
  ASSUME Killers = {} \/ ~WriteFaults, LaunchInv, TypeInv', KillersOnly, KillsLocked, SlotInv,
         NEW c \in Callers, QuietStep(c)
  PROVE  SlotInv'
BY QuietReserves, QuietHolds, QuietAttends DEF SlotInv

\* A launch reserves its slot under the lock, and finds no kill at work on the
\* job that does not hold it.
LEMMA DrawsSlots ==
  ASSUME LaunchInv, KillsLocked', SlotInv,
         NEW c \in Callers, NEW j \in Jobs, NEW k \in Nonces, Draws(c, j, k)
  PROVE  SlotInv'
<1> USE DEF Draws
<1>1. ASSUME NEW d \in Callers PROVE CallReserved(d)'
  <2>1. CASE d = c
    BY <2>1 DEF CallReserved
  <2>2. CASE d # c
    <3>1. call'[d] = call[d] /\ CallReserved(d)
      BY <2>2 DEF OthersWait, SlotInv
    <3>2. CASE call[d].job # j /\ call[d].at \in Reserving \cup KillSteps
      <4>1. call[d].job \in Jobs \ {j}
        BY <3>2, CallFacts DEF LaunchInv, StartInv, Reserving, LaunchSteps, KillSteps
      <4> QED
        BY <3>1, <4>1 DEF CallReserved
    <3>3. CASE call[d].job = j
      <4>1. ~call[d].locked
        BY <2>2, <3>3 DEF Alone
      <4>2. call[d].at \notin Reserving
        BY <4>1 DEF Reserving, LaunchInv, StartInv, LockHeld, RecoverySteps
      <4>3. call[d].at \notin KillSteps
        BY <3>1, <3>3, <4>1 DEF KillsLocked, Nonces
      <4> QED
        BY <3>1, <4>2, <4>3 DEF CallReserved, KillSteps
    <3>4. CASE call[d].at \notin Reserving \cup KillSteps
      BY <3>1, <3>4 DEF CallReserved, KillSteps
    <3> QED
      BY <3>2, <3>3, <3>4
  <2> QED
    BY <2>1, <2>2
<1>2. ASSUME NEW i \in Jobs, NEW m \in Nonces PROVE WorkerReserved(i, m)'
  <2>1. CASE i = j
    BY <2>1 DEF WorkerReserved, L!InFlightStates
  <2>2. CASE i # j
    BY <2>2 DEF SlotInv, WorkerReserved
  <2> QED
    BY <2>1, <2>2
<1>3. ASSUME ~WriteFaults, NEW i \in Jobs, NEW m \in Nonces PROVE WorkerAttended(i, m)'
  <2>1. CASE i = j
    BY <2>1 DEF WorkerAttended, PreBackend
  <2>2. CASE i # j
    <3>1. WorkerAttended(i, m)
      BY <1>3 DEF SlotInv
    <3>2. call[c].at \notin Following
      BY DEF Following
    <3>3. worker[i][m].stage \in PreBackend => worker[i][m].parent.caller \in Callers
      BY DEF LaunchInv, CurrentInv, WorkerSound, PreBackend
    <3> QED
      BY <2>2, <3>1, <3>2, <3>3 DEF WorkerAttended, ParentAlive, OthersWait
  <2> QED
    BY <2>1, <2>2
<1> QED
  BY <1>1, <1>2, <1>3 DEF SlotInv

\* A fence is opened under the lock.
LEMMA OpensSlots ==
  ASSUME LaunchInv, TypeInv', KillsLocked, SlotInv, NEW c \in Callers, Opens(c)
  PROVE  SlotInv'
<1> USE DEF Opens
<1> DEFINE j == call[c].job
<1>0. ledger[j].state = "deployed" => ledger[j].nonce # 0
  BY JobFacts DEF LaunchInv, StartInv, Nonces
<1>1. ASSUME NEW d \in Callers PROVE CallReserved(d)'
  <2>0. CallReserved(d) /\ CallReserved(c)
    BY DEF SlotInv
  <2>1. CASE d = c
    BY <2>0, <2>1 DEF CallReserved, Reserving, LaunchSteps
  <2>2. CASE d # c
    <3>1. call'[d] = call[d]
      BY <2>2 DEF OthersWait
    <3>2. ASSUME call[d].at = "killCommit", ledger[call[d].job].state = "deployed"
          PROVE  spec'[call[d].job] = 0
      <4>1. call[d].job \in Jobs
        BY <3>2, CallFacts DEF LaunchInv, StartInv
      <4>2. CASE call[d].job = j
        BY <1>0, <2>2, <3>2, <4>2 DEF KillsLocked, KillSteps, Alone
      <4>3. CASE call[d].job # j
        BY <2>0, <3>2, <4>1, <4>3 DEF CallReserved
      <4> QED
        BY <4>2, <4>3
    <3> QED
      BY <2>0, <3>1, <3>2 DEF CallReserved
  <2> QED
    BY <2>1, <2>2
<1>2. ASSUME NEW i \in Jobs, NEW m \in Nonces PROVE WorkerReserved(i, m)'
  <2>1. worker[i][m].stage # "none" /\ spec'[i] = m => spec[i] = m
    OBVIOUS
  <2> QED
    BY <2>1 DEF SlotInv, WorkerReserved, PreBackend
<1>3. ASSUME ~WriteFaults, NEW i \in Jobs, NEW m \in Nonces PROVE WorkerAttended(i, m)'
  <2>1. WorkerAttended(i, m)
    BY <1>3 DEF SlotInv
  <2>2. worker[i][m].stage # "none" /\ spec'[i] = m => spec[i] = m
    OBVIOUS
  <2>3. worker[i][m].stage \in PreBackend =>
          /\ worker[i][m].parent.caller \in Callers
          /\ worker[i][m].parent.epoch <= epoch[worker[i][m].parent.caller]
          /\ epoch[worker[i][m].parent.caller] <= epoch'[worker[i][m].parent.caller]
    BY DEF LaunchInv, CurrentInv, WorkerSound, PreBackend, EpochsGrow
  <2>4. worker[i][m].stage \in PreBackend /\ ParentAlive(i, m)' => ParentAlive(i, m)
    BY <2>3, EpochFacts DEF ParentAlive, LaunchInv, StartInv
  <2>5. call[c].at \notin Following
    BY DEF Following
  <2> QED
    BY <2>1, <2>2, <2>3, <2>4, <2>5 DEF WorkerAttended, OthersWait, PreBackend
<1> QED
  BY <1>1, <1>2, <1>3 DEF SlotInv

\* A launcher attends the process it starts.
LEMMA SpawnsSlots ==
  ASSUME LaunchInv, SlotInv, NEW c \in Callers, Spawns(c)
  PROVE  SlotInv'
<1> USE DEF Spawns
<1> DEFINE j == call[c].job
           n == call[c].nonce
<1>0. CallReserved(c) /\ ledger[j].state = "deployed"
  BY DEF SlotInv, CallReserved, Reserving, LaunchSteps
<1>1. ASSUME NEW d \in Callers PROVE CallReserved(d)'
  BY <1>0 DEF SlotInv, CallReserved, OthersWait
<1>2. ASSUME NEW i \in Jobs, NEW m \in Nonces PROVE WorkerReserved(i, m)'
  BY <1>0 DEF SlotInv, WorkerReserved, L!InFlightStates
<1>3. ASSUME ~WriteFaults, NEW i \in Jobs, NEW m \in Nonces PROVE WorkerAttended(i, m)'
  <2>1. CASE i = j /\ m = n
    <3>1. worker'[i][m].stage = "started" /\ worker'[i][m].parent.caller = c
      BY <2>1 DEF Pid
    <3>2. call'[c].at \in Following /\ call'[c].job = i /\ call'[c].nonce = m
      BY <2>1 DEF Following
    <3> QED
      BY <3>1, <3>2 DEF WorkerAttended
  <2>2. CASE i # j \/ m # n
    <3>1. WorkerAttended(i, m) /\ worker'[i][m] = worker[i][m]
      BY <1>3, <2>2 DEF SlotInv
    <3>2. call[c].at \notin Following
      BY DEF Following
    <3> QED
      BY <3>1, <3>2 DEF WorkerAttended, ParentAlive, OthersWait
  <2> QED
    BY <2>1, <2>2
<1> QED
  BY <1>1, <1>2, <1>3 DEF SlotInv

\* A process passes its fence only when the lock is free: of a deployed job,
\* none does.
LEMMA WorkerSlots ==
  ASSUME LaunchInv, SlotInv, NEW j \in Jobs, NEW n \in Nonces, WorkerFrame(j, n)
  PROVE  SlotInv'
<1> USE DEF WorkerFrame
<1>1. ASSUME NEW d \in Callers PROVE CallReserved(d)'
  BY DEF SlotInv, CallReserved
<1>2. ASSUME NEW i \in Jobs, NEW m \in Nonces PROVE WorkerReserved(i, m)'
  <2>1. CASE i = j /\ m = n
    BY <2>1 DEF SlotInv, WorkerReserved
  <2>2. CASE i # j \/ m # n
    BY <2>2 DEF SlotInv, WorkerReserved
  <2> QED
    BY <2>1, <2>2
<1>3. ASSUME ~WriteFaults, NEW i \in Jobs, NEW m \in Nonces PROVE WorkerAttended(i, m)'
  <2>1. WorkerAttended(i, m)
    BY <1>3 DEF SlotInv
  <2>2. CASE i = j /\ m = n
    <3>1. ASSUME worker'[j][n].stage = "backend", ledger[j].state = "deployed" PROVE FALSE
      <4>1. /\ worker[j][n].stage \in PreBackend
            /\ LaunchLockFree(j) /\ spec[j] = n /\ ParentAlive(j, n)
        BY <2>1, <2>2, <3>1 DEF WorkerAttended
      <4>2. /\ worker[j][n].parent.caller \in Callers
            /\ call[worker[j][n].parent.caller].at \in Following
            /\ call[worker[j][n].parent.caller].job = j
        BY <2>1, <2>2, <3>1, <4>1 DEF WorkerAttended, ParentAlive
      <4>3. call[worker[j][n].parent.caller].locked
        BY <4>2 DEF Following, LaunchSteps, LaunchInv, StartInv, LockHeld
      <4> QED
        BY <4>1, <4>2, <4>3 DEF LaunchLockFree
    <3> QED
      BY <2>1, <2>2, <3>1 DEF WorkerAttended, ParentAlive
  <2>3. CASE i # j \/ m # n
    BY <2>1, <2>3 DEF WorkerAttended, ParentAlive
  <2> QED
    BY <2>2, <2>3
<1> QED
  BY <1>1, <1>2, <1>3 DEF SlotInv

\* Every step, between states in which kills hold the lock.
LEMMA SlotInvStep ==
  ASSUME Killers = {} \/ ~WriteFaults, LaunchInv, LaunchInv', KillersOnly,
         KillsLocked, KillsLocked', SlotInv, [Next]_vars
  PROVE  SlotInv'
<1>1. TypeInv /\ TypeInv'
  BY DEF LaunchInv, StartInv
<1>2. ASSUME NEW c \in Callers, CallerNext(c) PROVE SlotInv'
  <2>1. LaunchStep(c)
    BY <1>2, CallerStep DEF LaunchInv
  <2> QED
    BY <1>1, <2>1, QuietSlots, DrawsSlots, OpensSlots, SpawnsSlots DEF LaunchStep
<1>3. ASSUME NEW j \in Jobs, NEW n \in Nonces, WorkerNext(j, n) PROVE SlotInv'
  BY <1>1, <1>3, WorkerIsFrame, WorkerSlots DEF LaunchInv
<1>4. CASE UNCHANGED vars
  BY <1>4 DEF vars, SlotInv, CallReserved, WorkerReserved, WorkerAttended, ParentAlive
<1> QED
  BY <1>2, <1>3, <1>4 DEF Next

\* Nothing is reserved and nothing works.
LEMMA SlotInvInit == Init => SlotInv
BY DEF Init, Idle, NoWorker, Proposed, SlotInv, CallReserved, WorkerReserved, WorkerAttended,
       Reserving, LaunchSteps, PreBackend

\* If a kill holds the launch lock of any job that was launched, and either no
\* one kills or no launch transaction fails, reservations and slots are kept.
THEOREM SlotInvariant ==
  ASSUME Killers = {} \/ ~WriteFaults
  PROVE  Spec /\ []KillsLocked => []SlotInv
<1>1. LaunchInv /\ LaunchInv' /\ KillersOnly /\ KillsLocked /\ KillsLocked' /\ SlotInv /\ [Next]_vars
        => SlotInv'
  BY SlotInvStep
<1> QED
  BY <1>1, SlotInvInit, LaunchInvariant, KillersInvariant, PTL DEF Spec

\* Then a process past its fence belongs to a job that counts against the cap.
THEOREM SlotsHeld ==
  ASSUME Killers = {} \/ ~WriteFaults
  PROVE  Spec /\ []KillsLocked => []BackendHoldsSlot
<1>1. LaunchInv /\ SlotInv => BackendHoldsSlot
  BY DEF LaunchInv, CurrentInv, WorkerSound, SlotInv, WorkerReserved, BackendHoldsSlot
<1> QED
  BY <1>1, SlotInvariant, LaunchInvariant, PTL

\* And the process of a killed job has ended: what lets one go on working is
\* the kill that read the job before its launch and takes no lock.
THEOREM KillsEndProcesses ==
  ASSUME Killers = {} \/ ~WriteFaults
  PROVE  Spec /\ []KillsLocked => []KilledAfterExit
<1>1. SlotInv => KilledAfterExit
  BY DEF SlotInv, WorkerReserved, KilledAfterExit, L!InFlightStates
<1> QED
  BY <1>1, SlotInvariant, PTL

\* What a caller does to the artifacts of a process adds no evidence.
LEMMA CallersPublishNothing ==
  ASSUME TypeInv, NEW c \in Callers, CallerNext(c), NEW j \in Jobs, NEW n \in Nonces
  PROVE  files'[j][n].evidence => files[j][n].evidence
<1> DEFINE Blanked == \E i, m : files' = [files EXCEPT ![i][m] = NoFiles]
           Dropped == \E i, m : files' = [files EXCEPT ![i][m].evidence = FALSE]
           Receipt == \E i, m : files' = [files EXCEPT ![i][m].receipt = Pid(c)]
           Stamped == \E i, m, late : files' = [files EXCEPT ![i][m].late = late]
<1>1. UNCHANGED files \/ Blanked \/ Dropped \/ Receipt \/ Stamped
  <2>1. CASE LaunchNext(c)
    <3>1. CASE WriteSpec(c)
      BY <3>1 DEF WriteSpec
    <3>2. CASE PublishReceipt(c)
      BY <3>2 DEF PublishReceipt
    <3>3. CASE ~WriteSpec(c) /\ ~PublishReceipt(c)
      BY <2>1, <3>3 DEF LaunchNext, DeployAsync, Recheck, SpawnWorker, LaunchRaises, FailLaunch,
                        CommitRunning, TransactionRaises
    <3> QED
      BY <3>1, <3>2, <3>3
  <2>2. CASE RecoveryNext(c)
    <3>1. CASE HarvestAdopted(c)
      BY <3>1 DEF HarvestAdopted, HarvestSuccess, HarvestEvidence, HarvestFailure, DropEvidence
    <3>2. CASE ~HarvestAdopted(c)
      BY <2>2, <3>2 DEF RecoveryNext, ReconcileDeployed, RecoverUnidentified, RecoverAdopt,
                        RecoverRetire, Retire, AwaitRetirement, Salvage, RotateNonce
    <3> QED
      BY <3>1, <3>2
  <2>3. CASE RunningNext(c)
    <3>1. ASSUME NEW i \in Jobs, HarvestResult(c, i)
          PROVE  UNCHANGED files \/ Dropped
      BY <3>1 DEF HarvestResult, HarvestSuccess, HarvestEvidence, HarvestFailure, DropEvidence
    <3>2. ASSUME NEW i \in Jobs, CloseExpired(c, i)
          PROVE  UNCHANGED files \/ Dropped
      BY <3>2 DEF CloseExpired, CloseExited, HarvestSuccess, HarvestEvidence, DropEvidence
    <3>3. ASSUME NEW i \in Jobs, RecoverArtifact(c, i)
          PROVE  UNCHANGED files \/ Dropped
      BY <3>3 DEF RecoverArtifact, DropEvidence
    <3>4. ASSUME NEW i \in Jobs, FindNothing(c, i) \/ MarkExpired(c, i) \/ Consume(c, i)
          PROVE  UNCHANGED files
      BY <3>4 DEF FindNothing, MarkExpired, Consume
    <3>5. CASE DeclareDied(c) \/ SignalExpired(c)
      BY <3>5 DEF DeclareDied, SignalExpired
    <3> QED
      BY <2>3, <3>1, <3>2, <3>3, <3>4, <3>5 DEF RunningNext
  <2>4. CASE KillNext(c)
    <3>1. KillClose(c) => UNCHANGED files \/ Dropped
      BY DEF KillClose, CloseExited, HarvestSuccess, HarvestEvidence, DropEvidence
    <3>2. CASE KillRead(c)
      BY <3>2 DEF KillRead, HarvestSuccess, HarvestEvidence, DropEvidence
    <3>3. CASE KillTerminate(c) \/ KillAwait(c)
      BY <3>1, <3>3 DEF KillTerminate, KillAwait
    <3>4. CASE KillCommit(c)
      <4> DEFINE i == call[c].job
                 m == ledger[i].nonce
      <4>1. ASSUME NEW late, files' = IF late = {} THEN files
                                      ELSE [files EXCEPT ![i][m].late = late]
            PROVE  UNCHANGED files \/ Stamped
        <5>1. UNCHANGED files \/ files' = [files EXCEPT ![i][m].late = late]
          BY <4>1, Zenon
        <5> QED
          BY <5>1, Zenon
      <4>2. \/ UNCHANGED files
            \/ \E late : files' = IF late = {} THEN files
                                   ELSE [files EXCEPT ![i][m].late = late]
        BY <3>4, Zenon DEF KillCommit
      <4> QED
        BY <4>1, <4>2
    <3>5. CASE KillFence(c) \/ \E i \in Jobs : BeginKill(c, i)
      BY <3>5 DEF KillFence, BeginKill
    <3> QED
      BY <2>4, <3>2, <3>3, <3>4, <3>5 DEF KillNext
  <2>5. CASE Crash(c) \/ CrashInTransaction(c)
    BY <2>5 DEF Crash, CrashInTransaction, SpecAhead
  <2> QED
    BY <2>1, <2>2, <2>3, <2>4, <2>5 DEF CallerNext
<1>2. files[j][n] \in FileStates /\ files \in [Jobs -> [Nonces -> FileStates]]
  BY DEF TypeInv
<1>3. ASSUME NEW i, NEW m, files' = [files EXCEPT ![i][m] = NoFiles]
      PROVE  files'[j][n].evidence => files[j][n].evidence
  BY <1>2, <1>3 DEF NoFiles
<1>4. ASSUME NEW i, NEW m, files' = [files EXCEPT ![i][m].evidence = FALSE]
      PROVE  files'[j][n].evidence => files[j][n].evidence
  BY <1>2, <1>4 DEF FileStates
<1>5. ASSUME NEW i, NEW m, files' = [files EXCEPT ![i][m].receipt = Pid(c)]
      PROVE  files'[j][n].evidence => files[j][n].evidence
  BY <1>2, <1>5 DEF FileStates
<1>6. ASSUME NEW i, NEW m, NEW late, files' = [files EXCEPT ![i][m].late = late]
      PROVE  files'[j][n].evidence => files[j][n].evidence
  BY <1>2, <1>6 DEF FileStates
<1> QED
  BY <1>1, <1>3, <1>4, <1>5, <1>6

\* No caller adds a result either, or changes the nonce of a settled entry.
LEMMA CallersAddNothing ==
  ASSUME LaunchInv, NEW c \in Callers, CallerNext(c), NEW j \in Jobs,
         ledger[j].state \in {"killed", "failed"}, ledger[j].nonce # 0
  PROVE  Deliverables(j)' \subseteq Deliverables(j)
<1> DEFINE n == ledger[j].nonce
<1>1. LaunchStep(c) /\ TypeInv /\ n \in Nonces
  BY CallerStep, JobFacts DEF LaunchInv, StartInv, Nonces
<1>2. ledger'[j].nonce = n
  BY <1>1 DEF LaunchStep, QuietStep, LedgerFrame, EntryKept, Draws, Opens, Spawns
<1>3. files'[j][n].result \in {files[j][n].result, "none"}
  BY <1>1 DEF LaunchStep, QuietStep, ArtifactsKept, Draws, Opens, Spawns
<1>4. files'[j][n].evidence => files[j][n].evidence
  BY <1>1, CallersPublishNothing
<1> QED
  BY <1>2, <1>3, <1>4 DEF Deliverables, BoundFiles

\* A process whose job is settled is not past its fence, and publishes nothing
\* that a job can be done with.
LEMMA WorkersAddNothing ==
  ASSUME LaunchInv, SlotInv, NEW i \in Jobs, NEW m \in Nonces, WorkerNext(i, m), NEW j \in Jobs,
         ledger[j].state \in {"killed", "failed"}, ledger[j].nonce # 0
  PROVE  Deliverables(j)' \subseteq Deliverables(j)
<1> DEFINE n == ledger[j].nonce
<1>1. TypeInv /\ n \in Nonces /\ WorkerFrame(i, m)
  BY JobFacts, WorkerIsFrame DEF LaunchInv, StartInv, Nonces
<1>2. ledger'[j].nonce = n
  BY <1>1 DEF WorkerFrame
<1>3. CASE i # j \/ m # n
  <2>1. files'[j][n] = files[j][n]
    BY <1>1, <1>3 DEF WorkerFrame
  <2> QED
    BY <1>2, <2>1 DEF Deliverables, BoundFiles
<1>4. CASE i = j /\ m = n
  <2>1. worker[j][n].stage # "backend"
    BY <1>1 DEF SlotInv, WorkerReserved, L!InFlightStates
  <2>2. \/ UNCHANGED files
        \/ \E p : files' = [files EXCEPT ![j][n].receipt = p]
        \/ \E late : files' = [files EXCEPT ![j][n].result = "interrupted", ![j][n].late = late]
    BY <1>4, <2>1 DEF WorkerNext, LoadSpec, PublishIdentity, PassFence, PublishEvidence,
                      FinishBackend, InterruptWorker, ExitWorker
  <2>3. files \in [Jobs -> [Nonces -> FileStates]] /\ files[j][n] \in FileStates
    BY <1>1 DEF TypeInv
  <2>4. ASSUME NEW p, files' = [files EXCEPT ![j][n].receipt = p]
        PROVE  files'[j][n].result = files[j][n].result /\ files'[j][n].evidence = files[j][n].evidence
    BY <1>1, <2>3, <2>4 DEF FileStates
  <2>5. ASSUME NEW late,
               files' = [files EXCEPT ![j][n].result = "interrupted", ![j][n].late = late]
        PROVE  files'[j][n].result = "interrupted" /\ files'[j][n].evidence = files[j][n].evidence
    BY <1>1, <2>3, <2>5 DEF FileStates
  <2>6. /\ files'[j][n].result \in {files[j][n].result, "interrupted"}
        /\ files'[j][n].evidence = files[j][n].evidence
    BY <2>2, <2>4, <2>5
  <2> QED
    BY <1>2, <2>6 DEF Deliverables, BoundFiles
<1> QED
  BY <1>3, <1>4

\* Under the same condition the worker is gone when its job gets a verdict:
\* nothing that the job could be done with is published after it.
THEOREM NothingPublishedLater ==
  ASSUME Killers = {} \/ ~WriteFaults
  PROVE  Spec /\ []KillsLocked => NoLaterWrite
<1>1. LaunchInv /\ SlotInv /\ [Next]_vars =>
        [\A j \in Jobs :
           ledger[j].state \in {"killed", "failed"} /\ ledger[j].nonce # 0 =>
             Deliverables(j)' \subseteq Deliverables(j)]_vars
  BY CallersAddNothing, WorkersAddNothing DEF Next
<1> QED
  BY <1>1, SlotInvariant, LaunchInvariant, PTL DEF Spec, NoLaterWrite

\* Without kills, whatever else crashes and fails, a worker past its fence
\* holds the slot of its job.
THEOREM SlotsHeldUnlessKilled ==
  ASSUME Killers = {}
  PROVE  Spec => []BackendHoldsSlot
<1>1. KillersOnly => KillsLocked
  BY DEF KillersOnly, KillsLocked
<1> QED
  BY <1>1, KillersInvariant, SlotsHeld, PTL
=============================================================================
