------------------------ MODULE AutomationRunsProofs ------------------------
(***************************************************************************)
(* Proofs about AutomationRuns, for any workers, automations, devices and  *)
(* runs and any number of faults.  Each lemma ...Step shows that every     *)
(* action preserves one part of IInv.                                      *)
(***************************************************************************)
EXTENDS AutomationRuns, FiniteSetTheorems, TLAPS

\* Every step keeps the tables and the workers well typed.
LEMMA TypeStep ==
    ASSUME TypeOK, [Next]_vars
    PROVE  TypeOK'
<1> USE NoRunAssumption, FaultsAssumption, AutomationOfAssumption
<1>1. ASSUME NEW d \in Devices, SwitchDevice(d) PROVE TypeOK'
  BY <1>1 DEF SwitchDevice, TypeOK, rows, Idle
<1>2. ASSUME NEW a \in Automations, Create(a) PROVE TypeOK'
  BY <1>2 DEF Create, CreateAutomation, TypeOK, rows, Idle
<1>3. ASSUME NEW a \in Automations, Activate(a) PROVE TypeOK'
  BY <1>3 DEF Activate, SetAutomationState, TypeOK, rows, Idle
<1>4. ASSUME NEW a \in Automations, Pause(a) PROVE TypeOK'
  BY <1>4 DEF Pause, SetAutomationState, TypeOK, rows, Idle
<1>5. ASSUME NEW r \in Runs, Queue(r) PROVE TypeOK'
  BY <1>5 DEF Queue, TypeOK, rows, Idle
<1>6. ASSUME NEW r \in Runs, QueueRun(r) PROVE TypeOK'
  <2>1. Cardinality({k \in Runs : id[k] # 0}) \in Nat
    BY RunsAssumption, FS_Subset, FS_CardinalityType
  <2>. QED
    BY <1>6, <2>1 DEF QueueRun, TypeOK, rows
<1>7. ASSUME NEW r \in Runs, Overdue(r) PROVE TypeOK'
  BY <1>7 DEF Overdue, TypeOK, rows, Idle
<1>8. ASSUME NEW r \in Runs, StallPastCutoff(r) PROVE TypeOK'
  BY <1>8 DEF StallPastCutoff, Fault, Disturb, TypeOK, rows, Idle
<1>9. ASSUME NEW w \in Workers, NEW r \in Runs, ClaimRun(w, r) PROVE TypeOK'
  BY <1>9 DEF ClaimRun, StartRun, Candidate, TypeOK, rows, Idle
<1>10. ASSUME NEW w \in Workers, NEW r \in Runs, ClaimRunLost(w, r) PROVE TypeOK'
  BY <1>10 DEF ClaimRunLost, StartRun, Candidate, Fault, Disturb, TypeOK, rows, Idle
<1>11. ASSUME NEW w \in Workers, BeginExecute(w) PROVE TypeOK'
  BY <1>11 DEF BeginExecute, Goto, TypeOK, rows, Idle
<1>12. ASSUME NEW w \in Workers, RefuseExecute(w) PROVE TypeOK'
  BY <1>12 DEF RefuseExecute, Goto, TypeOK, rows, Idle
<1>13. ASSUME NEW w \in Workers, Commit(w) PROVE TypeOK'
  BY <1>13 DEF Commit, Dispatch, TypeOK, rows, Idle
<1>14. ASSUME NEW w \in Workers, ExecuteCancelled(w) PROVE TypeOK'
  BY <1>14 DEF ExecuteCancelled, Goto, TypeOK, rows, Idle
<1>15. ASSUME NEW w \in Workers, CommitUnknown(w) PROVE TypeOK'
  BY <1>15 DEF CommitUnknown, Goto, Dispatch, Fault, Disturb, TypeOK, rows, Idle
<1>16. ASSUME NEW w \in Workers, ExecuteError(w) PROVE TypeOK'
  BY <1>16 DEF ExecuteError, Goto, Fault, Disturb, TypeOK, rows, Idle
<1>17. ASSUME NEW w \in Workers, RequeueRun(w) PROVE TypeOK'
  BY <1>17 DEF RequeueRun, TypeOK, rows, Idle
<1>18. ASSUME NEW w \in Workers, FinishRun(w) PROVE TypeOK'
  BY <1>18 DEF FinishRun, TypeOK, rows, Idle
<1>19. ASSUME NEW w \in Workers, PersistFails(w) PROVE TypeOK'
  BY <1>19 DEF PersistFails, Fault, Disturb, TypeOK, rows, Idle
<1>20. CASE FinishStaleRuns
  BY <1>20 DEF FinishStaleRuns, TypeOK, rows, Idle
<1>21. ASSUME NEW w \in Workers, Shutdown(w) PROVE TypeOK'
  BY <1>21 DEF Shutdown, Fault, Disturb, TypeOK, rows, Idle
<1>22. ASSUME NEW w \in Workers, Exit(w) PROVE TypeOK'
  BY <1>22 DEF Exit, Halt, TypeOK, rows, Idle
<1>23. ASSUME NEW w \in Workers, Crash(w) PROVE TypeOK'
  BY <1>23 DEF Crash, Halt, Fault, Disturb, TypeOK, rows, Idle
<1>24. ASSUME NEW w \in Workers, Restart(w) PROVE TypeOK'
  BY <1>24 DEF Restart, TypeOK, rows, Idle
<1>25. CASE UNCHANGED vars
  BY <1>25 DEF vars, rows, TypeOK, Idle
<1>26. CASE VacuumSessions \/ ExpirePlans
  BY <1>26 DEF VacuumSessions, ExpirePlans, rows, TypeOK, Idle
<1>27. CASE CycleFails
  BY <1>27 DEF CycleFails, Disturb, rows, TypeOK, Idle
<1>. QED
  BY <1>1, <1>2, <1>3, <1>4, <1>5, <1>6, <1>7, <1>8, <1>9, <1>10, <1>11, <1>12,
      <1>13, <1>14, <1>15, <1>16, <1>17, <1>18, <1>19, <1>20, <1>21, <1>22,
      <1>23, <1>24, <1>25, <1>26, <1>27
  DEF Next, Execute, Persist, Maintenance

\* Whatever takes a run out of 'running' also takes it from the sweep.
LEMMA OverdueStep ==
    ASSUME TypeOK, OverdueIsRunning, LockedIsRunning, OneOwner, [Next]_vars
    PROVE  OverdueIsRunning'
<1> USE NoRunAssumption
<1>1. ASSUME NEW d \in Devices, SwitchDevice(d) PROVE OverdueIsRunning'
  BY <1>1 DEF SwitchDevice, TypeOK, rows, Idle, OverdueIsRunning,
      LockedIsRunning, Locked, OneOwner, Busy
<1>2. ASSUME NEW a \in Automations, Create(a) PROVE OverdueIsRunning'
  BY <1>2 DEF Create, CreateAutomation, TypeOK, rows, Idle, OverdueIsRunning, LockedIsRunning,
      Locked, OneOwner, Busy
<1>3. ASSUME NEW a \in Automations, Activate(a) PROVE OverdueIsRunning'
  BY <1>3 DEF Activate, SetAutomationState, TypeOK, rows, Idle,
      OverdueIsRunning, LockedIsRunning, Locked, OneOwner, Busy
<1>4. ASSUME NEW a \in Automations, Pause(a) PROVE OverdueIsRunning'
  BY <1>4 DEF Pause, SetAutomationState, TypeOK, rows, Idle, OverdueIsRunning,
      LockedIsRunning, Locked, OneOwner, Busy
<1>5. ASSUME NEW r \in Runs, Queue(r) PROVE OverdueIsRunning'
  BY <1>5 DEF Queue, TypeOK, rows, Idle, OverdueIsRunning, LockedIsRunning,
      Locked, OneOwner, Busy
<1>6. ASSUME NEW r \in Runs, QueueRun(r) PROVE OverdueIsRunning'
  BY <1>6 DEF QueueRun, TypeOK, rows, Idle, OverdueIsRunning, LockedIsRunning,
      Locked, OneOwner, Busy
<1>7. ASSUME NEW r \in Runs, Overdue(r) PROVE OverdueIsRunning'
  BY <1>7 DEF Overdue, TypeOK, rows, Idle, OverdueIsRunning, LockedIsRunning,
      Locked, OneOwner, Busy
<1>8. ASSUME NEW r \in Runs, StallPastCutoff(r) PROVE OverdueIsRunning'
  BY <1>8 DEF StallPastCutoff, Fault, Disturb, TypeOK, rows, Idle, OverdueIsRunning,
      LockedIsRunning, Locked, OneOwner, Busy
<1>9. ASSUME NEW w \in Workers, NEW r \in Runs, ClaimRun(w, r) PROVE OverdueIsRunning'
  BY <1>9 DEF ClaimRun, StartRun, Candidate, TypeOK, rows, Idle,
      OverdueIsRunning, LockedIsRunning, Locked, OneOwner, Busy
<1>10. ASSUME NEW w \in Workers, NEW r \in Runs, ClaimRunLost(w, r) PROVE OverdueIsRunning'
  BY <1>10 DEF ClaimRunLost, StartRun, Candidate, Fault, Disturb, TypeOK, rows, Idle,
      OverdueIsRunning, LockedIsRunning, Locked, OneOwner, Busy
<1>11. ASSUME NEW w \in Workers, BeginExecute(w) PROVE OverdueIsRunning'
  BY <1>11 DEF BeginExecute, Goto, TypeOK, rows, Idle, OverdueIsRunning,
      LockedIsRunning, Locked, OneOwner, Busy
<1>12. ASSUME NEW w \in Workers, RefuseExecute(w) PROVE OverdueIsRunning'
  BY <1>12 DEF RefuseExecute, Goto, TypeOK, rows, Idle, OverdueIsRunning,
      LockedIsRunning, Locked, OneOwner, Busy
<1>13. ASSUME NEW w \in Workers, Commit(w) PROVE OverdueIsRunning'
  BY <1>13 DEF Commit, Dispatch, TypeOK, rows, Idle, OverdueIsRunning,
      LockedIsRunning, Locked, OneOwner, Busy
<1>14. ASSUME NEW w \in Workers, ExecuteCancelled(w) PROVE OverdueIsRunning'
  BY <1>14 DEF ExecuteCancelled, Goto, TypeOK, rows, Idle, OverdueIsRunning,
      LockedIsRunning, Locked, OneOwner, Busy
<1>15. ASSUME NEW w \in Workers, CommitUnknown(w) PROVE OverdueIsRunning'
  BY <1>15 DEF CommitUnknown, Goto, Dispatch, Fault, Disturb, TypeOK, rows, Idle,
      OverdueIsRunning, LockedIsRunning, Locked, OneOwner, Busy
<1>16. ASSUME NEW w \in Workers, ExecuteError(w) PROVE OverdueIsRunning'
  BY <1>16 DEF ExecuteError, Goto, Fault, Disturb, TypeOK, rows, Idle, OverdueIsRunning,
      LockedIsRunning, Locked, OneOwner, Busy
<1>17. ASSUME NEW w \in Workers, RequeueRun(w) PROVE OverdueIsRunning'
  BY <1>17 DEF RequeueRun, TypeOK, rows, Idle, OverdueIsRunning,
      LockedIsRunning, Locked, OneOwner, Busy
<1>18. ASSUME NEW w \in Workers, FinishRun(w) PROVE OverdueIsRunning'
  BY <1>18 DEF FinishRun, TypeOK, rows, Idle, OverdueIsRunning,
      LockedIsRunning, Locked, OneOwner, Busy
<1>19. ASSUME NEW w \in Workers, PersistFails(w) PROVE OverdueIsRunning'
  BY <1>19 DEF PersistFails, Fault, Disturb, TypeOK, rows, Idle, OverdueIsRunning,
      LockedIsRunning, Locked, OneOwner, Busy
<1>20. CASE FinishStaleRuns
  BY <1>20 DEF FinishStaleRuns, TypeOK, rows, Idle, OverdueIsRunning,
      LockedIsRunning, Locked, OneOwner, Busy
<1>21. ASSUME NEW w \in Workers, Shutdown(w) PROVE OverdueIsRunning'
  BY <1>21 DEF Shutdown, Fault, Disturb, TypeOK, rows, Idle, OverdueIsRunning,
      LockedIsRunning, Locked, OneOwner, Busy
<1>22. ASSUME NEW w \in Workers, Exit(w) PROVE OverdueIsRunning'
  BY <1>22 DEF Exit, Halt, TypeOK, rows, Idle, OverdueIsRunning,
      LockedIsRunning, Locked, OneOwner, Busy
<1>23. ASSUME NEW w \in Workers, Crash(w) PROVE OverdueIsRunning'
  BY <1>23 DEF Crash, Halt, Fault, Disturb, TypeOK, rows, Idle, OverdueIsRunning,
      LockedIsRunning, Locked, OneOwner, Busy
<1>24. ASSUME NEW w \in Workers, Restart(w) PROVE OverdueIsRunning'
  BY <1>24 DEF Restart, TypeOK, rows, Idle, OverdueIsRunning, LockedIsRunning,
      Locked, OneOwner, Busy
<1>25. CASE UNCHANGED vars
  BY <1>25 DEF vars, rows, TypeOK, Idle, OverdueIsRunning, LockedIsRunning,
      Locked, OneOwner, Busy
<1>26. CASE VacuumSessions \/ ExpirePlans
  BY <1>26 DEF VacuumSessions, ExpirePlans, rows, TypeOK, Idle, OverdueIsRunning, LockedIsRunning, Locked, OneOwner, Busy
<1>27. CASE CycleFails
  BY <1>27 DEF CycleFails, Disturb, rows, TypeOK, Idle, OverdueIsRunning, LockedIsRunning, Locked, OneOwner, Busy
<1>. QED
  BY <1>1, <1>2, <1>3, <1>4, <1>5, <1>6, <1>7, <1>8, <1>9, <1>10, <1>11, <1>12,
      <1>13, <1>14, <1>15, <1>16, <1>17, <1>18, <1>19, <1>20, <1>21, <1>22,
      <1>23, <1>24, <1>25, <1>26, <1>27
  DEF Next, Execute, Persist, Maintenance

\* No statement of another actor moves a run that a transaction has locked.
LEMMA LockedStep ==
    ASSUME TypeOK, LockedIsRunning, OverdueIsRunning, OneOwner, [Next]_vars
    PROVE  LockedIsRunning'
<1> USE NoRunAssumption
<1>1. ASSUME NEW d \in Devices, SwitchDevice(d) PROVE LockedIsRunning'
  BY <1>1 DEF SwitchDevice, TypeOK, rows, Idle, LockedIsRunning,
      OverdueIsRunning, Locked, OneOwner, Busy
<1>2. ASSUME NEW a \in Automations, Create(a) PROVE LockedIsRunning'
  BY <1>2 DEF Create, CreateAutomation, TypeOK, rows, Idle, LockedIsRunning, OverdueIsRunning,
      Locked, OneOwner, Busy
<1>3. ASSUME NEW a \in Automations, Activate(a) PROVE LockedIsRunning'
  BY <1>3 DEF Activate, SetAutomationState, TypeOK, rows, Idle,
      LockedIsRunning, OverdueIsRunning, Locked, OneOwner, Busy
<1>4. ASSUME NEW a \in Automations, Pause(a) PROVE LockedIsRunning'
  BY <1>4 DEF Pause, SetAutomationState, TypeOK, rows, Idle, LockedIsRunning,
      OverdueIsRunning, Locked, OneOwner, Busy
<1>5. ASSUME NEW r \in Runs, Queue(r) PROVE LockedIsRunning'
  BY <1>5 DEF Queue, TypeOK, rows, Idle, LockedIsRunning, OverdueIsRunning,
      Locked, OneOwner, Busy
<1>6. ASSUME NEW r \in Runs, QueueRun(r) PROVE LockedIsRunning'
  BY <1>6 DEF QueueRun, TypeOK, rows, Idle, LockedIsRunning, OverdueIsRunning,
      Locked, OneOwner, Busy
<1>7. ASSUME NEW r \in Runs, Overdue(r) PROVE LockedIsRunning'
  BY <1>7 DEF Overdue, TypeOK, rows, Idle, LockedIsRunning, OverdueIsRunning,
      Locked, OneOwner, Busy
<1>8. ASSUME NEW r \in Runs, StallPastCutoff(r) PROVE LockedIsRunning'
  BY <1>8 DEF StallPastCutoff, Fault, Disturb, TypeOK, rows, Idle, LockedIsRunning,
      OverdueIsRunning, Locked, OneOwner, Busy
<1>9. ASSUME NEW w \in Workers, NEW r \in Runs, ClaimRun(w, r) PROVE LockedIsRunning'
  BY <1>9 DEF ClaimRun, StartRun, Candidate, TypeOK, rows, Idle,
      LockedIsRunning, OverdueIsRunning, Locked, OneOwner, Busy
<1>10. ASSUME NEW w \in Workers, NEW r \in Runs, ClaimRunLost(w, r) PROVE LockedIsRunning'
  BY <1>10 DEF ClaimRunLost, StartRun, Candidate, Fault, Disturb, TypeOK, rows, Idle,
      LockedIsRunning, OverdueIsRunning, Locked, OneOwner, Busy
<1>11. ASSUME NEW w \in Workers, BeginExecute(w) PROVE LockedIsRunning'
  BY <1>11 DEF BeginExecute, Goto, TypeOK, rows, Idle, LockedIsRunning,
      OverdueIsRunning, Locked, OneOwner, Busy
<1>12. ASSUME NEW w \in Workers, RefuseExecute(w) PROVE LockedIsRunning'
  BY <1>12 DEF RefuseExecute, Goto, TypeOK, rows, Idle, LockedIsRunning,
      OverdueIsRunning, Locked, OneOwner, Busy
<1>13. ASSUME NEW w \in Workers, Commit(w) PROVE LockedIsRunning'
  BY <1>13 DEF Commit, Dispatch, TypeOK, rows, Idle, LockedIsRunning,
      OverdueIsRunning, Locked, OneOwner, Busy
<1>14. ASSUME NEW w \in Workers, ExecuteCancelled(w) PROVE LockedIsRunning'
  BY <1>14 DEF ExecuteCancelled, Goto, TypeOK, rows, Idle, LockedIsRunning,
      OverdueIsRunning, Locked, OneOwner, Busy
<1>15. ASSUME NEW w \in Workers, CommitUnknown(w) PROVE LockedIsRunning'
  BY <1>15 DEF CommitUnknown, Goto, Dispatch, Fault, Disturb, TypeOK, rows, Idle,
      LockedIsRunning, OverdueIsRunning, Locked, OneOwner, Busy
<1>16. ASSUME NEW w \in Workers, ExecuteError(w) PROVE LockedIsRunning'
  BY <1>16 DEF ExecuteError, Goto, Fault, Disturb, TypeOK, rows, Idle, LockedIsRunning,
      OverdueIsRunning, Locked, OneOwner, Busy
<1>17. ASSUME NEW w \in Workers, RequeueRun(w) PROVE LockedIsRunning'
  BY <1>17 DEF RequeueRun, TypeOK, rows, Idle, LockedIsRunning,
      OverdueIsRunning, Locked, OneOwner, Busy
<1>18. ASSUME NEW w \in Workers, FinishRun(w) PROVE LockedIsRunning'
  BY <1>18 DEF FinishRun, TypeOK, rows, Idle, LockedIsRunning,
      OverdueIsRunning, Locked, OneOwner, Busy
<1>19. ASSUME NEW w \in Workers, PersistFails(w) PROVE LockedIsRunning'
  BY <1>19 DEF PersistFails, Fault, Disturb, TypeOK, rows, Idle, LockedIsRunning,
      OverdueIsRunning, Locked, OneOwner, Busy
<1>20. CASE FinishStaleRuns
  BY <1>20 DEF FinishStaleRuns, TypeOK, rows, Idle, LockedIsRunning,
      OverdueIsRunning, Locked, OneOwner, Busy
<1>21. ASSUME NEW w \in Workers, Shutdown(w) PROVE LockedIsRunning'
  BY <1>21 DEF Shutdown, Fault, Disturb, TypeOK, rows, Idle, LockedIsRunning,
      OverdueIsRunning, Locked, OneOwner, Busy
<1>22. ASSUME NEW w \in Workers, Exit(w) PROVE LockedIsRunning'
  BY <1>22 DEF Exit, Halt, TypeOK, rows, Idle, LockedIsRunning,
      OverdueIsRunning, Locked, OneOwner, Busy
<1>23. ASSUME NEW w \in Workers, Crash(w) PROVE LockedIsRunning'
  BY <1>23 DEF Crash, Halt, Fault, Disturb, TypeOK, rows, Idle, LockedIsRunning,
      OverdueIsRunning, Locked, OneOwner, Busy
<1>24. ASSUME NEW w \in Workers, Restart(w) PROVE LockedIsRunning'
  BY <1>24 DEF Restart, TypeOK, rows, Idle, LockedIsRunning, OverdueIsRunning,
      Locked, OneOwner, Busy
<1>25. CASE UNCHANGED vars
  BY <1>25 DEF vars, rows, TypeOK, Idle, LockedIsRunning, OverdueIsRunning,
      Locked, OneOwner, Busy
<1>26. CASE VacuumSessions \/ ExpirePlans
  BY <1>26 DEF VacuumSessions, ExpirePlans, rows, TypeOK, Idle, LockedIsRunning, OverdueIsRunning, Locked, OneOwner, Busy
<1>27. CASE CycleFails
  BY <1>27 DEF CycleFails, Disturb, rows, TypeOK, Idle, LockedIsRunning, OverdueIsRunning, Locked, OneOwner, Busy
<1>. QED
  BY <1>1, <1>2, <1>3, <1>4, <1>5, <1>6, <1>7, <1>8, <1>9, <1>10, <1>11, <1>12,
      <1>13, <1>14, <1>15, <1>16, <1>17, <1>18, <1>19, <1>20, <1>21, <1>22,
      <1>23, <1>24, <1>25, <1>26, <1>27
  DEF Next, Execute, Persist, Maintenance

\* A run is claimed only from the queue, where nobody has it.
LEMMA OwnerStep ==
    ASSUME TypeOK, OneOwner, OverdueIsRunning, [Next]_vars
    PROVE  OneOwner'
<1> USE NoRunAssumption
<1>1. ASSUME NEW d \in Devices, SwitchDevice(d) PROVE OneOwner'
  BY <1>1 DEF SwitchDevice, TypeOK, rows, Idle, OneOwner, OverdueIsRunning,
      Busy
<1>2. ASSUME NEW a \in Automations, Create(a) PROVE OneOwner'
  BY <1>2 DEF Create, CreateAutomation, TypeOK, rows, Idle, OneOwner, OverdueIsRunning, Busy
<1>3. ASSUME NEW a \in Automations, Activate(a) PROVE OneOwner'
  BY <1>3 DEF Activate, SetAutomationState, TypeOK, rows, Idle, OneOwner,
      OverdueIsRunning, Busy
<1>4. ASSUME NEW a \in Automations, Pause(a) PROVE OneOwner'
  BY <1>4 DEF Pause, SetAutomationState, TypeOK, rows, Idle, OneOwner,
      OverdueIsRunning, Busy
<1>5. ASSUME NEW r \in Runs, Queue(r) PROVE OneOwner'
  BY <1>5 DEF Queue, TypeOK, rows, Idle, OneOwner, OverdueIsRunning, Busy
<1>6. ASSUME NEW r \in Runs, QueueRun(r) PROVE OneOwner'
  BY <1>6 DEF QueueRun, TypeOK, rows, Idle, OneOwner, OverdueIsRunning, Busy
<1>7. ASSUME NEW r \in Runs, Overdue(r) PROVE OneOwner'
  BY <1>7 DEF Overdue, TypeOK, rows, Idle, OneOwner, OverdueIsRunning, Busy
<1>8. ASSUME NEW r \in Runs, StallPastCutoff(r) PROVE OneOwner'
  BY <1>8 DEF StallPastCutoff, Fault, Disturb, TypeOK, rows, Idle, OneOwner,
      OverdueIsRunning, Busy
<1>9. ASSUME NEW w \in Workers, NEW r \in Runs, ClaimRun(w, r) PROVE OneOwner'
  BY <1>9 DEF ClaimRun, StartRun, Candidate, TypeOK, rows, Idle, OneOwner,
      OverdueIsRunning, Busy
<1>10. ASSUME NEW w \in Workers, NEW r \in Runs, ClaimRunLost(w, r) PROVE OneOwner'
  BY <1>10 DEF ClaimRunLost, StartRun, Candidate, Fault, Disturb, TypeOK, rows, Idle,
      OneOwner, OverdueIsRunning, Busy
<1>11. ASSUME NEW w \in Workers, BeginExecute(w) PROVE OneOwner'
  BY <1>11 DEF BeginExecute, Goto, TypeOK, rows, Idle, OneOwner,
      OverdueIsRunning, Busy
<1>12. ASSUME NEW w \in Workers, RefuseExecute(w) PROVE OneOwner'
  BY <1>12 DEF RefuseExecute, Goto, TypeOK, rows, Idle, OneOwner,
      OverdueIsRunning, Busy
<1>13. ASSUME NEW w \in Workers, Commit(w) PROVE OneOwner'
  BY <1>13 DEF Commit, Dispatch, TypeOK, rows, Idle, OneOwner,
      OverdueIsRunning, Busy
<1>14. ASSUME NEW w \in Workers, ExecuteCancelled(w) PROVE OneOwner'
  <2>1. state' = state /\ \A v \in Workers, r \in Runs : Busy(v, r)' => Busy(v, r)
    BY <1>14 DEF ExecuteCancelled, Goto, TypeOK, rows, Busy
  <2>. QED
    BY <2>1 DEF OneOwner
<1>15. ASSUME NEW w \in Workers, CommitUnknown(w) PROVE OneOwner'
  BY <1>15 DEF CommitUnknown, Goto, Dispatch, Fault, Disturb, TypeOK, rows, Idle,
      OneOwner, OverdueIsRunning, Busy
<1>16. ASSUME NEW w \in Workers, ExecuteError(w) PROVE OneOwner'
  BY <1>16 DEF ExecuteError, Goto, Fault, Disturb, TypeOK, rows, Idle, OneOwner,
      OverdueIsRunning, Busy
<1>17. ASSUME NEW w \in Workers, RequeueRun(w) PROVE OneOwner'
  BY <1>17 DEF RequeueRun, TypeOK, rows, Idle, OneOwner, OverdueIsRunning, Busy
<1>18. ASSUME NEW w \in Workers, FinishRun(w) PROVE OneOwner'
  BY <1>18 DEF FinishRun, TypeOK, rows, Idle, OneOwner, OverdueIsRunning, Busy
<1>19. ASSUME NEW w \in Workers, PersistFails(w) PROVE OneOwner'
  BY <1>19 DEF PersistFails, Fault, Disturb, TypeOK, rows, Idle, OneOwner,
      OverdueIsRunning, Busy
<1>20. CASE FinishStaleRuns
  BY <1>20 DEF FinishStaleRuns, TypeOK, rows, Idle, OneOwner, OverdueIsRunning,
      Busy
<1>21. ASSUME NEW w \in Workers, Shutdown(w) PROVE OneOwner'
  BY <1>21 DEF Shutdown, Fault, Disturb, TypeOK, rows, Idle, OneOwner, OverdueIsRunning,
      Busy
<1>22. ASSUME NEW w \in Workers, Exit(w) PROVE OneOwner'
  BY <1>22 DEF Exit, Halt, TypeOK, rows, Idle, OneOwner, OverdueIsRunning, Busy
<1>23. ASSUME NEW w \in Workers, Crash(w) PROVE OneOwner'
  BY <1>23 DEF Crash, Halt, Fault, Disturb, TypeOK, rows, Idle, OneOwner,
      OverdueIsRunning, Busy
<1>24. ASSUME NEW w \in Workers, Restart(w) PROVE OneOwner'
  BY <1>24 DEF Restart, TypeOK, rows, Idle, OneOwner, OverdueIsRunning, Busy
<1>25. CASE UNCHANGED vars
  BY <1>25 DEF vars, rows, TypeOK, Idle, OneOwner, OverdueIsRunning, Busy
<1>26. CASE VacuumSessions \/ ExpirePlans
  BY <1>26 DEF VacuumSessions, ExpirePlans, rows, TypeOK, Idle, OneOwner, OverdueIsRunning, Busy
<1>27. CASE CycleFails
  BY <1>27 DEF CycleFails, Disturb, rows, TypeOK, Idle, OneOwner, OverdueIsRunning, Busy
<1>. QED
  BY <1>1, <1>2, <1>3, <1>4, <1>5, <1>6, <1>7, <1>8, <1>9, <1>10, <1>11, <1>12,
      <1>13, <1>14, <1>15, <1>16, <1>17, <1>18, <1>19, <1>20, <1>21, <1>22,
      <1>23, <1>24, <1>25, <1>26, <1>27
  DEF Next, Execute, Persist, Maintenance

\* The commit, and nothing else, changes commands and 'succeeded', together.
LEMMA DispatchStep ==
    ASSUME TypeOK, LockedIsRunning, OverdueIsRunning, OneOwner, DispatchedIffSucceeded, [Next]_vars
    PROVE  DispatchedIffSucceeded'
<1>1. ASSUME NEW d \in Devices, SwitchDevice(d) PROVE DispatchedIffSucceeded'
  BY <1>1 DEF SwitchDevice, TypeOK, rows, Idle, DispatchedIffSucceeded,
      LockedIsRunning, Locked, OverdueIsRunning, OneOwner, Busy
<1>2. ASSUME NEW a \in Automations, Create(a) PROVE DispatchedIffSucceeded'
  BY <1>2 DEF Create, CreateAutomation, TypeOK, rows, Idle, DispatchedIffSucceeded,
      LockedIsRunning, Locked, OverdueIsRunning, OneOwner, Busy
<1>3. ASSUME NEW a \in Automations, Activate(a) PROVE DispatchedIffSucceeded'
  BY <1>3 DEF Activate, SetAutomationState, TypeOK, rows, Idle,
      DispatchedIffSucceeded, LockedIsRunning, Locked, OverdueIsRunning,
      OneOwner, Busy
<1>4. ASSUME NEW a \in Automations, Pause(a) PROVE DispatchedIffSucceeded'
  BY <1>4 DEF Pause, SetAutomationState, TypeOK, rows, Idle,
      DispatchedIffSucceeded, LockedIsRunning, Locked, OverdueIsRunning,
      OneOwner, Busy
<1>5. ASSUME NEW r \in Runs, Queue(r) PROVE DispatchedIffSucceeded'
  BY <1>5 DEF Queue, TypeOK, rows, Idle, DispatchedIffSucceeded,
      LockedIsRunning, Locked, OverdueIsRunning, OneOwner, Busy
<1>6. ASSUME NEW r \in Runs, QueueRun(r) PROVE DispatchedIffSucceeded'
  BY <1>6 DEF QueueRun, TypeOK, rows, Idle, DispatchedIffSucceeded,
      LockedIsRunning, Locked, OverdueIsRunning, OneOwner, Busy
<1>7. ASSUME NEW r \in Runs, Overdue(r) PROVE DispatchedIffSucceeded'
  BY <1>7 DEF Overdue, TypeOK, rows, Idle, DispatchedIffSucceeded,
      LockedIsRunning, Locked, OverdueIsRunning, OneOwner, Busy
<1>8. ASSUME NEW r \in Runs, StallPastCutoff(r) PROVE DispatchedIffSucceeded'
  BY <1>8 DEF StallPastCutoff, Fault, Disturb, TypeOK, rows, Idle,
      DispatchedIffSucceeded, LockedIsRunning, Locked, OverdueIsRunning,
      OneOwner, Busy
<1>9. ASSUME NEW w \in Workers, NEW r \in Runs, ClaimRun(w, r) PROVE DispatchedIffSucceeded'
  BY <1>9 DEF ClaimRun, StartRun, Candidate, TypeOK, rows, Idle,
      DispatchedIffSucceeded, LockedIsRunning, Locked, OverdueIsRunning,
      OneOwner, Busy
<1>10. ASSUME NEW w \in Workers, NEW r \in Runs, ClaimRunLost(w, r) PROVE DispatchedIffSucceeded'
  BY <1>10 DEF ClaimRunLost, StartRun, Candidate, Fault, Disturb, TypeOK, rows, Idle,
      DispatchedIffSucceeded, LockedIsRunning, Locked, OverdueIsRunning,
      OneOwner, Busy
<1>11. ASSUME NEW w \in Workers, BeginExecute(w) PROVE DispatchedIffSucceeded'
  BY <1>11 DEF BeginExecute, Goto, TypeOK, rows, Idle, DispatchedIffSucceeded,
      LockedIsRunning, Locked, OverdueIsRunning, OneOwner, Busy
<1>12. ASSUME NEW w \in Workers, RefuseExecute(w) PROVE DispatchedIffSucceeded'
  BY <1>12 DEF RefuseExecute, Goto, TypeOK, rows, Idle, DispatchedIffSucceeded,
      LockedIsRunning, Locked, OverdueIsRunning, OneOwner, Busy
<1>13. ASSUME NEW w \in Workers, Commit(w) PROVE DispatchedIffSucceeded'
  BY <1>13 DEF Commit, Dispatch, TypeOK, rows, Idle, DispatchedIffSucceeded,
      LockedIsRunning, Locked, OverdueIsRunning, OneOwner, Busy
<1>14. ASSUME NEW w \in Workers, ExecuteCancelled(w) PROVE DispatchedIffSucceeded'
  BY <1>14 DEF ExecuteCancelled, Goto, TypeOK, rows, Idle,
      DispatchedIffSucceeded, LockedIsRunning, Locked, OverdueIsRunning,
      OneOwner, Busy
<1>15. ASSUME NEW w \in Workers, CommitUnknown(w) PROVE DispatchedIffSucceeded'
  BY <1>15 DEF CommitUnknown, Goto, Dispatch, Fault, Disturb, TypeOK, rows, Idle,
      DispatchedIffSucceeded, LockedIsRunning, Locked, OverdueIsRunning,
      OneOwner, Busy
<1>16. ASSUME NEW w \in Workers, ExecuteError(w) PROVE DispatchedIffSucceeded'
  BY <1>16 DEF ExecuteError, Goto, Fault, Disturb, TypeOK, rows, Idle,
      DispatchedIffSucceeded, LockedIsRunning, Locked, OverdueIsRunning,
      OneOwner, Busy
<1>17. ASSUME NEW w \in Workers, RequeueRun(w) PROVE DispatchedIffSucceeded'
  BY <1>17 DEF RequeueRun, TypeOK, rows, Idle, DispatchedIffSucceeded,
      LockedIsRunning, Locked, OverdueIsRunning, OneOwner, Busy
<1>18. ASSUME NEW w \in Workers, FinishRun(w) PROVE DispatchedIffSucceeded'
  BY <1>18 DEF FinishRun, TypeOK, rows, Idle, DispatchedIffSucceeded,
      LockedIsRunning, Locked, OverdueIsRunning, OneOwner, Busy
<1>19. ASSUME NEW w \in Workers, PersistFails(w) PROVE DispatchedIffSucceeded'
  BY <1>19 DEF PersistFails, Fault, Disturb, TypeOK, rows, Idle, DispatchedIffSucceeded,
      LockedIsRunning, Locked, OverdueIsRunning, OneOwner, Busy
<1>20. CASE FinishStaleRuns
  BY <1>20 DEF FinishStaleRuns, TypeOK, rows, Idle, DispatchedIffSucceeded,
      LockedIsRunning, Locked, OverdueIsRunning, OneOwner, Busy
<1>21. ASSUME NEW w \in Workers, Shutdown(w) PROVE DispatchedIffSucceeded'
  BY <1>21 DEF Shutdown, Fault, Disturb, TypeOK, rows, Idle, DispatchedIffSucceeded,
      LockedIsRunning, Locked, OverdueIsRunning, OneOwner, Busy
<1>22. ASSUME NEW w \in Workers, Exit(w) PROVE DispatchedIffSucceeded'
  BY <1>22 DEF Exit, Halt, TypeOK, rows, Idle, DispatchedIffSucceeded,
      LockedIsRunning, Locked, OverdueIsRunning, OneOwner, Busy
<1>23. ASSUME NEW w \in Workers, Crash(w) PROVE DispatchedIffSucceeded'
  BY <1>23 DEF Crash, Halt, Fault, Disturb, TypeOK, rows, Idle, DispatchedIffSucceeded,
      LockedIsRunning, Locked, OverdueIsRunning, OneOwner, Busy
<1>24. ASSUME NEW w \in Workers, Restart(w) PROVE DispatchedIffSucceeded'
  BY <1>24 DEF Restart, TypeOK, rows, Idle, DispatchedIffSucceeded,
      LockedIsRunning, Locked, OverdueIsRunning, OneOwner, Busy
<1>25. CASE UNCHANGED vars
  BY <1>25 DEF vars, rows, TypeOK, Idle, DispatchedIffSucceeded,
      LockedIsRunning, Locked, OverdueIsRunning, OneOwner, Busy
<1>26. CASE VacuumSessions \/ ExpirePlans
  BY <1>26 DEF VacuumSessions, ExpirePlans, rows, TypeOK, Idle, DispatchedIffSucceeded, LockedIsRunning, Locked, OverdueIsRunning, OneOwner, Busy
<1>27. CASE CycleFails
  BY <1>27 DEF CycleFails, Disturb, rows, TypeOK, Idle, DispatchedIffSucceeded, LockedIsRunning, Locked, OverdueIsRunning, OneOwner, Busy
<1>. QED
  BY <1>1, <1>2, <1>3, <1>4, <1>5, <1>6, <1>7, <1>8, <1>9, <1>10, <1>11, <1>12,
      <1>13, <1>14, <1>15, <1>16, <1>17, <1>18, <1>19, <1>20, <1>21, <1>22,
      <1>23, <1>24, <1>25, <1>26, <1>27
  DEF Next, Execute, Persist, Maintenance

\* Only faults disturb.
LEMMA UndisturbedStep ==
    ASSUME TypeOK, OneOwner, OverdueIsRunning, LockedIsRunning, Undisturbed, [Next]_vars
    PROVE  Undisturbed'
<1> USE NoRunAssumption, FaultsAssumption
<1>1. ASSUME NEW d \in Devices, SwitchDevice(d) PROVE Undisturbed'
  BY <1>1 DEF SwitchDevice, TypeOK, rows, Idle, Undisturbed, OverdueIsRunning,
      OneOwner, LockedIsRunning, Locked, Busy
<1>2. ASSUME NEW a \in Automations, Create(a) PROVE Undisturbed'
  BY <1>2 DEF Create, CreateAutomation, TypeOK, rows, Idle, Undisturbed, OverdueIsRunning,
      OneOwner, LockedIsRunning, Locked, Busy
<1>3. ASSUME NEW a \in Automations, Activate(a) PROVE Undisturbed'
  BY <1>3 DEF Activate, SetAutomationState, TypeOK, rows, Idle, Undisturbed,
      OverdueIsRunning, OneOwner, LockedIsRunning, Locked, Busy
<1>4. ASSUME NEW a \in Automations, Pause(a) PROVE Undisturbed'
  BY <1>4 DEF Pause, SetAutomationState, TypeOK, rows, Idle, Undisturbed,
      OverdueIsRunning, OneOwner, LockedIsRunning, Locked, Busy
<1>5. ASSUME NEW r \in Runs, Queue(r) PROVE Undisturbed'
  BY <1>5 DEF Queue, TypeOK, rows, Idle, Undisturbed, OverdueIsRunning,
      OneOwner, LockedIsRunning, Locked, Busy
<1>6. ASSUME NEW r \in Runs, QueueRun(r) PROVE Undisturbed'
  BY <1>6 DEF QueueRun, TypeOK, rows, Idle, Undisturbed, OverdueIsRunning,
      OneOwner, LockedIsRunning, Locked, Busy
<1>7. ASSUME NEW r \in Runs, Overdue(r) PROVE Undisturbed'
  BY <1>7 DEF Overdue, TypeOK, rows, Idle, Undisturbed, OverdueIsRunning,
      OneOwner, LockedIsRunning, Locked, Busy
<1>8. ASSUME NEW r \in Runs, StallPastCutoff(r) PROVE Undisturbed'
  BY <1>8 DEF StallPastCutoff, Fault, Disturb, TypeOK, rows, Idle, Undisturbed,
      OverdueIsRunning, OneOwner, LockedIsRunning, Locked, Busy
<1>9. ASSUME NEW w \in Workers, NEW r \in Runs, ClaimRun(w, r) PROVE Undisturbed'
  BY <1>9 DEF ClaimRun, StartRun, Candidate, TypeOK, rows, Idle, Undisturbed,
      OverdueIsRunning, OneOwner, LockedIsRunning, Locked, Busy
<1>10. ASSUME NEW w \in Workers, NEW r \in Runs, ClaimRunLost(w, r) PROVE Undisturbed'
  BY <1>10 DEF ClaimRunLost, StartRun, Candidate, Fault, Disturb, TypeOK, rows, Idle,
      Undisturbed, OverdueIsRunning, OneOwner, LockedIsRunning, Locked, Busy
<1>11. ASSUME NEW w \in Workers, BeginExecute(w) PROVE Undisturbed'
  BY <1>11 DEF BeginExecute, Goto, TypeOK, rows, Idle, Undisturbed,
      OverdueIsRunning, OneOwner, LockedIsRunning, Locked, Busy
<1>12. ASSUME NEW w \in Workers, RefuseExecute(w) PROVE Undisturbed'
  BY <1>12 DEF RefuseExecute, Goto, TypeOK, rows, Idle, Undisturbed,
      OverdueIsRunning, OneOwner, LockedIsRunning, Locked, Busy
<1>13. ASSUME NEW w \in Workers, Commit(w) PROVE Undisturbed'
  BY <1>13 DEF Commit, Dispatch, TypeOK, rows, Idle, Undisturbed,
      OverdueIsRunning, OneOwner, LockedIsRunning, Locked, Busy
<1>14. ASSUME NEW w \in Workers, ExecuteCancelled(w) PROVE Undisturbed'
  BY <1>14 DEF ExecuteCancelled, Goto, TypeOK, rows, Idle, Undisturbed,
      OverdueIsRunning, OneOwner, LockedIsRunning, Locked, Busy
<1>15. ASSUME NEW w \in Workers, CommitUnknown(w) PROVE Undisturbed'
  BY <1>15 DEF CommitUnknown, Goto, Dispatch, Fault, Disturb, TypeOK, rows, Idle,
      Undisturbed, OverdueIsRunning, OneOwner, LockedIsRunning, Locked, Busy
<1>16. ASSUME NEW w \in Workers, ExecuteError(w) PROVE Undisturbed'
  BY <1>16 DEF ExecuteError, Goto, Fault, Disturb, TypeOK, rows, Idle, Undisturbed,
      OverdueIsRunning, OneOwner, LockedIsRunning, Locked, Busy
<1>17. ASSUME NEW w \in Workers, RequeueRun(w) PROVE Undisturbed'
  BY <1>17 DEF RequeueRun, TypeOK, rows, Idle, Undisturbed, OverdueIsRunning,
      OneOwner, LockedIsRunning, Locked, Busy
<1>18. ASSUME NEW w \in Workers, FinishRun(w) PROVE Undisturbed'
  BY <1>18 DEF FinishRun, TypeOK, rows, Idle, Undisturbed, OverdueIsRunning,
      OneOwner, LockedIsRunning, Locked, Busy
<1>19. ASSUME NEW w \in Workers, PersistFails(w) PROVE Undisturbed'
  BY <1>19 DEF PersistFails, Fault, Disturb, TypeOK, rows, Idle, Undisturbed,
      OverdueIsRunning, OneOwner, LockedIsRunning, Locked, Busy
<1>20. CASE FinishStaleRuns
  BY <1>20 DEF FinishStaleRuns, TypeOK, rows, Idle, Undisturbed,
      OverdueIsRunning, OneOwner, LockedIsRunning, Locked, Busy
<1>21. ASSUME NEW w \in Workers, Shutdown(w) PROVE Undisturbed'
  BY <1>21 DEF Shutdown, Fault, Disturb, TypeOK, rows, Idle, Undisturbed,
      OverdueIsRunning, OneOwner, LockedIsRunning, Locked, Busy
<1>22. ASSUME NEW w \in Workers, Exit(w) PROVE Undisturbed'
  BY <1>22 DEF Exit, Halt, TypeOK, rows, Idle, Undisturbed, OverdueIsRunning,
      OneOwner, LockedIsRunning, Locked, Busy
<1>23. ASSUME NEW w \in Workers, Crash(w) PROVE Undisturbed'
  BY <1>23 DEF Crash, Halt, Fault, Disturb, TypeOK, rows, Idle, Undisturbed,
      OverdueIsRunning, OneOwner, LockedIsRunning, Locked, Busy
<1>24. ASSUME NEW w \in Workers, Restart(w) PROVE Undisturbed'
  BY <1>24 DEF Restart, TypeOK, rows, Idle, Undisturbed, OverdueIsRunning,
      OneOwner, LockedIsRunning, Locked, Busy
<1>25. CASE UNCHANGED vars
  BY <1>25 DEF vars, rows, TypeOK, Idle, Undisturbed, OverdueIsRunning,
      OneOwner, LockedIsRunning, Locked, Busy
<1>26. CASE VacuumSessions \/ ExpirePlans
  BY <1>26 DEF VacuumSessions, ExpirePlans, rows, TypeOK, Idle, Undisturbed, OverdueIsRunning, OneOwner, LockedIsRunning, Locked, Busy
<1>27. CASE CycleFails
  BY <1>27 DEF CycleFails, Disturb, rows, TypeOK, Idle, Undisturbed, OverdueIsRunning, OneOwner, LockedIsRunning, Locked, Busy
<1>. QED
  BY <1>1, <1>2, <1>3, <1>4, <1>5, <1>6, <1>7, <1>8, <1>9, <1>10, <1>11, <1>12,
      <1>13, <1>14, <1>15, <1>16, <1>17, <1>18, <1>19, <1>20, <1>21, <1>22,
      <1>23, <1>24, <1>25, <1>26, <1>27
  DEF Next, Execute, Persist, Maintenance

\* Without faults only FinishRun fails a run, after a refusal.
LEMMA ReasonStep ==
    ASSUME TypeOK, Undisturbed, FailureHasReason, [Next]_vars
    PROVE  FailureHasReason'
<1> USE FaultsAssumption
<1>1. ASSUME NEW d \in Devices, SwitchDevice(d) PROVE FailureHasReason'
  BY <1>1 DEF SwitchDevice, TypeOK, rows, Idle, Undisturbed, FailureHasReason
<1>2. ASSUME NEW a \in Automations, Create(a) PROVE FailureHasReason'
  BY <1>2 DEF Create, CreateAutomation, TypeOK, rows, Idle, Undisturbed, FailureHasReason
<1>3. ASSUME NEW a \in Automations, Activate(a) PROVE FailureHasReason'
  BY <1>3 DEF Activate, SetAutomationState, TypeOK, rows, Idle, Undisturbed,
      FailureHasReason
<1>4. ASSUME NEW a \in Automations, Pause(a) PROVE FailureHasReason'
  BY <1>4 DEF Pause, SetAutomationState, TypeOK, rows, Idle, Undisturbed,
      FailureHasReason
<1>5. ASSUME NEW r \in Runs, Queue(r) PROVE FailureHasReason'
  BY <1>5 DEF Queue, TypeOK, rows, Idle, Undisturbed, FailureHasReason
<1>6. ASSUME NEW r \in Runs, QueueRun(r) PROVE FailureHasReason'
  BY <1>6 DEF QueueRun, TypeOK, rows, Idle, Undisturbed, FailureHasReason
<1>7. ASSUME NEW r \in Runs, Overdue(r) PROVE FailureHasReason'
  BY <1>7 DEF Overdue, TypeOK, rows, Idle, Undisturbed, FailureHasReason
<1>8. ASSUME NEW r \in Runs, StallPastCutoff(r) PROVE FailureHasReason'
  BY <1>8 DEF StallPastCutoff, Fault, Disturb, TypeOK, rows, Idle, Undisturbed,
      FailureHasReason
<1>9. ASSUME NEW w \in Workers, NEW r \in Runs, ClaimRun(w, r) PROVE FailureHasReason'
  BY <1>9 DEF ClaimRun, StartRun, Candidate, TypeOK, rows, Idle, Undisturbed,
      FailureHasReason
<1>10. ASSUME NEW w \in Workers, NEW r \in Runs, ClaimRunLost(w, r) PROVE FailureHasReason'
  BY <1>10 DEF ClaimRunLost, StartRun, Candidate, Fault, Disturb, TypeOK, rows, Idle,
      Undisturbed, FailureHasReason
<1>11. ASSUME NEW w \in Workers, BeginExecute(w) PROVE FailureHasReason'
  BY <1>11 DEF BeginExecute, Goto, TypeOK, rows, Idle, Undisturbed,
      FailureHasReason
<1>12. ASSUME NEW w \in Workers, RefuseExecute(w) PROVE FailureHasReason'
  BY <1>12 DEF RefuseExecute, Goto, TypeOK, rows, Idle, Undisturbed,
      FailureHasReason
<1>13. ASSUME NEW w \in Workers, Commit(w) PROVE FailureHasReason'
  BY <1>13 DEF Commit, Dispatch, TypeOK, rows, Idle, Undisturbed,
      FailureHasReason
<1>14. ASSUME NEW w \in Workers, ExecuteCancelled(w) PROVE FailureHasReason'
  BY <1>14 DEF ExecuteCancelled, Goto, TypeOK, rows, Idle, Undisturbed,
      FailureHasReason
<1>15. ASSUME NEW w \in Workers, CommitUnknown(w) PROVE FailureHasReason'
  BY <1>15 DEF CommitUnknown, Goto, Dispatch, Fault, Disturb, TypeOK, rows, Idle,
      Undisturbed, FailureHasReason
<1>16. ASSUME NEW w \in Workers, ExecuteError(w) PROVE FailureHasReason'
  BY <1>16 DEF ExecuteError, Goto, Fault, Disturb, TypeOK, rows, Idle, Undisturbed,
      FailureHasReason
<1>17. ASSUME NEW w \in Workers, RequeueRun(w) PROVE FailureHasReason'
  BY <1>17 DEF RequeueRun, TypeOK, rows, Idle, Undisturbed, FailureHasReason
<1>18. ASSUME NEW w \in Workers, FinishRun(w) PROVE FailureHasReason'
  BY <1>18 DEF FinishRun, TypeOK, rows, Idle, Undisturbed, FailureHasReason
<1>19. ASSUME NEW w \in Workers, PersistFails(w) PROVE FailureHasReason'
  BY <1>19 DEF PersistFails, Fault, Disturb, TypeOK, rows, Idle, Undisturbed,
      FailureHasReason
<1>20. CASE FinishStaleRuns
  BY <1>20 DEF FinishStaleRuns, TypeOK, rows, Idle, Undisturbed,
      FailureHasReason
<1>21. ASSUME NEW w \in Workers, Shutdown(w) PROVE FailureHasReason'
  BY <1>21 DEF Shutdown, Fault, Disturb, TypeOK, rows, Idle, Undisturbed,
      FailureHasReason
<1>22. ASSUME NEW w \in Workers, Exit(w) PROVE FailureHasReason'
  BY <1>22 DEF Exit, Halt, TypeOK, rows, Idle, Undisturbed, FailureHasReason
<1>23. ASSUME NEW w \in Workers, Crash(w) PROVE FailureHasReason'
  BY <1>23 DEF Crash, Halt, Fault, Disturb, TypeOK, rows, Idle, Undisturbed,
      FailureHasReason
<1>24. ASSUME NEW w \in Workers, Restart(w) PROVE FailureHasReason'
  BY <1>24 DEF Restart, TypeOK, rows, Idle, Undisturbed, FailureHasReason
<1>25. CASE UNCHANGED vars
  BY <1>25 DEF vars, rows, TypeOK, Idle, Undisturbed, FailureHasReason
<1>26. CASE VacuumSessions \/ ExpirePlans
  BY <1>26 DEF VacuumSessions, ExpirePlans, rows, TypeOK, Idle, Undisturbed, FailureHasReason
<1>27. CASE CycleFails
  BY <1>27 DEF CycleFails, Disturb, rows, TypeOK, Idle, Undisturbed, FailureHasReason
<1>. QED
  BY <1>1, <1>2, <1>3, <1>4, <1>5, <1>6, <1>7, <1>8, <1>9, <1>10, <1>11, <1>12,
      <1>13, <1>14, <1>15, <1>16, <1>17, <1>18, <1>19, <1>20, <1>21, <1>22,
      <1>23, <1>24, <1>25, <1>26, <1>27
  DEF Next, Execute, Persist, Maintenance

-----------------------------------------------------------------------------

\* The inductive invariant of the run pipeline.
THEOREM Invariance == Spec => []IInv
<1>1. Init => IInv
  BY NoRunAssumption, FaultsAssumption
  DEF Init, IInv, TypeOK, OverdueIsRunning, LockedIsRunning, OneOwner,
      DispatchedIffSucceeded, Undisturbed, FailureHasReason, Idle, Locked, Busy
<1>2. IInv /\ [Next]_vars => IInv'
  BY TypeStep, OverdueStep, LockedStep, OwnerStep, DispatchStep,
     UndisturbedStep, ReasonStep
  DEF IInv
<1>. QED
  BY <1>1, <1>2, PTL DEF Spec

\* Tables and workers keep their types.
THEOREM TypeCorrect == Spec => []TypeOK
<1>1. IInv => TypeOK
  BY DEF IInv
<1>. QED
  BY Invariance, <1>1, PTL

\* A run's commands enter the outbox once if it succeeds, and never otherwise.
THEOREM ExactlyOnceDispatch == Spec => []DispatchedIffSucceeded
<1>1. IInv => DispatchedIffSucceeded
  BY DEF IInv
<1>. QED
  BY Invariance, <1>1, PTL

\* A run is in the hands of at most one worker.
THEOREM SingleOwner == Spec => []OneOwner
<1>1. IInv => OneOwner
  BY DEF IInv
<1>. QED
  BY Invariance, <1>1, PTL

\* A run stays running for as long as its transaction is open.
THEOREM LockProtects == Spec => []LockedIsRunning
<1>1. IInv => LockedIsRunning
  BY DEF IInv
<1>. QED
  BY Invariance, <1>1, PTL

\* Without faults only a refused device fails a run.
THEOREM FailureExplained == Spec => []FailureHasReason
<1>1. IInv => FailureHasReason
  BY DEF IInv
<1>. QED
  BY Invariance, <1>1, PTL

\* Neither the sweep nor a late worker nor a duplicate request changes a
\* finished run.
THEOREM FinishedForGood == Spec => VerdictFinal
<1> DEFINE Same(r) == state'[r] = state[r] /\ cause'[r] = cause[r] /\ commands'[r] = commands[r]
<1>1. ASSUME IInv, [Next]_vars, NEW k \in Runs, Terminal(k) PROVE Same(k)
  <2>1. /\ TypeOK /\ k \notin overdue /\ ~Locked(k)
        /\ state[k] \notin {"absent", "queued", "running"}
    BY <1>1 DEF IInv, Terminal, OverdueIsRunning, LockedIsRunning
  <2>2. ASSUME NEW r \in Runs, QueueRun(r) PROVE Same(k)
    BY <2>1, <2>2 DEF QueueRun, TypeOK
  <2>3. ASSUME NEW w \in Workers, NEW r \in Runs, ClaimRun(w, r) \/ ClaimRunLost(w, r)
        PROVE  Same(k)
    BY <2>1, <2>3 DEF ClaimRun, ClaimRunLost, StartRun, Candidate, TypeOK
  <2>4. ASSUME NEW w \in Workers, Commit(w) \/ CommitUnknown(w) PROVE Same(k)
    BY <2>1, <2>4 DEF Commit, CommitUnknown, Dispatch, Locked, TypeOK
  <2>5. ASSUME NEW w \in Workers, RequeueRun(w) PROVE Same(k)
    BY <2>1, <2>5 DEF RequeueRun, TypeOK
  <2>6. ASSUME NEW w \in Workers, FinishRun(w) PROVE Same(k)
    BY <2>1, <2>6 DEF FinishRun, TypeOK
  <2>7. CASE FinishStaleRuns
    BY <2>1, <2>7 DEF FinishStaleRuns, TypeOK
  <2>14. CASE VacuumSessions \/ ExpirePlans \/ CycleFails
    BY <2>14 DEF VacuumSessions, ExpirePlans, CycleFails, rows
  <2>8. CASE UNCHANGED <<state, cause, commands>>
    BY <2>8
  <2>9. CASE UNCHANGED vars
    BY <2>9 DEF vars, rows
  <2>10. ASSUME NEW d \in Devices, SwitchDevice(d) PROVE UNCHANGED <<state, cause, commands>>
    BY <2>10 DEF SwitchDevice, rows
  <2>11. ASSUME NEW a \in Automations, Create(a) \/ Activate(a) \/ Pause(a)
         PROVE  UNCHANGED <<state, cause, commands>>
    BY <2>11 DEF Create, CreateAutomation, Activate, Pause, SetAutomationState, rows
  <2>12. ASSUME NEW r \in Runs, Queue(r) \/ Overdue(r) \/ StallPastCutoff(r)
         PROVE  UNCHANGED <<state, cause, commands>>
    BY <2>12 DEF Queue, Overdue, StallPastCutoff, rows
  <2>13. ASSUME NEW w \in Workers,
                \/ BeginExecute(w) \/ RefuseExecute(w) \/ ExecuteCancelled(w)
                \/ ExecuteError(w) \/ PersistFails(w)
                \/ Shutdown(w) \/ Exit(w) \/ Crash(w) \/ Restart(w)
         PROVE  UNCHANGED <<state, cause, commands>>
    BY <2>13 DEF BeginExecute, RefuseExecute, ExecuteCancelled, ExecuteError,
        PersistFails, Shutdown, Exit, Crash, Restart, Halt, rows
  <2>. QED
    BY <1>1, <2>2, <2>3, <2>4, <2>5, <2>6, <2>7, <2>8, <2>9, <2>10, <2>11,
       <2>12, <2>13, <2>14
    DEF Next, Execute, Persist, Maintenance
<1>2. IInv /\ [Next]_vars => [\A r \in Runs : Terminal(r) => Same(r)]_vars
  BY <1>1
<1>. QED
  BY Invariance, <1>2, PTL DEF Spec, VerdictFinal

\* A paused automation takes no new runs, though the service's look at its state
\* may be out of date when the run is inserted.
THEOREM PauseIsFinal == Spec => PausedTakesNoRuns
<1> DEFINE Kept(r) == automation[AutomationOf[r]] = "paused" /\ state[r] = "absent"
                        => state'[r] = "absent"
<1>1. ASSUME IInv, [Next]_vars, NEW k \in Runs, automation[AutomationOf[k]] = "paused",
             state[k] = "absent"
      PROVE  state'[k] = "absent"
  <2>1. TypeOK /\ k \notin overdue /\ ~Locked(k) /\ \A w \in Workers : ~Busy(w, k)
    BY <1>1 DEF IInv, OverdueIsRunning, LockedIsRunning, OneOwner
  <2>2. ASSUME NEW r \in Runs, QueueRun(r) PROVE state'[k] = "absent"
    BY <1>1, <2>1, <2>2 DEF QueueRun, TypeOK
  <2>3. ASSUME NEW w \in Workers, NEW r \in Runs, ClaimRun(w, r) \/ ClaimRunLost(w, r)
        PROVE  state'[k] = "absent"
    BY <1>1, <2>1, <2>3 DEF ClaimRun, ClaimRunLost, StartRun, Candidate, TypeOK
  <2>4. ASSUME NEW w \in Workers, Commit(w) \/ CommitUnknown(w) PROVE state'[k] = "absent"
    BY <1>1, <2>1, <2>4 DEF Commit, CommitUnknown, Dispatch, Locked, TypeOK
  <2>5. ASSUME NEW w \in Workers, RequeueRun(w) \/ FinishRun(w) PROVE state'[k] = "absent"
    BY <1>1, <2>1, <2>5 DEF RequeueRun, FinishRun, TypeOK
  <2>6. CASE FinishStaleRuns
    BY <1>1, <2>1, <2>6 DEF FinishStaleRuns, TypeOK
  <2>7. CASE UNCHANGED vars \/ VacuumSessions \/ ExpirePlans \/ CycleFails
    BY <1>1, <2>7 DEF vars, rows, VacuumSessions, ExpirePlans, CycleFails
  <2>8. ASSUME NEW d \in Devices, SwitchDevice(d) PROVE state'[k] = "absent"
    BY <1>1, <2>8 DEF SwitchDevice, rows
  <2>9. ASSUME NEW a \in Automations, Create(a) \/ Activate(a) \/ Pause(a)
        PROVE  state'[k] = "absent"
    BY <1>1, <2>9 DEF Create, CreateAutomation, Activate, Pause, SetAutomationState, rows
  <2>10. ASSUME NEW r \in Runs, Queue(r) \/ Overdue(r) \/ StallPastCutoff(r)
         PROVE  state'[k] = "absent"
    BY <1>1, <2>10 DEF Queue, Overdue, StallPastCutoff, rows
  <2>11. ASSUME NEW w \in Workers,
                \/ BeginExecute(w) \/ RefuseExecute(w) \/ ExecuteCancelled(w)
                \/ ExecuteError(w) \/ PersistFails(w)
                \/ Shutdown(w) \/ Exit(w) \/ Crash(w) \/ Restart(w)
         PROVE  state'[k] = "absent"
    BY <1>1, <2>11 DEF BeginExecute, RefuseExecute, ExecuteCancelled, ExecuteError,
        PersistFails, Shutdown, Exit, Crash, Restart, Halt, rows
  <2>. QED
    BY <1>1, <2>2, <2>3, <2>4, <2>5, <2>6, <2>7, <2>8, <2>9, <2>10, <2>11
    DEF Next, Execute, Persist, Maintenance
<1>2. IInv /\ [Next]_vars => [\A r \in Runs : Kept(r)]_vars
  BY <1>1
<1>. QED
  BY Invariance, <1>2, PTL DEF Spec, PausedTakesNoRuns
=============================================================================
