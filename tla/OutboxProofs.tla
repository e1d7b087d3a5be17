---------------------------- MODULE OutboxProofs ----------------------------
(***************************************************************************)
(* Proofs about Outbox, for any number of processes and messages, any      *)
(* retry limit and any number of faults.  Each lemma ...Step shows that    *)
(* every action preserves one part of the inductive invariant IInv; the    *)
(* theorems follow from Spec => []IInv.                                    *)
(***************************************************************************)
EXTENDS Outbox, FiniteSetTheorems, TLAPS

\* Every step keeps the columns and the runners well typed.
LEMMA TypeStep ==
    ASSUME TypeOK, [Next]_vars
    PROVE  TypeOK'
<1> USE RetryLimitAssumption, MaxFaultsAssumption, MsgsAssumption
<1>1. ASSUME NEW m \in Msgs, AddOutbox(m) PROVE TypeOK'
  BY <1>1 DEF AddOutbox, TypeOK, table, Idle, NoMsg
<1>2. ASSUME NEW m \in Msgs, BecomeDue(m) PROVE TypeOK'
  BY <1>2 DEF BecomeDue, TypeOK, table, Idle, NoMsg
<1>3. ASSUME NEW m \in Msgs, LeaseExpires(m) PROVE TypeOK'
  BY <1>3 DEF LeaseExpires, TypeOK, table, Idle, NoMsg
<1>4. ASSUME NEW m \in Msgs, StallPastLease(m) PROVE TypeOK'
  BY <1>4 DEF StallPastLease, Fault, Disturb, TypeOK, table, Idle, NoMsg
<1>5. ASSUME NEW p \in Procs, NEW m \in Msgs, ClaimOutbox(p, m) PROVE TypeOK'
  BY <1>5 DEF ClaimOutbox, TakeLease, TypeOK, table, Idle, NoMsg
<1>6. ASSUME NEW p \in Procs, NEW m \in Msgs, ClaimOutboxLost(p, m) PROVE TypeOK'
  BY <1>6 DEF ClaimOutboxLost, TakeLease, Fault, Disturb, TypeOK, table, Idle, NoMsg
<1>7. ASSUME NEW p \in Procs, Receive(p) PROVE TypeOK'
  BY <1>7 DEF Receive, TypeOK, table, Idle, NoMsg
<1>8. ASSUME NEW p \in Procs, PublishOk(p) PROVE TypeOK'
  BY <1>8 DEF PublishOk, TypeOK, table, Idle, NoMsg
<1>9. ASSUME NEW p \in Procs, PublishErr(p) PROVE TypeOK'
  BY <1>9 DEF PublishErr, TypeOK, table, Idle, NoMsg
<1>10. ASSUME NEW p \in Procs, MarkOutbox(p) PROVE TypeOK'
  BY <1>10 DEF MarkOutbox, Settled, TypeOK, table, Idle, NoMsg
<1>11. ASSUME NEW p \in Procs, MarkOutboxFailed(p) PROVE TypeOK'
  BY <1>11 DEF MarkOutboxFailed, Settled, TypeOK, table, Idle, NoMsg
<1>12. ASSUME NEW p \in Procs, RescheduleOutbox(p) PROVE TypeOK'
  BY <1>12 DEF RescheduleOutbox, Settled, TypeOK, table, Idle, NoMsg
<1>13. ASSUME NEW p \in Procs, PersistFails(p) PROVE TypeOK'
  BY <1>13 DEF PersistFails, Fault, Disturb, TypeOK, table, Idle, NoMsg
<1>14. ASSUME NEW p \in Procs, Shutdown(p) PROVE TypeOK'
  BY <1>14 DEF Shutdown, Fault, Disturb, TypeOK, table, Idle, NoMsg
<1>15. ASSUME NEW p \in Procs, Exit(p) PROVE TypeOK'
  BY <1>15 DEF Exit, Halt, TypeOK, table, Idle, NoMsg
<1>16. ASSUME NEW p \in Procs, Crash(p) PROVE TypeOK'
  BY <1>16 DEF Crash, Halt, Fault, Disturb, TypeOK, table, Idle, NoMsg
<1>17. ASSUME NEW p \in Procs, Restart(p) PROVE TypeOK'
  BY <1>17 DEF Restart, TypeOK, table, Idle, NoMsg
<1>18. CASE UNCHANGED vars
  BY <1>18 DEF vars, table, TypeOK, Idle, NoMsg
<1>. QED
  BY <1>1, <1>2, <1>3, <1>4, <1>5, <1>6, <1>7, <1>8, <1>9, <1>10, <1>11, <1>12,
      <1>13, <1>14, <1>15, <1>16, <1>17, <1>18
  DEF Next, Clock, Persist

\* Runners only hold rows that were inserted.
LEMMA RowsKnownStep ==
    ASSUME TypeOK, RowsKnown, [Next]_vars
    PROVE  RowsKnown'
<1>1. ASSUME NEW m \in Msgs, AddOutbox(m) PROVE RowsKnown'
  BY <1>1 DEF AddOutbox, TypeOK, RowsKnown, table, Idle, Open
<1>2. ASSUME NEW m \in Msgs, BecomeDue(m) PROVE RowsKnown'
  BY <1>2 DEF BecomeDue, TypeOK, RowsKnown, table, Idle, Open
<1>3. ASSUME NEW m \in Msgs, LeaseExpires(m) PROVE RowsKnown'
  BY <1>3 DEF LeaseExpires, TypeOK, RowsKnown, table, Idle, Open
<1>4. ASSUME NEW m \in Msgs, StallPastLease(m) PROVE RowsKnown'
  BY <1>4 DEF StallPastLease, Fault, Disturb, TypeOK, RowsKnown, table, Idle, Open
<1>5. ASSUME NEW p \in Procs, NEW m \in Msgs, ClaimOutbox(p, m) PROVE RowsKnown'
  BY <1>5 DEF ClaimOutbox, TakeLease, TypeOK, RowsKnown, table, Idle, Open,
      Claimable, Candidate
<1>6. ASSUME NEW p \in Procs, NEW m \in Msgs, ClaimOutboxLost(p, m) PROVE RowsKnown'
  BY <1>6 DEF ClaimOutboxLost, TakeLease, Fault, Disturb, TypeOK, RowsKnown, table,
      Idle, Open, Claimable, Candidate
<1>7. ASSUME NEW p \in Procs, Receive(p) PROVE RowsKnown'
  BY <1>7 DEF Receive, TypeOK, RowsKnown, table, Idle, Open
<1>8. ASSUME NEW p \in Procs, PublishOk(p) PROVE RowsKnown'
  BY <1>8 DEF PublishOk, TypeOK, RowsKnown, table, Idle, Open
<1>9. ASSUME NEW p \in Procs, PublishErr(p) PROVE RowsKnown'
  BY <1>9 DEF PublishErr, TypeOK, RowsKnown, table, Idle, Open
<1>10. ASSUME NEW p \in Procs, MarkOutbox(p) PROVE RowsKnown'
  BY <1>10 DEF MarkOutbox, Settled, TypeOK, RowsKnown, table, Idle, Open
<1>11. ASSUME NEW p \in Procs, MarkOutboxFailed(p) PROVE RowsKnown'
  BY <1>11 DEF MarkOutboxFailed, Settled, TypeOK, RowsKnown, table, Idle, Open
<1>12. ASSUME NEW p \in Procs, RescheduleOutbox(p) PROVE RowsKnown'
  BY <1>12 DEF RescheduleOutbox, Settled, TypeOK, RowsKnown, table, Idle, Open
<1>13. ASSUME NEW p \in Procs, PersistFails(p) PROVE RowsKnown'
  BY <1>13 DEF PersistFails, Fault, Disturb, TypeOK, RowsKnown, table, Idle, Open
<1>14. ASSUME NEW p \in Procs, Shutdown(p) PROVE RowsKnown'
  BY <1>14 DEF Shutdown, Fault, Disturb, TypeOK, RowsKnown, table, Idle, Open
<1>15. ASSUME NEW p \in Procs, Exit(p) PROVE RowsKnown'
  BY <1>15 DEF Exit, Halt, TypeOK, RowsKnown, table, Idle, Open
<1>16. ASSUME NEW p \in Procs, Crash(p) PROVE RowsKnown'
  BY <1>16 DEF Crash, Halt, Fault, Disturb, TypeOK, RowsKnown, table, Idle, Open
<1>17. ASSUME NEW p \in Procs, Restart(p) PROVE RowsKnown'
  BY <1>17 DEF Restart, TypeOK, RowsKnown, table, Idle, Open
<1>18. CASE UNCHANGED vars
  BY <1>18 DEF vars, table, TypeOK, RowsKnown, Idle, Open
<1>. QED
  BY <1>1, <1>2, <1>3, <1>4, <1>5, <1>6, <1>7, <1>8, <1>9, <1>10, <1>11, <1>12,
      <1>13, <1>14, <1>15, <1>16, <1>17, <1>18
  DEF Next, Clock, Persist

\* A runner reports success, and a row is marked delivered, only for a
\* message the endpoint has received.
LEMMA ReceivedStep ==
    ASSUME TypeOK, GotWasReceived, DeliveredWasReceived, [Next]_vars
    PROVE  (GotWasReceived /\ DeliveredWasReceived)'
<1>1. ASSUME NEW m \in Msgs, AddOutbox(m) PROVE (GotWasReceived /\ DeliveredWasReceived)'
  BY <1>1 DEF AddOutbox, TypeOK, GotWasReceived, DeliveredWasReceived, table,
      Idle
<1>2. ASSUME NEW m \in Msgs, BecomeDue(m) PROVE (GotWasReceived /\ DeliveredWasReceived)'
  BY <1>2 DEF BecomeDue, TypeOK, GotWasReceived, DeliveredWasReceived, table,
      Idle
<1>3. ASSUME NEW m \in Msgs, LeaseExpires(m) PROVE (GotWasReceived /\ DeliveredWasReceived)'
  BY <1>3 DEF LeaseExpires, TypeOK, GotWasReceived, DeliveredWasReceived,
      table, Idle
<1>4. ASSUME NEW m \in Msgs, StallPastLease(m) PROVE (GotWasReceived /\ DeliveredWasReceived)'
  BY <1>4 DEF StallPastLease, Fault, Disturb, TypeOK, GotWasReceived,
      DeliveredWasReceived, table, Idle
<1>5. ASSUME NEW p \in Procs, NEW m \in Msgs, ClaimOutbox(p, m) PROVE (GotWasReceived /\ DeliveredWasReceived)'
  BY <1>5 DEF ClaimOutbox, TakeLease, TypeOK, GotWasReceived,
      DeliveredWasReceived, table, Idle
<1>6. ASSUME NEW p \in Procs, NEW m \in Msgs, ClaimOutboxLost(p, m) PROVE (GotWasReceived /\ DeliveredWasReceived)'
  BY <1>6 DEF ClaimOutboxLost, TakeLease, Fault, Disturb, TypeOK, GotWasReceived,
      DeliveredWasReceived, table, Idle
<1>7. ASSUME NEW p \in Procs, Receive(p) PROVE (GotWasReceived /\ DeliveredWasReceived)'
  BY <1>7 DEF Receive, TypeOK, GotWasReceived, DeliveredWasReceived, table,
      Idle
<1>8. ASSUME NEW p \in Procs, PublishOk(p) PROVE (GotWasReceived /\ DeliveredWasReceived)'
  BY <1>8 DEF PublishOk, TypeOK, GotWasReceived, DeliveredWasReceived, table,
      Idle
<1>9. ASSUME NEW p \in Procs, PublishErr(p) PROVE (GotWasReceived /\ DeliveredWasReceived)'
  BY <1>9 DEF PublishErr, TypeOK, GotWasReceived, DeliveredWasReceived, table,
      Idle
<1>10. ASSUME NEW p \in Procs, MarkOutbox(p) PROVE (GotWasReceived /\ DeliveredWasReceived)'
  BY <1>10 DEF MarkOutbox, Settled, TypeOK, GotWasReceived,
      DeliveredWasReceived, table, Idle
<1>11. ASSUME NEW p \in Procs, MarkOutboxFailed(p) PROVE (GotWasReceived /\ DeliveredWasReceived)'
  BY <1>11 DEF MarkOutboxFailed, Settled, TypeOK, GotWasReceived,
      DeliveredWasReceived, table, Idle
<1>12. ASSUME NEW p \in Procs, RescheduleOutbox(p) PROVE (GotWasReceived /\ DeliveredWasReceived)'
  BY <1>12 DEF RescheduleOutbox, Settled, TypeOK, GotWasReceived,
      DeliveredWasReceived, table, Idle
<1>13. ASSUME NEW p \in Procs, PersistFails(p) PROVE (GotWasReceived /\ DeliveredWasReceived)'
  BY <1>13 DEF PersistFails, Fault, Disturb, TypeOK, GotWasReceived,
      DeliveredWasReceived, table, Idle
<1>14. ASSUME NEW p \in Procs, Shutdown(p) PROVE (GotWasReceived /\ DeliveredWasReceived)'
  BY <1>14 DEF Shutdown, Fault, Disturb, TypeOK, GotWasReceived, DeliveredWasReceived,
      table, Idle
<1>15. ASSUME NEW p \in Procs, Exit(p) PROVE (GotWasReceived /\ DeliveredWasReceived)'
  BY <1>15 DEF Exit, Halt, TypeOK, GotWasReceived, DeliveredWasReceived, table,
      Idle
<1>16. ASSUME NEW p \in Procs, Crash(p) PROVE (GotWasReceived /\ DeliveredWasReceived)'
  BY <1>16 DEF Crash, Halt, Fault, Disturb, TypeOK, GotWasReceived,
      DeliveredWasReceived, table, Idle
<1>17. ASSUME NEW p \in Procs, Restart(p) PROVE (GotWasReceived /\ DeliveredWasReceived)'
  BY <1>17 DEF Restart, TypeOK, GotWasReceived, DeliveredWasReceived, table,
      Idle
<1>18. CASE UNCHANGED vars
  BY <1>18 DEF vars, table, TypeOK, GotWasReceived, DeliveredWasReceived, Idle
<1>. QED
  BY <1>1, <1>2, <1>3, <1>4, <1>5, <1>6, <1>7, <1>8, <1>9, <1>10, <1>11, <1>12,
      <1>13, <1>14, <1>15, <1>16, <1>17, <1>18
  DEF Next, Clock, Persist

\* The terminal columns stay exclusive.
LEMMA OneVerdictStep ==
    ASSUME TypeOK, RowsKnown, OneVerdict, [Next]_vars
    PROVE  OneVerdict'
<1>1. ASSUME NEW m \in Msgs, AddOutbox(m) PROVE OneVerdict'
  BY <1>1 DEF AddOutbox, TypeOK, RowsKnown, OneVerdict, table, Open
<1>2. ASSUME NEW m \in Msgs, BecomeDue(m) PROVE OneVerdict'
  BY <1>2 DEF BecomeDue, TypeOK, RowsKnown, OneVerdict, table, Open
<1>3. ASSUME NEW m \in Msgs, LeaseExpires(m) PROVE OneVerdict'
  BY <1>3 DEF LeaseExpires, TypeOK, RowsKnown, OneVerdict, table, Open
<1>4. ASSUME NEW m \in Msgs, StallPastLease(m) PROVE OneVerdict'
  BY <1>4 DEF StallPastLease, Fault, Disturb, TypeOK, RowsKnown, OneVerdict, table, Open
<1>5. ASSUME NEW p \in Procs, NEW m \in Msgs, ClaimOutbox(p, m) PROVE OneVerdict'
  BY <1>5 DEF ClaimOutbox, TakeLease, TypeOK, RowsKnown, OneVerdict, table,
      Open, Claimable, Candidate
<1>6. ASSUME NEW p \in Procs, NEW m \in Msgs, ClaimOutboxLost(p, m) PROVE OneVerdict'
  BY <1>6 DEF ClaimOutboxLost, TakeLease, Fault, Disturb, TypeOK, RowsKnown, OneVerdict,
      table, Open, Claimable, Candidate
<1>7. ASSUME NEW p \in Procs, Receive(p) PROVE OneVerdict'
  BY <1>7 DEF Receive, TypeOK, RowsKnown, OneVerdict, table, Open
<1>8. ASSUME NEW p \in Procs, PublishOk(p) PROVE OneVerdict'
  BY <1>8 DEF PublishOk, TypeOK, RowsKnown, OneVerdict, table, Open
<1>9. ASSUME NEW p \in Procs, PublishErr(p) PROVE OneVerdict'
  BY <1>9 DEF PublishErr, TypeOK, RowsKnown, OneVerdict, table, Open
<1>10. ASSUME NEW p \in Procs, MarkOutbox(p) PROVE OneVerdict'
  BY <1>10 DEF MarkOutbox, Settled, TypeOK, RowsKnown, OneVerdict, table, Open
<1>11. ASSUME NEW p \in Procs, MarkOutboxFailed(p) PROVE OneVerdict'
  BY <1>11 DEF MarkOutboxFailed, Settled, TypeOK, RowsKnown, OneVerdict, table,
      Open
<1>12. ASSUME NEW p \in Procs, RescheduleOutbox(p) PROVE OneVerdict'
  BY <1>12 DEF RescheduleOutbox, Settled, TypeOK, RowsKnown, OneVerdict, table,
      Open
<1>13. ASSUME NEW p \in Procs, PersistFails(p) PROVE OneVerdict'
  BY <1>13 DEF PersistFails, Fault, Disturb, TypeOK, RowsKnown, OneVerdict, table, Open
<1>14. ASSUME NEW p \in Procs, Shutdown(p) PROVE OneVerdict'
  BY <1>14 DEF Shutdown, Fault, Disturb, TypeOK, RowsKnown, OneVerdict, table, Open
<1>15. ASSUME NEW p \in Procs, Exit(p) PROVE OneVerdict'
  BY <1>15 DEF Exit, Halt, TypeOK, RowsKnown, OneVerdict, table, Open
<1>16. ASSUME NEW p \in Procs, Crash(p) PROVE OneVerdict'
  BY <1>16 DEF Crash, Halt, Fault, Disturb, TypeOK, RowsKnown, OneVerdict, table, Open
<1>17. ASSUME NEW p \in Procs, Restart(p) PROVE OneVerdict'
  BY <1>17 DEF Restart, TypeOK, RowsKnown, OneVerdict, table, Open
<1>18. CASE UNCHANGED vars
  BY <1>18 DEF vars, table, TypeOK, RowsKnown, OneVerdict, Open
<1>. QED
  BY <1>1, <1>2, <1>3, <1>4, <1>5, <1>6, <1>7, <1>8, <1>9, <1>10, <1>11, <1>12,
      <1>13, <1>14, <1>15, <1>16, <1>17, <1>18
  DEF Next, Clock, Persist

\* Until a process outlives its lease, a lease has one holder.
LEMMA LeaseStep ==
    ASSUME TypeOK, RowsKnown, LeaseExclusive, [Next]_vars
    PROVE  LeaseExclusive'
<1>1. ASSUME NEW m \in Msgs, AddOutbox(m) PROVE LeaseExclusive'
  BY <1>1 DEF AddOutbox, TypeOK, RowsKnown, LeaseExclusive, table, Open, Idle,
      WorksOn
<1>2. ASSUME NEW m \in Msgs, BecomeDue(m) PROVE LeaseExclusive'
  BY <1>2 DEF BecomeDue, TypeOK, RowsKnown, LeaseExclusive, table, Open, Idle,
      WorksOn
<1>3. ASSUME NEW m \in Msgs, LeaseExpires(m) PROVE LeaseExclusive'
  BY <1>3 DEF LeaseExpires, TypeOK, RowsKnown, LeaseExclusive, table, Open,
      Idle, WorksOn
<1>4. ASSUME NEW m \in Msgs, StallPastLease(m) PROVE LeaseExclusive'
  BY <1>4 DEF StallPastLease, Fault, Disturb, TypeOK, RowsKnown, LeaseExclusive, table,
      Open, Idle, WorksOn
<1>5. ASSUME NEW p \in Procs, NEW m \in Msgs, ClaimOutbox(p, m) PROVE LeaseExclusive'
  BY <1>5 DEF ClaimOutbox, TakeLease, TypeOK, RowsKnown, LeaseExclusive, table,
      Open, Idle, WorksOn, Claimable, Candidate
<1>6. ASSUME NEW p \in Procs, NEW m \in Msgs, ClaimOutboxLost(p, m) PROVE LeaseExclusive'
  BY <1>6 DEF ClaimOutboxLost, TakeLease, Fault, Disturb, TypeOK, RowsKnown,
      LeaseExclusive, table, Open, Idle, WorksOn, Claimable, Candidate
<1>7. ASSUME NEW p \in Procs, Receive(p) PROVE LeaseExclusive'
  BY <1>7 DEF Receive, TypeOK, RowsKnown, LeaseExclusive, table, Open, Idle,
      WorksOn
<1>8. ASSUME NEW p \in Procs, PublishOk(p) PROVE LeaseExclusive'
  BY <1>8 DEF PublishOk, TypeOK, RowsKnown, LeaseExclusive, table, Open, Idle,
      WorksOn
<1>9. ASSUME NEW p \in Procs, PublishErr(p) PROVE LeaseExclusive'
  BY <1>9 DEF PublishErr, TypeOK, RowsKnown, LeaseExclusive, table, Open, Idle,
      WorksOn
<1>10. ASSUME NEW p \in Procs, MarkOutbox(p) PROVE LeaseExclusive'
  BY <1>10 DEF MarkOutbox, Settled, TypeOK, RowsKnown, LeaseExclusive, table,
      Open, Idle, WorksOn
<1>11. ASSUME NEW p \in Procs, MarkOutboxFailed(p) PROVE LeaseExclusive'
  BY <1>11 DEF MarkOutboxFailed, Settled, TypeOK, RowsKnown, LeaseExclusive,
      table, Open, Idle, WorksOn
<1>12. ASSUME NEW p \in Procs, RescheduleOutbox(p) PROVE LeaseExclusive'
  BY <1>12 DEF RescheduleOutbox, Settled, TypeOK, RowsKnown, LeaseExclusive,
      table, Open, Idle, WorksOn
<1>13. ASSUME NEW p \in Procs, PersistFails(p) PROVE LeaseExclusive'
  BY <1>13 DEF PersistFails, Fault, Disturb, TypeOK, RowsKnown, LeaseExclusive, table,
      Open, Idle, WorksOn
<1>14. ASSUME NEW p \in Procs, Shutdown(p) PROVE LeaseExclusive'
  BY <1>14 DEF Shutdown, Fault, Disturb, TypeOK, RowsKnown, LeaseExclusive, table, Open,
      Idle, WorksOn
<1>15. ASSUME NEW p \in Procs, Exit(p) PROVE LeaseExclusive'
  BY <1>15 DEF Exit, Halt, TypeOK, RowsKnown, LeaseExclusive, table, Open,
      Idle, WorksOn
<1>16. ASSUME NEW p \in Procs, Crash(p) PROVE LeaseExclusive'
  BY <1>16 DEF Crash, Halt, Fault, Disturb, TypeOK, RowsKnown, LeaseExclusive, table,
      Open, Idle, WorksOn
<1>17. ASSUME NEW p \in Procs, Restart(p) PROVE LeaseExclusive'
  BY <1>17 DEF Restart, TypeOK, RowsKnown, LeaseExclusive, table, Open, Idle,
      WorksOn
<1>18. CASE UNCHANGED vars
  BY <1>18 DEF vars, table, TypeOK, RowsKnown, LeaseExclusive, Open, Idle,
      WorksOn
<1>. QED
  BY <1>1, <1>2, <1>3, <1>4, <1>5, <1>6, <1>7, <1>8, <1>9, <1>10, <1>11, <1>12,
      <1>13, <1>14, <1>15, <1>16, <1>17, <1>18
  DEF Next, Clock, Persist

\* Claims beyond the retry limit are paid for by faults.
LEMMA BudgetStep ==
    ASSUME TypeOK, RowsKnown, OneVerdict, Budget, [Next]_vars
    PROVE  Budget'
<1> USE RetryLimitAssumption, MaxFaultsAssumption, MsgsAssumption
<1>1. ASSUME NEW m \in Msgs, AddOutbox(m) PROVE Budget'
  BY <1>1 DEF AddOutbox, TypeOK, RowsKnown, OneVerdict, Budget, Held, table,
      Open, Idle, WorksOn
<1>2. ASSUME NEW m \in Msgs, BecomeDue(m) PROVE Budget'
  BY <1>2 DEF BecomeDue, TypeOK, RowsKnown, OneVerdict, Budget, Held, table,
      Open, Idle, WorksOn
<1>3. ASSUME NEW m \in Msgs, LeaseExpires(m) PROVE Budget'
  BY <1>3 DEF LeaseExpires, TypeOK, RowsKnown, OneVerdict, Budget, Held, table,
      Open, Idle, WorksOn
<1>4. ASSUME NEW m \in Msgs, StallPastLease(m) PROVE Budget'
  BY <1>4 DEF StallPastLease, Fault, Disturb, TypeOK, RowsKnown, OneVerdict, Budget,
      Held, table, Open, Idle, WorksOn
<1>5. ASSUME NEW p \in Procs, NEW m \in Msgs, ClaimOutbox(p, m) PROVE Budget'
  BY <1>5 DEF ClaimOutbox, TakeLease, TypeOK, RowsKnown, OneVerdict, Budget,
      Held, table, Open, Idle, WorksOn, Claimable, Candidate
<1>6. ASSUME NEW p \in Procs, NEW m \in Msgs, ClaimOutboxLost(p, m) PROVE Budget'
  BY <1>6 DEF ClaimOutboxLost, TakeLease, Fault, Disturb, TypeOK, RowsKnown, OneVerdict,
      Budget, Held, table, Open, Idle, WorksOn, Claimable, Candidate
<1>7. ASSUME NEW p \in Procs, Receive(p) PROVE Budget'
  BY <1>7 DEF Receive, TypeOK, RowsKnown, OneVerdict, Budget, Held, table,
      Open, Idle, WorksOn
<1>8. ASSUME NEW p \in Procs, PublishOk(p) PROVE Budget'
  BY <1>8 DEF PublishOk, TypeOK, RowsKnown, OneVerdict, Budget, Held, table,
      Open, Idle, WorksOn
<1>9. ASSUME NEW p \in Procs, PublishErr(p) PROVE Budget'
  BY <1>9 DEF PublishErr, TypeOK, RowsKnown, OneVerdict, Budget, Held, table,
      Open, Idle, WorksOn
<1>10. ASSUME NEW p \in Procs, MarkOutbox(p) PROVE Budget'
  BY <1>10 DEF MarkOutbox, Settled, TypeOK, RowsKnown, OneVerdict, Budget,
      Held, table, Open, Idle, WorksOn
<1>11. ASSUME NEW p \in Procs, MarkOutboxFailed(p) PROVE Budget'
  BY <1>11 DEF MarkOutboxFailed, Settled, TypeOK, RowsKnown, OneVerdict,
      Budget, Held, table, Open, Idle, WorksOn
<1>12. ASSUME NEW p \in Procs, RescheduleOutbox(p) PROVE Budget'
  BY <1>12 DEF RescheduleOutbox, Settled, TypeOK, RowsKnown, OneVerdict,
      Budget, Held, table, Open, Idle, WorksOn
<1>13. ASSUME NEW p \in Procs, PersistFails(p) PROVE Budget'
  BY <1>13 DEF PersistFails, Fault, Disturb, TypeOK, RowsKnown, OneVerdict, Budget,
      Held, table, Open, Idle, WorksOn
<1>14. ASSUME NEW p \in Procs, Shutdown(p) PROVE Budget'
  BY <1>14 DEF Shutdown, Fault, Disturb, TypeOK, RowsKnown, OneVerdict, Budget, Held,
      table, Open, Idle, WorksOn
<1>15. ASSUME NEW p \in Procs, Exit(p) PROVE Budget'
  BY <1>15 DEF Exit, Halt, TypeOK, RowsKnown, OneVerdict, Budget, Held, table,
      Open, Idle, WorksOn
<1>16. ASSUME NEW p \in Procs, Crash(p) PROVE Budget'
  BY <1>16 DEF Crash, Halt, Fault, Disturb, TypeOK, RowsKnown, OneVerdict, Budget, Held,
      table, Open, Idle, WorksOn
<1>17. ASSUME NEW p \in Procs, Restart(p) PROVE Budget'
  BY <1>17 DEF Restart, TypeOK, RowsKnown, OneVerdict, Budget, Held, table,
      Open, Idle, WorksOn
<1>18. CASE UNCHANGED vars
  BY <1>18 DEF vars, table, TypeOK, RowsKnown, OneVerdict, Budget, Held, Open,
      Idle, WorksOn
<1>. QED
  BY <1>1, <1>2, <1>3, <1>4, <1>5, <1>6, <1>7, <1>8, <1>9, <1>10, <1>11, <1>12,
      <1>13, <1>14, <1>15, <1>16, <1>17, <1>18
  DEF Next, Clock, Persist

\* One more fault gives every message one more try of slack.
LEMMA FaultTries ==
    ASSUME TypeOK, Tries,
           faults' = faults + 1, UNCHANGED <<attempts, sends, failed>>,
           \A q \in Procs : runner'[q].pc # "idle" => runner'[q] = runner[q]
    PROVE  Tries'
<1>1. faults \in Nat
  BY MaxFaultsAssumption DEF TypeOK
<1>2. \A m \in Msgs : attempts'[m] <= sends'[m] + faults'
  BY <1>1 DEF Tries, TypeOK
<1>3. \A q \in Procs : runner'[q].pc # "idle" =>
         runner'[q].attempts <= sends'[runner'[q].msg] + faults'
  BY <1>1 DEF Tries, TypeOK
<1>4. FailedAfterTries'
  BY <1>1, RetryLimitAssumption DEF Tries, TypeOK, FailedAfterTries
<1>. QED
  BY <1>2, <1>3, <1>4 DEF Tries

\* Every attempt counted is a call of Publish or a fault.
LEMMA TriesStep ==
    ASSUME TypeOK, RowsKnown, Tries, [Next]_vars
    PROVE  Tries'
<1> USE RetryLimitAssumption, MaxFaultsAssumption, MsgsAssumption
<1>1. ASSUME NEW m \in Msgs, AddOutbox(m) PROVE Tries'
  BY <1>1 DEF AddOutbox, TypeOK, RowsKnown, Tries, FailedAfterTries, table,
      Open, Idle
<1>2. ASSUME NEW m \in Msgs, BecomeDue(m) PROVE Tries'
  BY <1>2 DEF BecomeDue, TypeOK, RowsKnown, Tries, FailedAfterTries, table,
      Open, Idle
<1>3. ASSUME NEW m \in Msgs, LeaseExpires(m) PROVE Tries'
  BY <1>3 DEF LeaseExpires, TypeOK, RowsKnown, Tries, FailedAfterTries, table,
      Open, Idle
<1>4. ASSUME NEW m \in Msgs, StallPastLease(m) PROVE Tries'
  BY <1>4, FaultTries DEF StallPastLease, Fault, Disturb, TypeOK, table, Idle
<1>5. ASSUME NEW p \in Procs, NEW m \in Msgs, ClaimOutbox(p, m) PROVE Tries'
  BY <1>5 DEF ClaimOutbox, TakeLease, TypeOK, RowsKnown, Tries,
      FailedAfterTries, table, Open, Idle, Claimable, Candidate
<1>6. ASSUME NEW p \in Procs, NEW m \in Msgs, ClaimOutboxLost(p, m) PROVE Tries'
  <2>1. /\ faults \in Nat /\ faults' = faults + 1
        /\ UNCHANGED <<sends, failed, runner>>
        /\ \A k \in Msgs : attempts'[k] <= attempts[k] + 1
    BY <1>6, MaxFaultsAssumption DEF ClaimOutboxLost, TakeLease, Fault, Disturb, TypeOK
  <2>2. \A k \in Msgs : attempts'[k] <= sends'[k] + faults'
    BY <1>6, <2>1 DEF Tries, TypeOK, ClaimOutboxLost, TakeLease
  <2>3. \A q \in Procs : runner'[q].pc # "idle" =>
           runner'[q].attempts <= sends'[runner'[q].msg] + faults'
    <3>1. ASSUME NEW q \in Procs, runner[q].pc # "idle"
          PROVE  /\ runner[q].attempts \in Nat /\ sends[runner[q].msg] \in Nat
                 /\ runner[q].attempts <= sends[runner[q].msg] + faults
      BY <3>1 DEF Tries, TypeOK
    <3>. QED
      BY <2>1, <3>1
  <2>4. FailedAfterTries'
    BY <2>1, RetryLimitAssumption DEF Tries, TypeOK, FailedAfterTries
  <2>. QED
    BY <2>2, <2>3, <2>4 DEF Tries
<1>7. ASSUME NEW p \in Procs, Receive(p) PROVE Tries'
  BY <1>7 DEF Receive, TypeOK, RowsKnown, Tries, FailedAfterTries, table, Open,
      Idle
<1>8. ASSUME NEW p \in Procs, PublishOk(p) PROVE Tries'
  BY <1>8 DEF PublishOk, TypeOK, RowsKnown, Tries, FailedAfterTries, table,
      Open, Idle
<1>9. ASSUME NEW p \in Procs, PublishErr(p) PROVE Tries'
  BY <1>9 DEF PublishErr, TypeOK, RowsKnown, Tries, FailedAfterTries, table,
      Open, Idle
<1>10. ASSUME NEW p \in Procs, MarkOutbox(p) PROVE Tries'
  BY <1>10 DEF MarkOutbox, Settled, TypeOK, RowsKnown, Tries, FailedAfterTries,
      table, Open, Idle
<1>11. ASSUME NEW p \in Procs, MarkOutboxFailed(p) PROVE Tries'
  BY <1>11 DEF MarkOutboxFailed, Settled, TypeOK, RowsKnown, Tries,
      FailedAfterTries, table, Open, Idle
<1>12. ASSUME NEW p \in Procs, RescheduleOutbox(p) PROVE Tries'
  BY <1>12 DEF RescheduleOutbox, Settled, TypeOK, RowsKnown, Tries,
      FailedAfterTries, table, Open, Idle
<1>13. ASSUME NEW p \in Procs, PersistFails(p) PROVE Tries'
  BY <1>13, FaultTries DEF PersistFails, Fault, Disturb, TypeOK, table, Idle
<1>14. ASSUME NEW p \in Procs, Shutdown(p) PROVE Tries'
  BY <1>14, FaultTries DEF Shutdown, Fault, Disturb, TypeOK, table, Idle
<1>15. ASSUME NEW p \in Procs, Exit(p) PROVE Tries'
  BY <1>15 DEF Exit, Halt, TypeOK, RowsKnown, Tries, FailedAfterTries, table,
      Open, Idle
<1>16. ASSUME NEW p \in Procs, Crash(p) PROVE Tries'
  BY <1>16, FaultTries DEF Crash, Halt, Fault, Disturb, TypeOK, table, Idle
<1>17. ASSUME NEW p \in Procs, Restart(p) PROVE Tries'
  BY <1>17 DEF Restart, TypeOK, RowsKnown, Tries, FailedAfterTries, table,
      Open, Idle
<1>18. CASE UNCHANGED vars
  BY <1>18 DEF vars, table, TypeOK, RowsKnown, Tries, FailedAfterTries, Open,
      Idle
<1>. QED
  BY <1>1, <1>2, <1>3, <1>4, <1>5, <1>6, <1>7, <1>8, <1>9, <1>10, <1>11, <1>12,
      <1>13, <1>14, <1>15, <1>16, <1>17, <1>18
  DEF Next, Clock, Persist
-----------------------------------------------------------------------------

\* The inductive invariant holds in every reachable state of the outbox.
THEOREM Invariance == Spec => []IInv
<1>1. Init => IInv
  <2> SUFFICES ASSUME Init PROVE IInv
    OBVIOUS
  <2>1. TypeOK
    <3>1. stalled \in BOOLEAN
      BY DEF Init
    <3>. QED
      BY <3>1, MaxFaultsAssumption DEF Init, TypeOK, Idle, NoMsg
  <2>2. RowsKnown /\ GotWasReceived /\ DeliveredWasReceived /\ OneVerdict
    BY DEF Init, RowsKnown, GotWasReceived, DeliveredWasReceived, OneVerdict, Idle
  <2>3. LeaseExclusive
    BY DEF Init, LeaseExclusive, WorksOn, Idle
  <2>4. Budget /\ Tries
    BY RetryLimitAssumption
    DEF Init, Budget, Tries, FailedAfterTries, Idle, Open, Held, WorksOn
  <2>. QED
    BY <2>1, <2>2, <2>3, <2>4 DEF IInv
<1>2. IInv /\ [Next]_vars => IInv'
  BY TypeStep, RowsKnownStep, ReceivedStep, OneVerdictStep, LeaseStep,
     BudgetStep, TriesStep
  DEF IInv
<1>. QED
  BY <1>1, <1>2, PTL DEF Spec

\* Every column, process and runner keeps its type.
THEOREM TypeCorrect == Spec => []TypeOK
<1>1. IInv => TypeOK
  BY DEF IInv
<1>. QED
  BY Invariance, <1>1, PTL

\* delivered_at is set only on messages the endpoint received.
THEOREM NeverMarksUndelivered == Spec => []DeliveredWasReceived
<1>1. IInv => DeliveredWasReceived
  BY DEF IInv
<1>. QED
  BY Invariance, <1>1, PTL

\* A message is never both delivered and failed.
THEOREM VerdictUnique == Spec => []OneVerdict
<1>1. IInv => OneVerdict
  BY DEF IInv
<1>. QED
  BY Invariance, <1>1, PTL

\* Until a process outlives its lease, ClaimOutbox gives a message to one runner at a time.
THEOREM LeasesExclude == Spec => []LeaseExclusive
<1>1. IInv => LeaseExclusive
  BY DEF IInv
<1>. QED
  BY Invariance, <1>1, PTL

\* attempts exceeds the retry limit by at most the number of faults.
THEOREM AttemptsBounded == Spec => []AttemptsBound
<1>1. IInv => AttemptsBound
  BY DEF IInv, Budget, AttemptsBound
<1>. QED
  BY Invariance, <1>1, PTL

\* A message is given up only after its tries are used up.
THEOREM NotGivenUpEarly == Spec => []FailedAfterTries
<1>1. IInv => FailedAfterTries
  BY DEF IInv, Tries
<1>. QED
  BY Invariance, <1>1, PTL

\* A settled row is never written again.
THEOREM VerdictFinal == Spec => SettledForever
<1>1. ASSUME IInv, [Next]_vars, NEW m \in Msgs, delivered[m] \/ failed[m]
      PROVE  /\ delivered'[m] = delivered[m] /\ failed'[m] = failed[m]
             /\ attempts'[m] = attempts[m] /\ lock'[m] = lock[m]
  <2>1. /\ lock[m] = "free" /\ ~Open(m) /\ TypeOK
    BY <1>1 DEF IInv, OneVerdict, Open
  <2>2. CASE UNCHANGED vars
    BY <2>2 DEF vars, table
  <2>3. ASSUME NEW k \in Msgs, AddOutbox(k) \/ Clock(k) \/ StallPastLease(k)
        PROVE  UNCHANGED <<delivered, failed, attempts>> /\ lock'[m] = lock[m]
    BY <2>1, <2>3 DEF AddOutbox, Clock, BecomeDue, LeaseExpires, StallPastLease, TypeOK
  <2>4. ASSUME NEW p \in Procs, NEW k \in Msgs, ClaimOutbox(p, k) \/ ClaimOutboxLost(p, k)
        PROVE  /\ UNCHANGED <<delivered, failed>>
               /\ attempts'[m] = attempts[m] /\ lock'[m] = lock[m]
    BY <2>1, <2>4
    DEF ClaimOutbox, ClaimOutboxLost, TakeLease, Candidate, Claimable, TypeOK
  <2>5. ASSUME NEW p \in Procs, Persist(p)
        PROVE  /\ delivered'[m] = delivered[m] /\ failed'[m] = failed[m]
               /\ attempts'[m] = attempts[m] /\ lock'[m] = lock[m]
    <3>1. CASE MarkOutbox(p)
      BY <2>1, <3>1 DEF MarkOutbox, TypeOK
    <3>2. CASE MarkOutboxFailed(p)
      BY <2>1, <3>2 DEF MarkOutboxFailed, TypeOK
    <3>3. CASE RescheduleOutbox(p)
      BY <2>1, <3>3 DEF RescheduleOutbox, TypeOK
    <3>. QED
      BY <2>5, <3>1, <3>2, <3>3 DEF Persist
  <2>6. ASSUME NEW p \in Procs,
               \/ Receive(p) \/ PublishOk(p) \/ PublishErr(p) \/ PersistFails(p)
               \/ Shutdown(p) \/ Exit(p) \/ Crash(p) \/ Restart(p)
        PROVE  UNCHANGED <<delivered, failed, attempts, lock>>
    BY <2>6 DEF Receive, PublishOk, PublishErr, PersistFails, Shutdown, Exit,
                Crash, Restart, Halt, table
  <2>. QED
    BY <1>1, <2>2, <2>3, <2>4, <2>5, <2>6 DEF Next
<1>2. IInv /\ [Next]_vars =>
        [\A m \in Msgs : delivered[m] \/ failed[m] =>
            /\ delivered'[m] = delivered[m] /\ failed'[m] = failed[m]
            /\ attempts'[m] = attempts[m] /\ lock'[m] = lock[m]]_vars
  BY <1>1
<1>. QED
  BY Invariance, <1>2, PTL DEF Spec, SettledForever

-----------------------------------------------------------------------------

\* Recording an outcome is a step of the contract, or no step for it when the
\* message was settled before.
LEMMA PersistImplements ==
    ASSUME IInv, NEW p \in Procs, Persist(p)
    PROVE  [Contract!Next]_Contract!vars
<1> DEFINE m == runner[p].msg
<1>1. m \in Msgs /\ m \in present /\ received' = received /\ present' = present
  BY DEF Persist, MarkOutbox, MarkOutboxFailed, RescheduleOutbox, Settled, IInv,
         TypeOK, RowsKnown
<1>2. CASE MarkOutbox(p) /\ Open(m)
  <2>1. m \in received
    BY <1>2 DEF MarkOutbox, IInv, GotWasReceived
  <2>2. rowStatus[m] = "pending" /\ rowStatus' = [rowStatus EXCEPT ![m] = "delivered"]
    BY <1>1, <1>2 DEF MarkOutbox, rowStatus, Open, IInv, TypeOK
  <2>. QED
    BY <1>1, <2>1, <2>2 DEF Contract!Next, Contract!Deliver
<1>3. CASE MarkOutboxFailed(p) /\ Open(m)
  <2>1. rowStatus[m] = "pending" /\ rowStatus' = [rowStatus EXCEPT ![m] = "failed"]
    BY <1>1, <1>3 DEF MarkOutboxFailed, rowStatus, Open, IInv, TypeOK
  <2>. QED
    BY <1>1, <2>1 DEF Contract!Next, Contract!GiveUp
<1>4. CASE RescheduleOutbox(p)
  BY <1>1, <1>4 DEF RescheduleOutbox, rowStatus, Open, Contract!vars
<1>5. CASE (MarkOutbox(p) \/ MarkOutboxFailed(p)) /\ ~Open(m)
  <2>1. delivered' = delivered /\ failed' = failed
    BY <1>1, <1>5 DEF MarkOutbox, MarkOutboxFailed, IInv, TypeOK
  <2>. QED
    BY <1>1, <2>1 DEF rowStatus, Open, Contract!vars
<1>. QED
  BY <1>2, <1>3, <1>4, <1>5 DEF Persist

\* The outbox implements OutboxContract: seen through the columns delivered_at
\* and failed_at and the endpoint, every behaviour of the workers is
\* at-least-once delivery with a single final verdict.
THEOREM Refinement == Spec => ImplementsContract
<1>1. Init => Contract!Init
  BY DEF Init, Contract!Init, rowStatus, Open
<1>2. ASSUME IInv, [Next]_vars PROVE [Contract!Next]_Contract!vars
  <2>1. ASSUME NEW m \in Msgs, AddOutbox(m) PROVE Contract!Next
    <3>1. rowStatus[m] = "absent" /\ rowStatus' = [rowStatus EXCEPT ![m] = "pending"]
      <4>1. /\ m \notin present /\ present' = present \cup {m}
            /\ delivered' = delivered /\ failed' = failed
            /\ ~delivered[m] /\ ~failed[m]
        BY <1>2, <2>1 DEF AddOutbox, IInv, RowsKnown
      <4>. QED
        BY <4>1 DEF rowStatus, Open
    <3>. QED
      BY <2>1, <3>1 DEF AddOutbox, Contract!Next, Contract!Accept
  <2>2. ASSUME NEW p \in Procs, Receive(p) PROVE Contract!Next
    <3>1. runner[p].msg \in Msgs /\ runner[p].msg \in present
      BY <1>2, <2>2 DEF Receive, IInv, TypeOK, RowsKnown
    <3>2. rowStatus[runner[p].msg] # "absent" /\ rowStatus' = rowStatus
      BY <2>2, <3>1 DEF Receive, rowStatus, Open, table
    <3>. QED
      BY <2>2, <3>1, <3>2 DEF Receive, Contract!Next, Contract!Receive
  <2>3. ASSUME NEW m \in Msgs, Clock(m) \/ StallPastLease(m)
        PROVE  UNCHANGED <<present, delivered, failed, received>>
    BY <2>3 DEF Clock, BecomeDue, LeaseExpires, StallPastLease
  <2>4. ASSUME NEW p \in Procs, NEW m \in Msgs, ClaimOutbox(p, m) \/ ClaimOutboxLost(p, m)
        PROVE  UNCHANGED <<present, delivered, failed, received>>
    BY <2>4 DEF ClaimOutbox, ClaimOutboxLost, TakeLease
  <2>5. ASSUME NEW p \in Procs,
               \/ PublishOk(p) \/ PublishErr(p) \/ PersistFails(p)
               \/ Shutdown(p) \/ Exit(p) \/ Crash(p) \/ Restart(p)
        PROVE  UNCHANGED <<present, delivered, failed, received>>
    BY <2>5 DEF PublishOk, PublishErr, PersistFails, Shutdown, Exit, Crash,
                Restart, Halt, table
  <2>6. CASE UNCHANGED <<present, delivered, failed, received>>
    BY <2>6 DEF rowStatus, Open, Contract!vars
  <2>7. CASE UNCHANGED vars
    BY <2>6, <2>7 DEF vars, table
  <2>. QED
    BY <1>2, <2>1, <2>2, <2>3, <2>4, <2>5, <2>6, <2>7, PersistImplements DEF Next
<1>. QED
  BY Invariance, <1>1, <1>2, PTL DEF Spec, Contract!Spec, ImplementsContract

-----------------------------------------------------------------------------
(* How often a message is sent                                              *)

\* One element for each try that a runner at work on m grants the message when
\* it reschedules it with the attempts its claim returned.  RescheduleOutbox
\* checks no owner, so runners whose lease ran out count too.
Tickets(m) ==
    {t \in Procs \X (1..RetryLimit) : WorksOn(t[1], m) /\ t[2] > runner[t[1]].attempts}

\* The tries of the row itself: at least one, for a lease that nobody settles is
\* taken over whatever the attempts.
Credit(m) == IF attempts[m] < RetryLimit THEN RetryLimit - attempts[m] ELSE 1

\* The claim of a running process is the last one, so that it speaks for the row.
InHand(m) ==
    /\ lock[m] = "held"
    /\ \E p \in Procs : proc[p] = "up" /\ WorksOn(p, m) /\ runner[p].attempts = attempts[m]

Committed(m) == sends[m] + Cardinality(Tickets(m))

\* SendsBound is not inductive: what was sent and what the runners and the row
\* can still grant are together within the budget of the faults so far.
WithinBudget(m) ==
    /\ Committed(m) <= RetryLimit * (faults + 1)
    /\ ~delivered[m] /\ ~failed[m] /\ ~InHand(m) =>
          Committed(m) + Credit(m) <= RetryLimit * (faults + 1)

SendBudget == \A m \in Msgs : WithinBudget(m)

\* What a claim with s attempts grants.
Slice(p, s) == {p} \X (s + 1..RetryLimit)

\* It grants the tries that are left up to the limit, none beyond it.
LEMMA SliceCardinality ==
  ASSUME NEW p, NEW s \in Nat
  PROVE  /\ IsFiniteSet(Slice(p, s))
         /\ Cardinality(Slice(p, s)) = IF s < RetryLimit THEN RetryLimit - s ELSE 0
<1> DEFINE I == s + 1..RetryLimit
           f == [i \in I |-> <<p, i>>]
<1>1. IsFiniteSet(I) /\ Cardinality(I) = IF s < RetryLimit THEN RetryLimit - s ELSE 0
  BY FS_Interval, RetryLimitAssumption
<1>2. f \in Bijection(I, Slice(p, s))
  BY DEF Slice, Bijection, Injection, Surjection, IsInjective
<1>3. ExistsBijection(I, Slice(p, s))
  BY <1>2 DEF ExistsBijection
<1> QED
  BY <1>1, <1>3, FS_Bijection

\* Finitely many processes grant finitely many tries.
LEMMA TicketsFinite ==
  ASSUME IsFiniteSet(Procs), NEW m
  PROVE  IsFiniteSet(Tickets(m)) /\ Cardinality(Tickets(m)) \in Nat
<1>1. IsFiniteSet(1..RetryLimit)
  BY FS_Interval, RetryLimitAssumption
<1>2. IsFiniteSet(Procs \X (1..RetryLimit))
  BY <1>1, FS_Product
<1> QED
  BY <1>2, FS_Subset, FS_CardinalityType DEF Tickets

\* A runner that drops a message takes its tickets along.
LEMMA FewerTickets ==
  ASSUME IsFiniteSet(Procs), NEW m,
         \A p \in Procs : WorksOn(p, m)' =>
            WorksOn(p, m) /\ runner'[p].attempts = runner[p].attempts
  PROVE  /\ Cardinality(Tickets(m)) \in Nat /\ Cardinality(Tickets(m)') \in Nat
         /\ Cardinality(Tickets(m)') <= Cardinality(Tickets(m))
<1>1. Tickets(m)' \subseteq Tickets(m)
  BY DEF Tickets
<1> QED
  BY <1>1, TicketsFinite, FS_Subset, FS_CardinalityType

\* Sets with nothing in common are counted one after the other.
LEMMA DisjointUnion ==
  ASSUME NEW S, NEW T, IsFiniteSet(S), IsFiniteSet(T), S \cap T = {}
  PROVE  Cardinality(S \cup T) = Cardinality(S) + Cardinality(T)
<1>1. Cardinality(S) \in Nat /\ Cardinality(T) \in Nat /\ Cardinality(S \cap T) = 0
  BY FS_CardinalityType, FS_EmptySet
<1>2. Cardinality(S \cup T) = Cardinality(S) + Cardinality(T) - Cardinality(S \cap T)
  BY FS_Union
<1> QED
  BY <1>1, <1>2

\* What the runner that drops it could have granted is subtracted.
LEMMA TicketsReturned ==
  ASSUME IsFiniteSet(Procs), TypeOK, NEW p \in Procs, NEW m, WorksOn(p, m),
         runner' = [runner EXCEPT ![p] = Idle]
  PROVE  Cardinality(Tickets(m)') + Cardinality(Slice(p, runner[p].attempts))
            <= Cardinality(Tickets(m))
<1> DEFINE S == Slice(p, runner[p].attempts)
           T == Tickets(m)'
<1>1. runner[p].attempts \in Nat
  BY DEF TypeOK
<1>2. T \cup S \subseteq Tickets(m)
  BY <1>1, RetryLimitAssumption DEF Tickets, Slice, WorksOn, Idle, TypeOK
<1>3. T \cap S = {}
  BY DEF Tickets, Slice, WorksOn, Idle, TypeOK
<1>4. IsFiniteSet(Tickets(m)) /\ Cardinality(Tickets(m)) \in Nat
  BY TicketsFinite
<1>5. IsFiniteSet(T) /\ IsFiniteSet(S)
  BY <1>2, <1>4, FS_Subset
<1>6. Cardinality(T \cup S) = Cardinality(T) + Cardinality(S)
  BY <1>3, <1>5, DisjointUnion
<1>7. Cardinality(T \cup S) <= Cardinality(Tickets(m))
  BY <1>2, <1>4, FS_Subset
<1> QED
  BY <1>6, <1>7

\* A claim adds what it can grant.
LEMMA TicketsIssued ==
  ASSUME IsFiniteSet(Procs), TypeOK, NEW p \in Procs, NEW m \in Msgs, NEW s \in Nat,
         runner' = [runner EXCEPT ![p] = [pc |-> "publish", msg |-> m, attempts |-> s]]
  PROVE  /\ Cardinality(Tickets(m)') \in Nat
         /\ Cardinality(Tickets(m)') <= Cardinality(Tickets(m)) + Cardinality(Slice(p, s))
<1> DEFINE S == Slice(p, s)
           T == Tickets(m)
<1>1. Tickets(m)' \subseteq T \cup S
  BY RetryLimitAssumption DEF Tickets, Slice, WorksOn, TypeOK
<1>2. IsFiniteSet(T) /\ IsFiniteSet(S)
  BY TicketsFinite, SliceCardinality
<1>3. /\ Cardinality(T) \in Nat /\ Cardinality(S) \in Nat /\ Cardinality(T \cap S) \in Nat
      /\ IsFiniteSet(T \cup S)
      /\ Cardinality(T \cup S) = Cardinality(T) + Cardinality(S) - Cardinality(T \cap S)
  <2> HIDE DEF T, S
  <2> QED
    BY <1>2, FS_CardinalityType, FS_Intersection, FS_Union
<1>4. Cardinality(Tickets(m)') \in Nat /\ Cardinality(Tickets(m)') <= Cardinality(T \cup S)
  BY <1>1, <1>3, FS_Subset, FS_CardinalityType
<1> QED
  BY <1>3, <1>4

\* A step that sends nothing and grants the message nothing keeps to its budget.
LEMMA QuietBudget ==
  ASSUME IsFiniteSet(Procs), TypeOK, NEW m \in Msgs, WithinBudget(m),
         faults' = faults, sends'[m] = sends[m], attempts'[m] = attempts[m],
         \A p \in Procs : WorksOn(p, m)' =>
            WorksOn(p, m) /\ runner'[p].attempts = runner[p].attempts,
         ~delivered'[m] /\ ~failed'[m] /\ ~InHand(m)' =>
            ~delivered[m] /\ ~failed[m] /\ ~InHand(m)
  PROVE  WithinBudget(m)'
<1>1. /\ Cardinality(Tickets(m)) \in Nat /\ Cardinality(Tickets(m)') \in Nat
      /\ Cardinality(Tickets(m)') <= Cardinality(Tickets(m))
  BY FewerTickets
<1>2. sends[m] \in Nat /\ attempts[m] \in Nat /\ RetryLimit \in Nat
  BY RetryLimitAssumption DEF TypeOK
<1>3. RetryLimit * (faults + 1) \in Nat
  BY <1>2, MaxFaultsAssumption DEF TypeOK
<1>4. RetryLimit * (faults' + 1) = RetryLimit * (faults + 1)
  OBVIOUS
<1> QED
  BY <1>1, <1>2, <1>3, <1>4 DEF WithinBudget, Committed, Credit

\* A fault pays for whatever one step can cost.
LEMMA FaultBudget ==
  ASSUME IsFiniteSet(Procs), TypeOK, TypeOK', NEW m \in Msgs, WithinBudget(m),
         faults' = faults + 1, sends'[m] = sends[m],
         \A p \in Procs : WorksOn(p, m)' =>
            WorksOn(p, m) /\ runner'[p].attempts = runner[p].attempts
  PROVE  WithinBudget(m)'
<1>1. /\ Cardinality(Tickets(m)) \in Nat /\ Cardinality(Tickets(m)') \in Nat
      /\ Cardinality(Tickets(m)') <= Cardinality(Tickets(m))
  BY FewerTickets
<1>2. sends[m] \in Nat /\ RetryLimit \in Nat \ {0} /\ faults \in Nat
  BY RetryLimitAssumption, MaxFaultsAssumption DEF TypeOK
<1>3. RetryLimit * (faults + 1) \in Nat
  BY <1>2
<1>4. RetryLimit * (faults' + 1) = RetryLimit * (faults + 1) + RetryLimit
  BY <1>2
<1>5. Credit(m)' \in Nat /\ Credit(m)' <= RetryLimit
  BY <1>2 DEF Credit, TypeOK
<1> QED
  BY <1>1, <1>2, <1>3, <1>4, <1>5 DEF WithinBudget, Committed

\* Every step keeps each message within its budget: a claim uses up a try of the
\* row, a reschedule turns the tickets of the runner into tries of the row, and
\* what is lost or duplicated on the way is paid for by a fault.
LEMMA SendBudgetStep ==
  ASSUME IsFiniteSet(Procs), IInv, TypeOK', SendBudget, [Next]_vars
  PROVE  SendBudget'
<1> SUFFICES ASSUME NEW m \in Msgs PROVE WithinBudget(m)'
  BY DEF SendBudget
<1>0. TypeOK /\ RowsKnown /\ OneVerdict /\ Budget /\ WithinBudget(m)
  BY DEF IInv, SendBudget
<1> USE <1>0
<1>1. ASSUME NEW k \in Msgs, AddOutbox(k) \/ Clock(k) PROVE WithinBudget(m)'
  <2>1. UNCHANGED <<attempts, sends, faults, runner, proc, delivered, failed>>
    BY <1>1 DEF AddOutbox, Clock, BecomeDue, LeaseExpires
  <2>2. InHand(m) => InHand(m)'
    BY <1>1, <2>1 DEF AddOutbox, Clock, BecomeDue, LeaseExpires, InHand, WorksOn, TypeOK
  <2> QED
    BY <2>1, <2>2, QuietBudget DEF WorksOn
<1>2. ASSUME NEW k \in Msgs, StallPastLease(k) PROVE WithinBudget(m)'
  BY <1>2, FaultBudget DEF StallPastLease, Disturb, WorksOn
<1>3. ASSUME NEW p \in Procs, NEW k \in Msgs, ClaimOutbox(p, k) PROVE WithinBudget(m)'
  <2>1. CASE k # m
    <3>1. /\ faults' = faults /\ sends'[m] = sends[m] /\ attempts'[m] = attempts[m]
          /\ UNCHANGED <<delivered, failed, proc>> /\ lock'[m] = lock[m]
          /\ \A q \in Procs : WorksOn(q, m) <=> WorksOn(q, m)'
          /\ \A q \in Procs : WorksOn(q, m) => runner'[q].attempts = runner[q].attempts
      BY <1>3, <2>1 DEF ClaimOutbox, TakeLease, TypeOK, WorksOn
    <3>2. InHand(m) => InHand(m)'
      BY <3>1 DEF InHand
    <3> QED
      BY <3>1, <3>2, QuietBudget
  <2>2. CASE k = m
    <3> DEFINE s == attempts[m] + 1
    <3>1. /\ faults' = faults /\ sends'[m] = sends[m] + 1 /\ attempts'[m] = s
          /\ runner' = [runner EXCEPT ![p] = [pc |-> "publish", msg |-> m, attempts |-> s]]
          /\ proc[p] = "up" /\ proc' = proc /\ lock'[m] = "held"
          /\ ~delivered[m] /\ ~failed[m] /\ lock[m] # "held"
      BY <1>3, <2>2 DEF ClaimOutbox, TakeLease, TypeOK, Candidate, Claimable, Open
    <3>2. InHand(m)' /\ ~InHand(m)
      BY <3>1 DEF InHand, WorksOn, TypeOK
    <3>3. /\ attempts[m] \in Nat /\ s \in Nat /\ sends[m] \in Nat /\ RetryLimit \in Nat
          /\ Cardinality(Tickets(m)) \in Nat
      BY RetryLimitAssumption, TicketsFinite DEF TypeOK
    <3>4. /\ Cardinality(Tickets(m)') \in Nat
          /\ Cardinality(Tickets(m)') <= Cardinality(Tickets(m)) + Cardinality(Slice(p, s))
      BY <3>1, <3>3, TicketsIssued
    <3>5. Cardinality(Slice(p, s)) \in Nat /\ Cardinality(Slice(p, s)) + 1 = Credit(m)
      BY <3>3, SliceCardinality DEF Credit
    <3>6. /\ RetryLimit * (faults + 1) \in Nat
          /\ RetryLimit * (faults' + 1) = RetryLimit * (faults + 1)
      BY <3>1, <3>3, MaxFaultsAssumption DEF TypeOK
    <3> HIDE DEF s
    <3> QED
      BY <3>1, <3>2, <3>3, <3>4, <3>5, <3>6 DEF WithinBudget, Committed
  <2> QED
    BY <2>1, <2>2
<1>4. ASSUME NEW p \in Procs, NEW k \in Msgs, ClaimOutboxLost(p, k) PROVE WithinBudget(m)'
  BY <1>4, FaultBudget DEF ClaimOutboxLost, Fault, Disturb, WorksOn
<1>5. ASSUME NEW p \in Procs, Receive(p) \/ PublishOk(p) \/ PublishErr(p)
      PROVE  WithinBudget(m)'
  <2>1. /\ UNCHANGED <<attempts, sends, faults, proc, delivered, failed, lock>>
        /\ \A q \in Procs : WorksOn(q, m) <=> WorksOn(q, m)'
        /\ \A q \in Procs : runner'[q].attempts = runner[q].attempts
    <3>1. CASE Receive(p)
      BY <3>1 DEF Receive, table, TypeOK, WorksOn
    <3>2. CASE PublishOk(p)
      BY <3>2 DEF PublishOk, table, TypeOK, WorksOn
    <3>3. CASE PublishErr(p)
      BY <3>3 DEF PublishErr, table, TypeOK, WorksOn
    <3> QED
      BY <1>5, <3>1, <3>2, <3>3
  <2>2. InHand(m) => InHand(m)'
    BY <2>1 DEF InHand
  <2> QED
    BY <2>1, <2>2, QuietBudget
<1>6. ASSUME NEW p \in Procs, MarkOutbox(p) \/ MarkOutboxFailed(p) PROVE WithinBudget(m)'
  <2>1. /\ UNCHANGED <<attempts, sends, faults, proc>>
        /\ runner' = [runner EXCEPT ![p] = Idle]
        /\ runner[p].msg \in present /\ runner[p].pc # "idle"
    BY <1>6 DEF MarkOutbox, MarkOutboxFailed, Settled, RowsKnown
  <2>2. \A q \in Procs : WorksOn(q, m)' =>
           WorksOn(q, m) /\ runner'[q].attempts = runner[q].attempts
    BY <2>1 DEF WorksOn, Idle, TypeOK
  <2>3. runner[p].msg # m => /\ delivered'[m] = delivered[m] /\ failed'[m] = failed[m]
                             /\ InHand(m) => InHand(m)'
    <3>1. ASSUME runner[p].msg # m
          PROVE  /\ delivered'[m] = delivered[m] /\ failed'[m] = failed[m]
                 /\ lock'[m] = lock[m]
      BY <1>6, <3>1 DEF MarkOutbox, MarkOutboxFailed, TypeOK
    <3>2. ASSUME runner[p].msg # m, NEW q \in Procs, WorksOn(q, m)
          PROVE  WorksOn(q, m)' /\ runner'[q].attempts = runner[q].attempts
      BY <2>1, <3>2 DEF WorksOn, TypeOK
    <3> QED
      BY <2>1, <3>1, <3>2 DEF InHand
  <2>4. runner[p].msg = m => delivered'[m] \/ failed'[m]
    BY <1>6, <2>1 DEF MarkOutbox, MarkOutboxFailed, Open, TypeOK
  <2> QED
    BY <2>1, <2>2, <2>3, <2>4, QuietBudget
<1>7. ASSUME NEW p \in Procs, RescheduleOutbox(p) PROVE WithinBudget(m)'
  <2>1. /\ UNCHANGED <<sends, faults, proc, delivered, failed>>
        /\ runner' = [runner EXCEPT ![p] = Idle]
        /\ runner[p].msg \in present /\ runner[p].pc # "idle"
        /\ runner[p].attempts \in Nat /\ runner[p].attempts < RetryLimit
    BY <1>7 DEF RescheduleOutbox, Settled, RowsKnown, TypeOK
  <2>2. \A q \in Procs : WorksOn(q, m)' =>
           WorksOn(q, m) /\ runner'[q].attempts = runner[q].attempts
    BY <2>1 DEF WorksOn, Idle, TypeOK
  <2>3. CASE runner[p].msg # m
    <3>1. attempts'[m] = attempts[m] /\ lock'[m] = lock[m]
      BY <1>7, <2>3 DEF RescheduleOutbox, TypeOK
    <3>2. ASSUME NEW q \in Procs, WorksOn(q, m)
          PROVE  WorksOn(q, m)' /\ runner'[q].attempts = runner[q].attempts
      BY <2>1, <2>3, <3>2 DEF WorksOn, TypeOK
    <3>3. InHand(m) => InHand(m)'
      BY <2>1, <3>1, <3>2 DEF InHand
    <3> QED
      BY <2>1, <2>2, <3>1, <3>3, QuietBudget
  <2>4. CASE runner[p].msg = m /\ ~Open(m)
    <3>1. attempts'[m] = attempts[m] /\ (delivered'[m] \/ failed'[m])
      BY <1>7, <2>1, <2>4 DEF RescheduleOutbox, TypeOK, Open
    <3> QED
      BY <2>1, <2>2, <3>1, QuietBudget
  <2>5. CASE runner[p].msg = m /\ Open(m)
    <3> DEFINE s == runner[p].attempts
    <3>1. attempts'[m] = s
      BY <1>7, <2>5 DEF RescheduleOutbox, TypeOK
    <3>2. Cardinality(Tickets(m)') + Cardinality(Slice(p, s)) <= Cardinality(Tickets(m))
      BY <2>1, <2>5, TicketsReturned DEF WorksOn
    <3>3. Cardinality(Slice(p, s)) \in Nat /\ Cardinality(Slice(p, s)) = Credit(m)'
      BY <2>1, <3>1, SliceCardinality, RetryLimitAssumption DEF Credit
    <3>4. /\ Cardinality(Tickets(m)) \in Nat /\ Cardinality(Tickets(m)') \in Nat
          /\ sends[m] \in Nat /\ sends'[m] = sends[m] /\ faults' = faults
      BY <2>1, <2>2, FewerTickets DEF TypeOK
    <3>5. /\ RetryLimit * (faults + 1) \in Nat
          /\ RetryLimit * (faults' + 1) = RetryLimit * (faults + 1)
      BY <3>4, RetryLimitAssumption, MaxFaultsAssumption DEF TypeOK
    <3> HIDE DEF s
    <3> QED
      BY <3>2, <3>3, <3>4, <3>5 DEF WithinBudget, Committed
  <2> QED
    BY <2>3, <2>4, <2>5
<1>8. ASSUME NEW p \in Procs, PersistFails(p) \/ Shutdown(p) \/ Crash(p)
      PROVE  WithinBudget(m)'
  <2>1. /\ faults' = faults + 1 /\ sends' = sends
        /\ runner' \in {runner, [runner EXCEPT ![p] = Idle]}
    BY <1>8 DEF PersistFails, Shutdown, Crash, Fault, Disturb, Halt
  <2>2. \A q \in Procs : WorksOn(q, m)' =>
           WorksOn(q, m) /\ runner'[q].attempts = runner[q].attempts
    BY <2>1 DEF WorksOn, Idle, TypeOK
  <2> QED
    BY <2>1, <2>2, FaultBudget
<1>9. ASSUME NEW p \in Procs, Exit(p) \/ Restart(p) PROVE WithinBudget(m)'
  <2>1. /\ UNCHANGED <<attempts, sends, faults, delivered, failed, lock>>
        /\ \A q \in Procs : proc[q] = "up" => proc'[q] = "up" /\ runner'[q] = runner[q]
        /\ runner' \in {runner, [runner EXCEPT ![p] = Idle]}
    BY <1>9 DEF Exit, Restart, Halt, table, TypeOK
  <2>2. \A q \in Procs : WorksOn(q, m)' =>
           WorksOn(q, m) /\ runner'[q].attempts = runner[q].attempts
    BY <2>1 DEF WorksOn, Idle, TypeOK
  <2>3. InHand(m) => InHand(m)'
    BY <2>1 DEF InHand, WorksOn
  <2> QED
    BY <2>1, <2>2, <2>3, QuietBudget
<1>10. CASE UNCHANGED vars
  <2>1. /\ UNCHANGED <<attempts, sends, faults, proc, delivered, failed, lock, runner>>
        /\ InHand(m) => InHand(m)'
    BY <1>10 DEF vars, table, InHand, WorksOn
  <2> QED
    BY <2>1, QuietBudget DEF WorksOn
<1> QED
  BY <1>1, <1>2, <1>3, <1>4, <1>5, <1>6, <1>7, <1>8, <1>9, <1>10 DEF Next, Persist

\* However many runners outlive their leases and set a message's attempts back,
\* it is handed to Publish at most once per try of the limit, and the limit is
\* granted once more for each fault.
THEOREM SendsBounded ==
  ASSUME IsFiniteSet(Procs)
  PROVE  Spec => []SendsBound
<1>1. Init => SendBudget
  <2> SUFFICES ASSUME Init, NEW m \in Msgs PROVE WithinBudget(m)
    BY DEF SendBudget
  <2>1. Tickets(m) = {}
    BY DEF Init, Tickets, WorksOn, Idle
  <2>2. Committed(m) = 0 /\ Credit(m) = RetryLimit
    BY <2>1, FS_EmptySet, RetryLimitAssumption DEF Init, Committed, Credit
  <2>3. RetryLimit * (faults + 1) = RetryLimit
    BY RetryLimitAssumption DEF Init
  <2> QED
    BY <2>2, <2>3, RetryLimitAssumption DEF WithinBudget
<1>2. IInv /\ TypeOK' /\ SendBudget /\ [Next]_vars => SendBudget'
  BY SendBudgetStep
<1>3. IInv /\ SendBudget => SendsBound
  <2> SUFFICES ASSUME IInv, SendBudget, NEW m \in Msgs
               PROVE  sends[m] <= RetryLimit * (faults + 1)
    BY DEF SendsBound
  <2>1. Committed(m) <= RetryLimit * (faults + 1) /\ Cardinality(Tickets(m)) \in Nat
    BY TicketsFinite DEF SendBudget, WithinBudget
  <2>2. sends[m] \in Nat /\ RetryLimit * (faults + 1) \in Nat
    BY RetryLimitAssumption, MaxFaultsAssumption DEF IInv, TypeOK
  <2> QED
    BY <2>1, <2>2 DEF Committed
<1>4. IInv => TypeOK
  BY DEF IInv
<1> QED
  BY Invariance, <1>1, <1>2, <1>3, <1>4, PTL DEF Spec
=============================================================================
