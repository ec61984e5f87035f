-------------------------- MODULE DurableTask_proofs --------------------------
(***************************************************************************)
(* Proofs about the abstract task: its type invariant, and that a row and  *)
(* its events never disagree.                                              *)
(***************************************************************************)
EXTENDS DurableTask, TLAPS

\* Every target status has a closing event, and is a status of a row.
LEMMA TargetsHaveClosingEvents ==
    ASSUME NEW target \in TargetStatuses
    PROVE  /\ target \in TaskStatuses
           /\ target \notin {"absent", "pending"}
           /\ ClosingEvent(target) \in EventTypes
BY DEF TargetStatuses, TaskStatuses, ClosingEvent, EventTypes

\* The rows and events of every task keep their types.
THEOREM TypeCorrect == Spec => []TypeOK
<1>1. Init => TypeOK
  BY DEF Init, TypeOK, Rows, NoRow
<1>2. TypeOK /\ [Next]_vars => TypeOK'
  <2> SUFFICES ASSUME TypeOK, [Next]_vars
               PROVE  TypeOK'
    OBVIOUS
  <2> USE DEF TypeOK, Rows
  <2>1. ASSUME NEW t \in Tasks, Create(t)
        PROVE  TypeOK'
    BY <2>1 DEF Create, EventTypes, TaskStatuses
  <2>2. ASSUME NEW t \in Tasks, Retry(t)
        PROVE  TypeOK'
    <3>1. row' \in [Tasks -> Rows]
      <4>1. [row[t] EXCEPT !.retryCount = row[t].retryCount + 1] \in Rows
        <5>1. row[t] \in Rows
          OBVIOUS
        <5>2. row[t].retryCount + 1 \in Nat
          BY <5>1
        <5>3. QED
          BY <5>1, <5>2
      <4>2. QED
        BY <2>2, <4>1 DEF Retry
    <3>2. log' \in [Tasks -> Seq(EventTypes)]
      <4>1. "task.failed" \in EventTypes /\ "task.retried" \in EventTypes
        BY DEF EventTypes
      <4>2. Append(Append(log[t], "task.failed"), "task.retried") \in Seq(EventTypes)
        BY <4>1
      <4>3. QED
        BY <2>2, <4>2 DEF Retry
    <3>3. QED
      BY <3>1, <3>2
  <2>3. ASSUME NEW t \in Tasks, NEW target \in TargetStatuses, Settle(t, target)
        PROVE  TypeOK'
    BY <2>3, TargetsHaveClosingEvents DEF Settle
  <2>4. CASE UNCHANGED vars
    BY <2>4 DEF vars
  <2>5. QED
    BY <2>1, <2>2, <2>3, <2>4 DEF Next
<1>3. QED
  BY <1>1, <1>2, PTL DEF Spec

\* No attempt is counted beyond the budget, and only a spent budget fails a task.
THEOREM BudgetRespected ==
    ASSUME MaxRetries \in Nat
    PROVE  Spec => []RetryBudget
<1>1. Init => RetryBudget
  BY DEF Init, RetryBudget, NoRow
<1>2. TypeOK /\ RetryBudget /\ [Next]_vars => RetryBudget'
  <2> SUFFICES ASSUME TypeOK, RetryBudget, [Next]_vars
               PROVE  RetryBudget'
    OBVIOUS
  <2> USE DEF TypeOK, Rows, RetryBudget
  <2>1. ASSUME NEW t \in Tasks, Create(t)
        PROVE  RetryBudget'
    BY <2>1 DEF Create
  <2>2. ASSUME NEW t \in Tasks, Retry(t)
        PROVE  RetryBudget'
    BY <2>2 DEF Retry
  <2>3. ASSUME NEW t \in Tasks, NEW target \in TargetStatuses, Settle(t, target)
        PROVE  RetryBudget'
    BY <2>3 DEF Settle
  <2>4. CASE UNCHANGED vars
    BY <2>4 DEF vars
  <2>5. QED
    BY <2>1, <2>2, <2>3, <2>4 DEF Next
<1>3. QED
  BY <1>1, <1>2, TypeCorrect, PTL DEF Spec

\* The events of a task are exactly those its row accounts for.
THEOREM TraceMatches == Spec => []RowMatchesTrace
<1>1. Init => RowMatchesTrace
  BY DEF Init, RowMatchesTrace, NoRow
<1>2. TypeOK /\ RowMatchesTrace /\ [Next]_vars => RowMatchesTrace'
  <2> SUFFICES ASSUME TypeOK, RowMatchesTrace, [Next]_vars
               PROVE  RowMatchesTrace'
    OBVIOUS
  <2> USE DEF RowMatchesTrace
  <2>0. ASSUME NEW t \in Tasks, row'[t] = row[t], log'[t] = log[t]
        PROVE  IF row'[t].status = "absent" THEN log'[t] = <<>> ELSE TraceOf(t)'
    BY <2>0 DEF TraceOf
  <2>1. ASSUME NEW t \in Tasks, Create(t)
        PROVE  RowMatchesTrace'
    <3>1. TraceOf(t)'
      BY <2>1 DEF Create, TraceOf, TypeOK
    <3>2. QED
      BY <2>0, <2>1, <3>1 DEF Create, TypeOK
  <2>2. ASSUME NEW t \in Tasks, Retry(t)
        PROVE  RowMatchesTrace'
    <3> DEFINE k == row[t].retryCount
               events == log[t]
    <3>1. /\ k \in Nat
          /\ events \in Seq(EventTypes)
          /\ row'[t] = [row[t] EXCEPT !.retryCount = k + 1]
          /\ row'[t].status = "pending"
          /\ row'[t].retryCount = k + 1
          /\ log'[t] = Append(Append(events, "task.failed"), "task.retried")
      BY <2>2 DEF Retry, TypeOK, Rows
    <3>2. /\ Len(events) = 1 + 2 * k
          /\ events[1] = "task.created"
          /\ \A i \in 1..k : events[2 * i] = "task.failed" /\ events[2 * i + 1] = "task.retried"
      BY <2>2, <3>1 DEF Retry, TraceOf
    <3> HIDE DEF k, events
    <3>3. /\ Len(log'[t]) = 1 + 2 * (k + 1)
          /\ log'[t][1] = "task.created"
          /\ log'[t][2 * (k + 1)] = "task.failed"
          /\ log'[t][2 * (k + 1) + 1] = "task.retried"
          /\ \A i \in 1..k : log'[t][2 * i] = events[2 * i] /\ log'[t][2 * i + 1] = events[2 * i + 1]
      <4>1. "task.failed" \in EventTypes /\ "task.retried" \in EventTypes
        BY DEF EventTypes
      <4>2. QED
        BY <3>1, <3>2, <4>1
    <3>4. TraceOf(t)'
      <4>1. \A i \in 1..(k + 1) : i \in 1..k \/ i = k + 1
        BY <3>1
      <4>2. QED
        BY <3>1, <3>2, <3>3, <4>1 DEF TraceOf
    <3>5. QED
      BY <2>0, <2>2, <3>1, <3>4 DEF Retry, TypeOK
  <2>3. ASSUME NEW t \in Tasks, NEW target \in TargetStatuses, Settle(t, target)
        PROVE  RowMatchesTrace'
    <3> DEFINE k == row[t].retryCount
               events == log[t]
               last == ClosingEvent(target)
    <3>1. /\ k \in Nat
          /\ events \in Seq(EventTypes)
          /\ last \in EventTypes
          /\ row'[t].status = target
          /\ row'[t].retryCount = k
          /\ target \notin {"absent", "pending"}
          /\ log'[t] = Append(events, last)
      BY <2>3, TargetsHaveClosingEvents DEF Settle, TypeOK, Rows
    <3>2. /\ Len(events) = 1 + 2 * k
          /\ events[1] = "task.created"
          /\ \A i \in 1..k : events[2 * i] = "task.failed" /\ events[2 * i + 1] = "task.retried"
      BY <2>3, <3>1 DEF Settle, TraceOf
    <3>2a. ClosingEvent(row'[t].status) = last
      BY <3>1
    <3> HIDE DEF k, events, last
    <3>3. /\ Len(log'[t]) = 2 + 2 * k
          /\ log'[t][1] = "task.created"
          /\ log'[t][2 + 2 * k] = last
          /\ \A i \in 1..k : log'[t][2 * i] = events[2 * i] /\ log'[t][2 * i + 1] = events[2 * i + 1]
      <4>1. /\ Len(log'[t]) = Len(events) + 1
            /\ log'[t][Len(events) + 1] = last
            /\ \A j \in 1..Len(events) : log'[t][j] = events[j]
        BY <3>1
      <4>2. 1 \in 1..Len(events) /\ \A i \in 1..k : {2 * i, 2 * i + 1} \subseteq 1..Len(events)
        BY <3>1, <3>2
      <4>3. Len(log'[t]) = 2 + 2 * k /\ log'[t][2 + 2 * k] = last
        BY <3>1, <3>2, <4>1
      <4>4. QED
        BY <3>2, <4>1, <4>2, <4>3
    <3>4. TraceOf(t)'
      BY <3>1, <3>2, <3>2a, <3>3 DEF TraceOf
    <3>5. QED
      BY <2>0, <2>3, <3>1, <3>4 DEF Settle, TypeOK
  <2>4. CASE UNCHANGED vars
    BY <2>0, <2>4 DEF vars
  <2>5. QED
    BY <2>1, <2>2, <2>3, <2>4 DEF Next
<1>3. QED
  BY <1>1, <1>2, TypeCorrect, PTL DEF Spec

\* A step of the abstract task never changes a row that left pending.
THEOREM SettledStays == Spec => SettledIsFinal
<1>1. TypeOK /\ [Next]_vars =>
        [\A t \in Tasks :
            row[t].status \notin {"absent", "pending"} =>
                row'[t] = row[t] /\ log'[t] = log[t]]_vars
  BY DEF TypeOK, Next, Create, Retry, Settle, NoRow, vars
<1>2. QED
  BY <1>1, TypeCorrect, PTL DEF Spec, SettledIsFinal
=============================================================================
