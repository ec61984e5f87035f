------------------------- MODULE AdapterCalls_proofs -------------------------
(***************************************************************************)
(* AdapterCalls for any number of jobs and slots: the type invariant, and  *)
(* that no job is billed a usage older than its own call.                  *)
(***************************************************************************)
EXTENDS AdapterCalls, TLAPS

\* A job that waits to be billed, or was, has its place among the calls read, and
\* the adapter's usage is that of the newest of them.
UsageIsNewest ==
    /\ \A j \in Orders : endOf[j] <= ends
    /\ \A j \in Orders : job[j] = "returned" => endOf[j] > 0
    /\ \A j \in Orders : endOf[j] > 0 => job[j] \in {"returned", "threw", "done"}
    /\ \A j \in Orders : endOf[j] > 0 => lastUsage # NoUsage
    /\ lastUsage # NoUsage => endOf[lastUsage] = ends

IInv == TypeOK /\ UsageIsNewest /\ BilledUsageIsCurrent

\* The initial state satisfies the invariant.
LEMMA InitInvariant == Init => IInv
BY OrdersAssumption DEF Init, IInv, TypeOK, UsageIsNewest, BilledUsageIsCurrent, Jobs, Places

\* The steps that read no response and bill no job keep it.
LEMMA MoveInvariant ==
    ASSUME IInv, NEW j \in Jobs, NEW place \in Places \ {"returned"},
           Move(j, place), j \in Orders => job[j] \notin {"done"},
           j \in Orders /\ job[j] \in {"returned", "threw"} => place = "done",
           timers' \subseteq Orders, UNCHANGED <<lastUsage, ledger, ends, endOf>>
    PROVE  IInv'
<1> USE OrdersAssumption DEF IInv
<1>1. TypeOK'
  BY DEF TypeOK, Move
<1>2. UsageIsNewest'
  BY DEF UsageIsNewest, TypeOK, Move, Jobs
<1>3. BilledUsageIsCurrent'
  BY DEF BilledUsageIsCurrent
<1> QED
  BY <1>1, <1>2, <1>3

\* Reading a response makes its usage the newest.
LEMMA ReadInvariant ==
    ASSUME IInv, NEW j \in Orders, ReadBody(j)
    PROVE  IInv'
<1> USE OrdersAssumption DEF IInv
<1>1. TypeOK'
  BY DEF TypeOK, ReadBody, Move, Jobs, Places
<1>2. endOf[j] = 0
  BY DEF TypeOK, UsageIsNewest, ReadBody
<1>3. /\ lastUsage' = j /\ ends' = ends + 1 /\ endOf'[j] = ends + 1
      /\ \A k \in Orders \ {j} : endOf'[k] = endOf[k] /\ job'[k] = job[k]
      /\ job'[j] \in {"returned", "threw"} /\ ends \in Nat
      /\ \A k \in Orders : endOf[k] \in Nat
  BY DEF TypeOK, ReadBody, Move, Jobs
<1>4. UsageIsNewest'
  BY <1>3 DEF UsageIsNewest
<1>5. ledger' = ledger /\ ledger \subseteq [job : Orders, call : Orders \cup {NoUsage}]
  BY DEF TypeOK, ReadBody
<1>6. BilledUsageIsCurrent'
  <2> SUFFICES ASSUME NEW entry \in ledger
               PROVE  /\ entry.call # NoUsage
                      /\ 0 < endOf'[entry.job] /\ endOf'[entry.job] <= endOf'[entry.call]
    BY <1>5 DEF BilledUsageIsCurrent
  <2>1. /\ entry.job \in Orders /\ entry.call \in Orders
        /\ 0 < endOf[entry.job] /\ endOf[entry.job] <= endOf[entry.call]
        /\ entry.call # NoUsage
    BY <1>5 DEF BilledUsageIsCurrent
  <2>2. entry.job # j /\ entry.call # j
    BY <2>1, <1>2, <1>3
  <2> QED
    BY <2>1, <2>2, <1>3
<1> QED
  BY <1>1, <1>4, <1>6

\* A job is billed what the adapter remembers, which is no older than its own call.
LEMMA BillInvariant ==
    ASSUME IInv, NEW j \in Orders, Bill(j)
    PROVE  IInv'
<1> USE OrdersAssumption DEF IInv
<1>1. /\ 0 < endOf[j] /\ endOf[j] <= ends
      /\ lastUsage \in Orders /\ lastUsage # NoUsage /\ endOf[lastUsage] = ends
  BY DEF TypeOK, UsageIsNewest, Bill
<1>2. TypeOK'
  BY <1>1 DEF TypeOK, Bill, Move, Jobs, Places
<1>3. UsageIsNewest'
  BY DEF UsageIsNewest, TypeOK, Bill, Move, Jobs
<1>4. BilledUsageIsCurrent'
  BY <1>1 DEF BilledUsageIsCurrent, Bill
<1> QED
  BY <1>2, <1>3, <1>4

\* Every step keeps the invariant.
LEMMA NextInvariant == IInv /\ [Next]_vars => IInv'
<1> SUFFICES ASSUME IInv, [Next]_vars PROVE IInv'
  OBVIOUS
<1> USE OrdersAssumption
<1>1. ASSUME NEW j \in Jobs, Start(j) PROVE IInv'
  <2>1. CASE j \in Orders
    <3>1. Move(j, "started")
      BY <1>1, <2>1 DEF Start
    <3> QED
      BY <1>1, <3>1, MoveInvariant DEF Start, IInv, TypeOK, Places
  <2>2. CASE j \notin Orders
    <3>1. Move(j, "dispatching")
      BY <1>1, <2>2 DEF Start
    <3> QED
      BY <1>1, <2>2, <3>1, MoveInvariant DEF Start, IInv, TypeOK, Places
  <2> QED
    BY <2>1, <2>2
<1>2. ASSUME NEW j \in Sweeps, EndSweep(j) PROVE IInv'
  BY <1>2, MoveInvariant DEF EndSweep, IInv, TypeOK, Places, Jobs
<1>3. ASSUME NEW j \in Orders, Send(j) PROVE IInv'
  BY <1>3, MoveInvariant DEF Send, IInv, TypeOK, Places, Jobs
<1>4. ASSUME NEW j \in Orders, Refuse(j) PROVE IInv'
  BY <1>4, MoveInvariant DEF Refuse, IInv, TypeOK, Places, Jobs
<1>5. ASSUME NEW j \in Orders, HeadersArrive(j) PROVE IInv'
  BY <1>5, MoveInvariant DEF HeadersArrive, IInv, TypeOK, Places, Jobs
<1>6. ASSUME NEW j \in Orders, Abort(j) PROVE IInv'
  BY <1>6, MoveInvariant DEF Abort, IInv, TypeOK, Places, Jobs
<1>7. ASSUME NEW j \in Orders, Reset(j) PROVE IInv'
  BY <1>7, MoveInvariant DEF Reset, IInv, TypeOK, Places, Jobs
<1>8. ASSUME NEW j \in Orders, ReadBody(j) PROVE IInv'
  BY <1>8, ReadInvariant
<1>9. ASSUME NEW j \in Orders, Bill(j) PROVE IInv'
  BY <1>9, BillInvariant
<1>10. ASSUME NEW j \in Orders, GiveUp(j) PROVE IInv'
  BY <1>10, MoveInvariant DEF GiveUp, IInv, TypeOK, Places, Jobs
<1>11. CASE UNCHANGED vars
  BY <1>11 DEF IInv, TypeOK, UsageIsNewest, BilledUsageIsCurrent, vars
<1> QED
  BY <1>1, <1>2, <1>3, <1>4, <1>5, <1>6, <1>7, <1>8, <1>9, <1>10, <1>11 DEF Next

\* The invariant holds throughout.
LEMMA Invariance == Spec => []IInv
BY InitInvariant, NextInvariant, PTL DEF Spec

\* The jobs, the timers, the adapter's memory and the ledger always have their
\* declared shape.
THEOREM TypeCorrect == Spec => []TypeOK
<1>1. IInv => TypeOK
  BY DEF IInv
<1> QED
  BY <1>1, Invariance, PTL

\* However the calls of a shared adapter overlap, no job is billed the usage of a
\* call that ended before its own.
THEOREM UsageNeverStale == Spec => []BilledUsageIsCurrent
<1>1. IInv => BilledUsageIsCurrent
  BY DEF IInv
<1> QED
  BY <1>1, Invariance, PTL
=============================================================================
