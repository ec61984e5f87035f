-------------------------- MODULE Constitution_proofs --------------------------
(***************************************************************************)
(* Proofs about the Business Constitution, for any number of sessions,     *)
(* versions and approvals.                                                 *)
(***************************************************************************)
EXTENDS Constitution, WellFoundedInduction, TLAPS

-----------------------------------------------------------------------------
(***************************************************************************)
(* A set of versions has a greatest element: the CHOOSEs of NextVersion    *)
(* and Active choose one.                                                  *)
(***************************************************************************)
LEMMA GreatestVersion ==
    ASSUME NEW S, S \subseteq Versions, S # {}
    PROVE  \E v \in S : \A w \in S : w <= v
<1> DEFINE R == OpToRel(<, Nat)
           T == {MaxVersion - v : v \in S}
<1>1. T \subseteq Nat /\ T # {}
  <2>1. \A v \in S : MaxVersion - v \in Nat
    BY BoundsAssumption DEF Versions
  <2>2. QED
    BY <2>1
<1>2. \E x \in T : \A y \in T : <<y, x>> \notin R
  <2> HIDE DEF T, R
  <2>1. IsWellFoundedOn(R, Nat)
    BY NatLessThanWellFounded DEF R
  <2>2. QED
    BY <1>1, <2>1, WFMin
<1>3. \A x, y \in Nat : <<y, x>> \notin R => x <= y
  BY DEF OpToRel
<1>4. PICK x \in T : \A y \in T : x <= y
  BY <1>1, <1>2, <1>3
<1>5. PICK v \in S : x = MaxVersion - v
  BY <1>4
<1>6. \A w \in S : MaxVersion - v <= MaxVersion - w
  BY <1>4, <1>5
<1>7. QED
  BY <1>5, <1>6, BoundsAssumption DEF Versions

LEMMA ActiveIsApproved ==
    ASSUME Approved # {}
    PROVE  Active \in Approved
<1>1. \E v \in Approved : \A w \in Approved : w <= v
  BY GreatestVersion DEF Approved
<1>2. QED
  BY <1>1 DEF Active

LEMMA NextVersionIsPositive == NextVersion \in Nat \ {0}
<1>1. CASE Existing = {}
  BY <1>1 DEF NextVersion
<1>2. CASE Existing # {}
  <2> DEFINE last == CHOOSE v \in Existing : \A w \in Existing : w <= v
  <2>1. \E v \in Existing : \A w \in Existing : w <= v
    BY <1>2, GreatestVersion DEF Existing
  <2>2. last \in Existing
    BY <2>1
  <2>3. \A v \in Existing : v \in Nat
    BY BoundsAssumption DEF Existing, Versions
  <2>4. NextVersion = 1 + last
    BY <1>2 DEF NextVersion
  <2> HIDE DEF last
  <2>5. QED
    BY <2>2, <2>3, <2>4
<1>3. QED
  BY <1>1, <1>2

\* What is below the next version exists, if there was no gap.
LEMMA NextVersionIsNext ==
    ASSUME NoGaps
    PROVE  1..(NextVersion - 1) \subseteq Existing
<1>1. CASE Existing = {}
  BY <1>1 DEF NextVersion
<1>2. CASE Existing # {}
  <2> DEFINE last == CHOOSE v \in Existing : \A w \in Existing : w <= v
  <2>1. \E v \in Existing : \A w \in Existing : w <= v
    BY <1>2, GreatestVersion DEF Existing
  <2>2. last \in Existing
    BY <2>1
  <2>3. \A v \in Existing : v \in Nat
    BY BoundsAssumption DEF Existing, Versions
  <2>4. NextVersion = 1 + last
    BY <1>2 DEF NextVersion
  <2> HIDE DEF last
  <2>5. NextVersion - 1 = last
    BY <2>2, <2>3, <2>4
  <2>6. QED
    BY <2>2, <2>5 DEF NoGaps
<1>3. QED
  BY <1>1, <1>2

-----------------------------------------------------------------------------
(***************************************************************************)
(* What writing a row, and ending a transaction, do to the rows.           *)
(***************************************************************************)
LEMMA WriteRow ==
    ASSUME rows \in [Versions -> Row], NEW s \in Sessions, NEW v \in Versions,
           NEW status \in Statuses, Write(s, v, status)
    PROVE  /\ rows' \in [Versions -> Row]
           /\ rows'[v].status = rows[v].status
           /\ rows'[v].holder = s
           /\ rows'[v].written = status
           /\ \A w \in Versions \ {v} : rows'[w] = rows[w]
<1>1. rows[v].status \in Statuses /\ rows[v] \in Row
  BY DEF Row
<1>2. [status |-> rows[v].status, holder |-> s, written |-> status] \in Row
  BY <1>1 DEF Row
<1>3. rows' = [rows EXCEPT ![v] = [status |-> rows[v].status, holder |-> s, written |-> status]]
  BY DEF Write
<1>4. QED
  BY <1>2, <1>3

LEMMA FreeIsRow ==
    ASSUME NEW status \in Statuses
    PROVE  Free(status) \in Row /\ Free(status).status = status /\ Free(status).holder = NoSession
BY DEF Free, Row, Statuses

\* The stages in which a session holds rows.
Holders == {"superseding", "commit"}

LEMMA StageTypes ==
    /\ {"idle", "insert", "supersede", "superseding", "commit"} = Stages
    /\ {"none", "proposed", "approved", "superseded"} = Statuses
    /\ NoTransaction \in Transaction
    /\ NoTransaction.stage = "idle"
BY DEF Stages, Statuses, NoTransaction, Transaction

-----------------------------------------------------------------------------
(***************************************************************************)
(* The type invariant.                                                     *)
(***************************************************************************)
THEOREM TypeCorrect == Spec => []TypeOK
<1>1. Init => TypeOK
  BY SessionsAssumption DEF Init, TypeOK, Free, NoTransaction, Statuses, Stages, Row, Transaction
<1>2. TypeOK /\ [Next]_vars => TypeOK'
  <2> SUFFICES ASSUME TypeOK, [Next]_vars PROVE TypeOK'
    OBVIOUS
  <2> USE SessionsAssumption, StageTypes
  <2>0. /\ rows \in [Versions -> Row]
        /\ tx \in [Sessions -> Transaction]
        /\ approvals \in Seq([version : Versions, saw : Nat])
        /\ \A v \in Versions : rows[v].status \in Statuses /\ rows[v].written \in Statuses
        /\ \A v \in Versions : rows[v].holder \in Sessions \cup {NoSession}
        /\ \A s \in Sessions : tx[s].stage # "idle" => tx[s].version \in Versions
        /\ \A v \in Versions : rows[v].holder # NoSession => tx[rows[v].holder].stage \in Holders
    BY DEF TypeOK, Row, Holders
  <2>1. ASSUME NEW s \in Sessions, ProposeReads(s) PROVE TypeOK'
    <3>1. NextVersion \in Versions
      BY <2>1, NextVersionIsPositive, BoundsAssumption DEF ProposeReads, Versions
    <3>2. /\ tx' \in [Sessions -> Transaction]
          /\ tx'[s].version = NextVersion /\ \A t \in Sessions \ {s} : tx'[t] = tx[t]
          /\ tx[s].stage = "idle" /\ UNCHANGED <<rows, approvals>>
      BY <2>0, <2>1, <3>1 DEF ProposeReads, Transaction
    <3>3. QED
      BY <2>0, <3>1, <3>2 DEF TypeOK, Holders
  <2>2. ASSUME NEW s \in Sessions, InsertProposal(s) PROVE TypeOK'
    <3>1. tx' \in [Sessions -> Transaction] /\ \A t \in Sessions : tx'[t].version = tx[t].version
      BY <2>0, <2>2 DEF InsertProposal, Transaction
    <3>2. tx'[s].stage = "commit" /\ \A t \in Sessions \ {s} : tx'[t] = tx[t]
      BY <2>0, <2>2 DEF InsertProposal, Transaction
    <3>3. tx[s].version \in Versions /\ Write(s, tx[s].version, "proposed") /\ approvals' = approvals
      BY <2>0, <2>2 DEF InsertProposal
    <3>4. tx[s].stage = "insert"
      BY <2>2 DEF InsertProposal
    <3>5. QED
      BY <2>0, <3>1, <3>2, <3>3, <3>4, WriteRow DEF TypeOK, Holders
  <2>3. ASSUME NEW s \in Sessions, DuplicateVersion(s) PROVE TypeOK'
    BY <2>3 DEF DuplicateVersion, TypeOK
  <2>4. ASSUME NEW s \in Sessions, NEW v \in Versions, ApproveReads(s, v) PROVE TypeOK'
    <3>1. /\ tx' \in [Sessions -> Transaction]
          /\ tx'[s].version = v /\ \A t \in Sessions \ {s} : tx'[t] = tx[t]
          /\ tx[s].stage = "idle" /\ UNCHANGED <<rows, approvals>>
      BY <2>0, <2>4 DEF ApproveReads, Transaction
    <3>2. QED
      BY <2>0, <3>1 DEF TypeOK, Holders
  <2>5. ASSUME NEW s \in Sessions, StartSupersede(s) PROVE TypeOK'
    <3>1. Approved \subseteq Versions /\ Len(approvals) \in Nat
      BY <2>0 DEF Approved
    <3>2. /\ tx' \in [Sessions -> Transaction]
          /\ tx'[s].version = tx[s].version /\ \A t \in Sessions \ {s} : tx'[t] = tx[t]
          /\ tx[s].stage = "supersede" /\ UNCHANGED <<rows, approvals>>
      <4> HIDE DEF Approved
      <4>1. QED
        BY <2>0, <2>5, <3>1 DEF StartSupersede, Transaction
    <3>3. QED
      BY <2>0, <3>2 DEF TypeOK, Holders
  <2>6. ASSUME NEW s \in Sessions, NEW v \in Versions, SupersedeRow(s, v) PROVE TypeOK'
    <3>1. tx' \in [Sessions -> Transaction]
      BY <2>0, <2>6 DEF SupersedeRow, Transaction
    <3>2. \A t \in Sessions : tx'[t].stage = tx[t].stage /\ tx'[t].version = tx[t].version
      BY <2>0, <2>6 DEF SupersedeRow, Transaction
    <3>3. PICK status \in Statuses : Write(s, v, status)
      BY <2>0, <2>6 DEF SupersedeRow
    <3>4. tx[s].stage = "superseding" /\ approvals' = approvals
      BY <2>6 DEF SupersedeRow
    <3>5. /\ rows' \in [Versions -> Row]
          /\ rows'[v].holder = s
          /\ \A w \in Versions \ {v} : rows'[w] = rows[w]
      BY <2>0, <3>3, WriteRow
    <3>6. \A w \in Versions : rows'[w].holder # NoSession => tx'[rows'[w].holder].stage \in Holders
      <4> SUFFICES ASSUME NEW w \in Versions, rows'[w].holder # NoSession
                   PROVE  tx'[rows'[w].holder].stage \in Holders
        OBVIOUS
      <4>1. CASE w = v
        BY <3>2, <3>4, <3>5, <4>1 DEF Holders
      <4>2. CASE w # v
        BY <2>0, <3>2, <3>5, <4>2
      <4>3. QED
        BY <4>1, <4>2
    <3>7. \A t \in Sessions : tx'[t].stage # "idle" => tx'[t].version \in Versions
      BY <2>0, <3>2
    <3>8. QED
      BY <2>0, <3>1, <3>4, <3>5, <3>6, <3>7 DEF TypeOK, Holders
  <2>7. ASSUME NEW s \in Sessions, SetApproved(s) PROVE TypeOK'
    <3>1. tx' \in [Sessions -> Transaction] /\ \A t \in Sessions : tx'[t].version = tx[t].version
      BY <2>0, <2>7 DEF SetApproved, Transaction
    <3>2. tx'[s].stage = "commit" /\ \A t \in Sessions \ {s} : tx'[t] = tx[t]
      BY <2>0, <2>7 DEF SetApproved, Transaction
    <3>3. tx[s].version \in Versions /\ Write(s, tx[s].version, "approved") /\ approvals' = approvals
      BY <2>0, <2>7 DEF SetApproved
    <3>4. tx[s].stage = "superseding"
      BY <2>7 DEF SetApproved
    <3>5. QED
      BY <2>0, <3>1, <3>2, <3>3, <3>4, WriteRow DEF TypeOK, Holders
  <2>8. ASSUME NEW s \in Sessions, Commit(s) \/ RollBack(s) PROVE TypeOK'
    <3>1. tx' = [tx EXCEPT ![s] = NoTransaction] /\ tx[s].stage # "idle"
      BY <2>8 DEF Commit, RollBack
    <3>2. tx' \in [Sessions -> Transaction] /\ \A t \in Sessions \ {s} : tx'[t] = tx[t]
      BY <2>0, <3>1
    <3>3. PICK f \in [Versions -> Statuses] :
             rows' = [v \in Versions |-> IF rows[v].holder = s THEN Free(f[v]) ELSE rows[v]]
      <4>1. CASE Commit(s)
        <5> DEFINE f == [v \in Versions |-> rows[v].written]
        <5>1. f \in [Versions -> Statuses]
          BY <2>0
        <5>2. rows' = [v \in Versions |-> IF rows[v].holder = s THEN Free(f[v]) ELSE rows[v]]
          BY <4>1 DEF Commit
        <5>3. QED
          BY <5>1, <5>2
      <4>2. CASE RollBack(s)
        <5> DEFINE f == [v \in Versions |-> rows[v].status]
        <5>1. f \in [Versions -> Statuses]
          BY <2>0
        <5>2. rows' = [v \in Versions |-> IF rows[v].holder = s THEN Free(f[v]) ELSE rows[v]]
          BY <4>2 DEF RollBack
        <5>3. QED
          BY <5>1, <5>2
      <4>3. QED
        BY <2>8, <4>1, <4>2
    <3>4. rows' \in [Versions -> Row]
      BY <2>0, <3>3, FreeIsRow
    <3>5. \A v \in Versions : rows'[v].holder # NoSession =>
             rows'[v].holder = rows[v].holder /\ rows[v].holder # s
      BY <2>0, <3>3, FreeIsRow
    <3>6. approvals' \in Seq([version : Versions, saw : Nat])
      <4> DEFINE approval == [version |-> tx[s].version, saw |-> tx[s].saw]
                 S == [version : Versions, saw : Nat]
      <4>1. approval \in S /\ approvals \in Seq(S)
        BY <2>0, <3>1 DEF Transaction
      <4>2. approvals' \in {approvals, Append(approvals, approval)}
        BY <2>8 DEF Commit, RollBack
      <4> HIDE DEF approval, S
      <4>3. approvals' \in Seq(S)
        BY <4>1, <4>2
      <4>4. QED
        BY <4>3 DEF S
    <3>7. \A t \in Sessions : tx'[t].stage # "idle" => tx'[t].version \in Versions
      BY <2>0, <3>1, <3>2
    <3>8. QED
      BY <2>0, <3>2, <3>4, <3>5, <3>6, <3>7 DEF TypeOK, Holders
  <2>9. CASE UNCHANGED vars
    BY <2>9 DEF vars, TypeOK
  <2>10. QED
    BY <2>1, <2>2, <2>3, <2>4, <2>5, <2>6, <2>7, <2>8, <2>9 DEF Next
<1>3. QED
  BY <1>1, <1>2, PTL DEF Spec
-----------------------------------------------------------------------------
(***************************************************************************)
(* The inductive invariant, beside TypeOK and NoGaps: what the rows a      *)
(* session holds may become, ...                                           *)
(***************************************************************************)
HeldRows ==
    \A v \in Versions :
        LET s == rows[v].holder IN
        s # NoSession =>
            \/ /\ rows[v].status # "none" /\ rows[v].written \in {"proposed", "superseded"}
               /\ tx[s].version \in Existing
            \/ v = tx[s].version /\ tx[s].stage = "commit"

\* ... what a transaction that is about to commit wrote, ...
Written ==
    \A s \in Sessions :
        tx[s].stage = "commit" =>
            LET v == tx[s].version IN
            /\ rows[v].holder = s
            /\ rows[v].written = IF v \in Existing THEN "approved" ELSE "proposed"

\* ... that the versions below a proposal's exist, and an approve's candidate and
\* what it is to supersede, ...
Numbers ==
    \A s \in Sessions :
        /\ tx[s].todo \subseteq Existing
        /\ tx[s].stage # "superseding" => tx[s].todo = {}
        /\ tx[s].stage \in {"insert", "commit"} => 1..(tx[s].version - 1) \subseteq Existing
        /\ tx[s].stage \in {"supersede", "superseding"} => tx[s].version \in Existing

\* ... and that an approve has superseded what it saw, or is still to.
Supersedes(s) == tx[s].stage = "superseding" \/ (tx[s].stage = "commit" /\ tx[s].version \in Existing)

IsNoticed(s, v) ==
    \/ v \in tx[s].todo \/ v = tx[s].version
    \/ rows[v].holder = s /\ rows[v].written = "superseded"

Noticed ==
    \A s \in Sessions :
        Supersedes(s) =>
            /\ tx[s].saw <= Len(approvals)
            /\ \A i \in 1..tx[s].saw : InForce(i) => IsNoticed(s, approvals[i].version)

Step(s) ==
    \/ ProposeReads(s) \/ InsertProposal(s) \/ DuplicateVersion(s)
    \/ \E v \in Versions : ApproveReads(s, v) \/ SupersedeRow(s, v)
    \/ StartSupersede(s) \/ SetApproved(s) \/ Commit(s) \/ RollBack(s)

-----------------------------------------------------------------------------
(***************************************************************************)
(* What each kind of step does to the rows and to the transaction of its   *)
(* session.                                                                *)
(***************************************************************************)
LEMMA Types ==
    ASSUME TypeOK
    PROVE  /\ rows \in [Versions -> Row]
           /\ tx \in [Sessions -> Transaction]
           /\ \A v \in Versions : rows[v].status \in Statuses /\ rows[v].written \in Statuses
           /\ \A v \in Versions : rows[v].holder \in Sessions \cup {NoSession}
           /\ \A s \in Sessions : tx[s].stage # "idle" => tx[s].version \in Versions
           /\ \A v \in Versions : rows[v].holder # NoSession => tx[rows[v].holder].stage \in Holders
BY DEF TypeOK, Row, Holders

LEMMA Frame ==
    ASSUME TypeOK, NEW s \in Sessions, Step(s)
    PROVE  /\ \A t \in Sessions \ {s} : tx'[t] = tx[t]
           /\ \A v \in Versions : rows[v].holder \notin {NoSession, s} => rows'[v] = rows[v]
           /\ \A v \in Versions : rows'[v].holder \in {NoSession, s} \/ rows'[v] = rows[v]
<1>1. \A t \in Sessions \ {s} : tx'[t] = tx[t]
  BY Types DEF Step, ProposeReads, InsertProposal, DuplicateVersion, ApproveReads, SupersedeRow,
               StartSupersede, SetApproved, Commit, RollBack
<1>2. ASSUME NEW v \in Versions, NEW status, IsFree(s, v), Write(s, v, status)
      PROVE  \A w \in Versions :
                /\ rows[w].holder \notin {NoSession, s} => rows'[w] = rows[w]
                /\ rows'[w].holder \in {NoSession, s} \/ rows'[w] = rows[w]
  BY <1>2, Types DEF IsFree, Write
<1>3. \A w \in Versions :
         /\ rows[w].holder \notin {NoSession, s} => rows'[w] = rows[w]
         /\ rows'[w].holder \in {NoSession, s} \/ rows'[w] = rows[w]
  <2>1. CASE rows' = rows
    BY <2>1
  <2>2. CASE InsertProposal(s) \/ SetApproved(s)
    BY <1>2, <2>2, Types DEF InsertProposal, SetApproved
  <2>3. CASE \E v \in Versions : SupersedeRow(s, v)
    BY <1>2, <2>3 DEF SupersedeRow
  <2>4. CASE Commit(s) \/ RollBack(s)
    BY <2>4 DEF Commit, RollBack, Free
  <2>5. QED
    BY <2>1, <2>2, <2>3, <2>4 DEF Step, ProposeReads, DuplicateVersion, ApproveReads, StartSupersede
<1>4. QED
  BY <1>1, <1>3

\* Only a commit changes a committed status: to what was written.
LEMMA StatusChanges ==
    ASSUME TypeOK, NEW s \in Sessions, Step(s), NEW v \in Versions
    PROVE  \/ rows'[v].status = rows[v].status
           \/ Commit(s) /\ rows[v].holder = s /\ rows'[v].status = rows[v].written
<1>1. CASE rows' = rows
  BY <1>1
<1>2. ASSUME NEW w \in Versions, NEW status, Write(s, w, status)
      PROVE  rows'[v].status = rows[v].status
  BY <1>2, Types DEF Write
<1>3. CASE InsertProposal(s) \/ SetApproved(s)
  BY <1>2, <1>3, Types DEF InsertProposal, SetApproved
<1>4. CASE \E w \in Versions : SupersedeRow(s, w)
  BY <1>2, <1>4 DEF SupersedeRow
<1>5. CASE Commit(s)
  BY <1>5 DEF Commit, Free
<1>6. CASE RollBack(s)
  BY <1>6 DEF RollBack, Free
<1>7. QED
  BY <1>1, <1>3, <1>4, <1>5, <1>6 DEF Step, ProposeReads, DuplicateVersion, ApproveReads, StartSupersede

\* A version that exists never ceases to exist.
LEMMA ExistingStays ==
    ASSUME TypeOK, HeldRows, Written, NEW s \in Sessions, Step(s)
    PROVE  Existing \subseteq Existing'
<1> SUFFICES ASSUME NEW v \in Versions, rows[v].status # "none"
             PROVE  rows'[v].status # "none"
  BY DEF Existing
<1>1. rows[v].holder = s => rows[v].written # "none"
  BY SessionsAssumption DEF HeldRows, Written, Existing
<1>2. QED
  BY <1>1, StatusChanges

-----------------------------------------------------------------------------
(***************************************************************************)
(* The first part of the inductive invariant is inductive.                 *)
(***************************************************************************)
Consistent == TypeOK /\ NoGaps /\ HeldRows /\ Written /\ Numbers

LEMMA InitConsistent == Init => Consistent
BY SessionsAssumption
   DEF Init, Consistent, TypeOK, NoGaps, HeldRows, Written, Numbers, Existing, Free,
       NoTransaction, Row, Transaction, Statuses, Stages

\* What a session that begins, or ends, a transaction holds.
LEMMA HoldsNothing ==
    ASSUME TypeOK, NEW s \in Sessions, tx[s].stage \notin Holders, NEW v \in Versions
    PROVE  rows[v].holder # s
BY SessionsAssumption, Types

LEMMA HeldRowsStep ==
    ASSUME Consistent, TypeOK', NEW s \in Sessions, Step(s)
    PROVE  HeldRows'
<1> USE SessionsAssumption
<1>0. TypeOK /\ HeldRows /\ Existing \subseteq Existing'
  BY ExistingStays DEF Consistent
<1> SUFFICES ASSUME NEW v \in Versions, rows'[v].holder # NoSession
             PROVE  LET t == rows'[v].holder IN
                    \/ /\ rows'[v].status # "none"
                       /\ rows'[v].written \in {"proposed", "superseded"}
                       /\ tx'[t].version \in Existing
                    \/ v = tx'[t].version /\ tx'[t].stage = "commit"
  BY <1>0 DEF HeldRows
<1>1. CASE rows'[v].holder # s
  <2>1. rows'[v] = rows[v]
    BY <1>0, <1>1, Frame
  <2>2. tx'[rows[v].holder] = tx[rows[v].holder]
    BY <1>0, <1>1, <2>1, Frame, Types
  <2>3. QED
    BY <1>0, <2>1, <2>2 DEF HeldRows
<1>2. CASE rows'[v].holder = s
  <2>1. CASE rows' = rows /\ tx[s].stage \notin Holders
    BY <1>0, <1>2, <2>1, HoldsNothing
  <2>2. CASE InsertProposal(s)
    <3>1. tx'[s].stage = "commit" /\ tx'[s].version = tx[s].version
      BY <1>0, <2>2, Types DEF InsertProposal, Transaction
    <3>2. v # tx[s].version => rows'[v] = rows[v]
      BY <1>0, <2>2, Types DEF InsertProposal, Write
    <3>3. rows[v].holder # s
      BY <1>0, <2>2, HoldsNothing DEF InsertProposal, Holders
    <3>4. QED
      BY <1>2, <3>1, <3>2, <3>3
  <2>3. ASSUME NEW w \in Versions, SupersedeRow(s, w)
        PROVE  /\ rows'[v].status # "none" /\ rows'[v].written \in {"proposed", "superseded"}
               /\ tx'[s].version \in Existing
    <3>1. tx[s].stage = "superseding" /\ w \in Existing /\ tx[s].version \in Existing
      BY <2>3 DEF SupersedeRow, Consistent, Numbers
    <3>1a. tx'[s].version = tx[s].version
      BY <1>0, <2>3, Types DEF SupersedeRow, Transaction
    <3>2. CASE v = w
      <4>1. rows'[v].status = rows[v].status /\ rows[v].status # "none"
        BY <1>0, <2>3, <3>1, <3>2, Types DEF SupersedeRow, Write, Existing
      <4>2. rows'[v].written = IF rows[v].status = "approved" THEN "superseded" ELSE rows[v].status
        BY <1>0, <2>3, <3>2, Types DEF SupersedeRow, Write
      <4>3. QED
        BY <1>0, <3>1, <3>1a, <4>1, <4>2, Types DEF Statuses
    <3>3. CASE v # w
      <4>1. rows'[v] = rows[v]
        BY <1>0, <2>3, <3>3, Types DEF SupersedeRow, Write
      <4>2. QED
        BY <1>0, <1>2, <3>1, <3>1a, <4>1 DEF HeldRows
    <3>4. QED
      BY <3>2, <3>3
  <2>4. CASE SetApproved(s)
    <3>1. tx'[s].stage = "commit" /\ tx'[s].version = tx[s].version /\ tx[s].stage = "superseding"
      BY <1>0, <2>4, Types DEF SetApproved, Transaction
    <3>2. v # tx[s].version => rows'[v] = rows[v]
      BY <1>0, <2>4, Types DEF SetApproved, Write
    <3>3. QED
      BY <1>0, <1>2, <3>1, <3>2 DEF HeldRows
  <2>5. CASE Commit(s) \/ RollBack(s)
    BY <1>2, <2>5 DEF Commit, RollBack, Free
  <2>6. QED
    BY <1>2, <2>1, <2>2, <2>3, <2>4, <2>5
       DEF Step, ProposeReads, DuplicateVersion, ApproveReads, StartSupersede, Holders
<1>3. QED
  BY <1>1, <1>2

LEMMA WrittenStep ==
    ASSUME Consistent, TypeOK', NEW s \in Sessions, Step(s)
    PROVE  Written'
<1> USE SessionsAssumption
<1>0. TypeOK /\ Written
  BY DEF Consistent
<1> SUFFICES ASSUME NEW t \in Sessions, tx'[t].stage = "commit"
             PROVE  LET v == tx'[t].version IN
                    /\ rows'[v].holder = t
                    /\ rows'[v].written = IF v \in Existing' THEN "approved" ELSE "proposed"
  BY DEF Written
<1>1. CASE t # s
  <2>1. tx'[t] = tx[t] /\ tx[t].version \in Versions
    BY <1>0, <1>1, Frame, Types
  <2>2. rows'[tx[t].version] = rows[tx[t].version]
    BY <1>0, <1>1, <2>1, Frame DEF Written
  <2>3. QED
    BY <1>0, <2>1, <2>2 DEF Written, Existing
<1>2. CASE t = s
  <2>1. CASE InsertProposal(s)
    <3>1. tx'[s].version = tx[s].version /\ tx[s].version \in Versions
      BY <1>0, <2>1, Types DEF InsertProposal, Transaction
    <3>2. QED
      BY <1>0, <1>2, <2>1, <3>1, Types DEF InsertProposal, Write, Existing
  <2>2. CASE SetApproved(s)
    <3>1. tx'[s].version = tx[s].version /\ tx[s].version \in Versions
      BY <1>0, <2>2, Types DEF SetApproved, Transaction
    <3>2. tx[s].version \in Existing
      BY <2>2 DEF SetApproved, Consistent, Numbers
    <3>3. QED
      BY <1>0, <1>2, <2>2, <3>1, <3>2, Types DEF SetApproved, Write, Existing
  <2>3. CASE tx'[s].stage # "commit"
    BY <1>2, <2>3
  <2>4. QED
    BY <1>0, <2>1, <2>2, <2>3, Types
       DEF Step, ProposeReads, DuplicateVersion, ApproveReads, SupersedeRow, StartSupersede,
           Commit, RollBack, NoTransaction, Transaction
<1>3. QED
  BY <1>1, <1>2

LEMMA NumbersStep ==
    ASSUME Consistent, TypeOK', NEW s \in Sessions, Step(s)
    PROVE  Numbers'
<1>0. TypeOK /\ NoGaps /\ Numbers
  BY DEF Consistent
<1>1. Existing \subseteq Existing'
  BY ExistingStays DEF Consistent
<1> SUFFICES ASSUME NEW t \in Sessions
             PROVE  /\ tx'[t].todo \subseteq Existing
                    /\ tx'[t].stage # "superseding" => tx'[t].todo = {}
                    /\ tx'[t].stage \in {"insert", "commit"} => 1..(tx'[t].version - 1) \subseteq Existing
                    /\ tx'[t].stage \in {"supersede", "superseding"} => tx'[t].version \in Existing
  BY <1>1 DEF Numbers
<1>2. CASE t # s
  BY <1>0, <1>2, Frame DEF Numbers
<1>3. CASE t = s
  <2>1. CASE ProposeReads(s)
    <3>1. /\ tx'[s].stage = "insert" /\ tx'[s].version = NextVersion
          /\ tx'[s].todo = tx[s].todo /\ tx[s].stage = "idle"
      BY <1>0, <2>1, Types DEF ProposeReads, Transaction
    <3>2. QED
      BY <1>0, <1>3, <3>1, NextVersionIsNext DEF Numbers
  <2>2. CASE InsertProposal(s)
    <3>1. /\ tx'[s].stage = "commit" /\ tx'[s].version = tx[s].version
          /\ tx'[s].todo = tx[s].todo /\ tx[s].stage = "insert"
      BY <1>0, <2>2, Types DEF InsertProposal, Transaction
    <3>2. QED
      BY <1>0, <1>3, <3>1 DEF Numbers
  <2>3. ASSUME NEW v \in Versions, ApproveReads(s, v)
        PROVE  /\ tx'[s].todo = {} /\ tx'[s].stage = "supersede" /\ tx'[s].version \in Existing
    BY <1>0, <2>3, Types DEF ApproveReads, Transaction, Numbers, Existing
  <2>4. CASE StartSupersede(s)
    <3>1. /\ tx'[s].stage = "superseding" /\ tx'[s].version = tx[s].version
          /\ tx'[s].todo = Approved /\ tx[s].stage = "supersede"
      BY <1>0, <2>4, Types DEF StartSupersede, Transaction
    <3>2. Approved \subseteq Existing
      BY DEF Approved, Existing
    <3>3. QED
      BY <1>0, <1>3, <3>1, <3>2 DEF Numbers
  <2>5. ASSUME NEW v \in Versions, SupersedeRow(s, v)
        PROVE  /\ tx'[s].stage = "superseding" /\ tx[s].stage = "superseding"
               /\ tx'[s].version = tx[s].version /\ tx'[s].todo \subseteq tx[s].todo
    BY <1>0, <2>5, Types DEF SupersedeRow, Transaction
  <2>6. CASE SetApproved(s)
    <3>1. /\ tx'[s].stage = "commit" /\ tx'[s].version = tx[s].version
          /\ tx'[s].todo = {} /\ tx[s].stage = "superseding"
      BY <1>0, <2>6, Types DEF SetApproved, Transaction
    <3>2. tx[s].version \in Existing /\ 1..tx[s].version \subseteq Existing
      BY <1>0, <3>1 DEF Numbers, NoGaps
    <3>3. tx[s].version \in Nat
      BY <3>2, BoundsAssumption DEF Existing, Versions
    <3>4. QED
      BY <1>3, <3>1, <3>2, <3>3
  <2>7. CASE DuplicateVersion(s) \/ Commit(s) \/ RollBack(s)
    BY <1>0, <1>3, <2>7, Types DEF DuplicateVersion, Commit, RollBack, NoTransaction
  <2>8. QED
    BY <1>0, <1>3, <2>1, <2>2, <2>3, <2>4, <2>5, <2>6, <2>7 DEF Step, Numbers
<1>4. QED
  BY <1>2, <1>3

LEMMA NoGapsStep ==
    ASSUME Consistent, NEW s \in Sessions, Step(s)
    PROVE  NoGaps'
<1>0. TypeOK /\ NoGaps /\ HeldRows
  BY DEF Consistent
<1>1. Existing \subseteq Existing'
  BY ExistingStays DEF Consistent
<1>2. ASSUME NEW v \in Existing', v \notin Existing
      PROVE  1..(v - 1) \subseteq Existing
  <2>1. v \in Versions /\ rows[v].status = "none" /\ rows'[v].status # "none"
    BY <1>2 DEF Existing
  <2>2. Commit(s) /\ rows[v].holder = s
    BY <1>0, <2>1, StatusChanges
  <2>3. v = tx[s].version /\ tx[s].stage = "commit"
    BY <1>0, <2>1, <2>2, SessionsAssumption DEF HeldRows
  <2>4. QED
    BY <2>3 DEF Consistent, Numbers
<1>3. \A v \in Existing' : 1..v \subseteq 1..(v - 1) \cup {v}
  BY BoundsAssumption DEF Existing, Versions
<1>4. QED
  BY <1>0, <1>1, <1>2, <1>3 DEF NoGaps

\* Versions are contiguous, whatever proposals overlap or fail.
THEOREM Contiguous == Spec => []NoGaps
<1>1. TypeOK' /\ Consistent /\ [Next]_vars => Consistent'
  <2>1. ASSUME TypeOK', Consistent, NEW s \in Sessions, Step(s)
        PROVE  Consistent'
    BY <2>1, HeldRowsStep, WrittenStep, NumbersStep, NoGapsStep DEF Consistent
  <2>2. ASSUME Consistent, UNCHANGED vars
        PROVE  Consistent'
    BY <2>2 DEF vars, Consistent, TypeOK, NoGaps, HeldRows, Written, Numbers, Existing
  <2>3. QED
    BY <2>1, <2>2 DEF Next, Step
<1>2. Consistent => NoGaps
  BY DEF Consistent
<1>3. QED
  BY <1>1, <1>2, InitConsistent, TypeCorrect, PTL DEF Spec

-----------------------------------------------------------------------------
(***************************************************************************)
(* Approvals: a commit appends one if its candidate existed before.        *)
(***************************************************************************)
LEMMA ApprovalsStep ==
    ASSUME TypeOK, NEW s \in Sessions, Step(s)
    PROVE  \/ approvals' = approvals /\ ~(Commit(s) /\ tx[s].version \in Existing)
           \/ /\ Commit(s) /\ tx[s].version \in Existing
              /\ Len(approvals') = Len(approvals) + 1
              /\ approvals'[Len(approvals) + 1] = [version |-> tx[s].version, saw |-> tx[s].saw]
              /\ \A i \in 1..Len(approvals) : approvals'[i] = approvals[i]
<1>1. CASE Commit(s) /\ tx[s].version \in Existing
  <2> DEFINE approval == [version |-> tx[s].version, saw |-> tx[s].saw]
             S == [version : Versions, saw : Nat]
  <2>1. approval \in S /\ approvals \in Seq(S)
    BY <1>1, Types DEF TypeOK, Transaction, Existing
  <2>2. approvals' = Append(approvals, approval)
    BY <1>1 DEF Commit
  <2> HIDE DEF approval, S
  <2>3. /\ Len(approvals') = Len(approvals) + 1
        /\ approvals'[Len(approvals) + 1] = approval
        /\ \A i \in 1..Len(approvals) : approvals'[i] = approvals[i]
    BY <2>1, <2>2
  <2>4. QED
    BY <1>1, <2>3 DEF approval
<1>2. CASE Commit(s) /\ tx[s].version \notin Existing
  BY <1>2 DEF Commit
<1>3. CASE ~Commit(s)
  BY <1>3 DEF Step, ProposeReads, InsertProposal, DuplicateVersion, ApproveReads, SupersedeRow,
              StartSupersede, SetApproved, RollBack
<1>4. QED
  BY <1>1, <1>2, <1>3

LEMMA ApprovalsGrow ==
    ASSUME TypeOK, TypeOK', NEW s \in Sessions, Step(s)
    PROVE  /\ Len(approvals) \in Nat
           /\ Len(approvals') = Len(approvals) \/ Len(approvals') = Len(approvals) + 1
           /\ \A i \in 1..Len(approvals) : approvals'[i] = approvals[i]
<1>1. Len(approvals) \in Nat
  BY DEF TypeOK
<1>2. CASE approvals' = approvals
  BY <1>1, <1>2
<1>3. CASE approvals' # approvals
  BY <1>1, <1>3, ApprovalsStep
<1>4. QED
  BY <1>1, <1>2, <1>3

\* An approval in force after a step that is not the step's was in force before.
LEMMA InForceBefore ==
    ASSUME Consistent, TypeOK', NEW s \in Sessions, Step(s), NEW i \in 1..Len(approvals), InForce(i)'
    PROVE  /\ approvals'[i] = approvals[i]
           /\ InForce(i)
           /\ Commit(s) /\ tx[s].version \in Existing => approvals[i].version # tx[s].version
<1> DEFINE v == approvals[i].version
<1>0. TypeOK /\ Len(approvals) \in Nat
  BY DEF Consistent, TypeOK
<1>1. approvals'[i] = approvals[i]
  BY <1>0, ApprovalsGrow
<1>2. \A k \in (i + 1)..Len(approvals') : approvals'[k].version # v
  BY <1>1 DEF InForce
<1>3. \A k \in (i + 1)..Len(approvals) : approvals[k].version # v
  BY <1>0, <1>2, ApprovalsGrow
<1>4. Commit(s) /\ tx[s].version \in Existing => v # tx[s].version
  <2>1. SUFFICES ASSUME Commit(s), tx[s].version \in Existing
                 PROVE  v # tx[s].version
    OBVIOUS
  <2> DEFINE approval == [version |-> tx[s].version, saw |-> tx[s].saw]
  <2>2. Len(approvals') = Len(approvals) + 1 /\ approvals'[Len(approvals) + 1] = approval
    BY <1>0, <2>1, ApprovalsStep
  <2>3. approval.version = tx[s].version
    OBVIOUS
  <2> HIDE DEF approval
  <2>4. QED
    BY <1>0, <1>2, <2>2, <2>3
<1>5. v \in Approved
  <2>1. v \in Versions /\ rows'[v].status = "approved"
    BY <1>1 DEF InForce, Approved
  <2>2. CASE rows'[v].status = rows[v].status
    BY <2>1, <2>2 DEF Approved
  <2>3. CASE Commit(s) /\ rows[v].holder = s /\ rows'[v].status = rows[v].written
    <3>1. v = tx[s].version /\ tx[s].stage = "commit"
      BY <2>1, <2>3, SessionsAssumption DEF Consistent, HeldRows
    <3>2. v \in Existing
      BY <2>1, <2>3, <3>1 DEF Consistent, Written
    <3>3. QED
      BY <1>4, <2>3, <3>1, <3>2
  <2>4. QED
    BY <1>0, <2>1, <2>2, <2>3, StatusChanges
<1>6. QED
  BY <1>1, <1>3, <1>4, <1>5 DEF InForce

-----------------------------------------------------------------------------
(***************************************************************************)
(* An approve supersedes what it saw.                                      *)
(***************************************************************************)
LEMMA NoticedStep ==
    ASSUME Consistent, Noticed, Consistent', NEW s \in Sessions, Step(s)
    PROVE  Noticed'
<1> USE SessionsAssumption
<1> DEFINE NoticedAfter(t, v) ==
              \/ v \in tx'[t].todo \/ v = tx'[t].version
              \/ rows'[v].holder = t /\ rows'[v].written = "superseded"
<1>0. /\ TypeOK /\ TypeOK' /\ Len(approvals) \in Nat /\ Len(approvals') \in Nat
      /\ Len(approvals) <= Len(approvals')
      /\ \A t \in Sessions : tx'[t].saw \in Nat
  <2>1. TypeOK /\ TypeOK'
    BY DEF Consistent
  <2>2. \A t \in Sessions : tx'[t].saw \in Nat
    BY <2>1 DEF TypeOK, Transaction
  <2>3. QED
    BY <2>1, <2>2, ApprovalsGrow
<1>1. ASSUME NEW t \in Sessions, Supersedes(t)',
             tx'[t].saw <= Len(approvals),
             \A i \in 1..tx'[t].saw :
                InForce(i) /\ approvals[i].version \in Approved' => NoticedAfter(t, approvals[i].version)
      PROVE  /\ tx'[t].saw <= Len(approvals')
             /\ \A i \in 1..tx'[t].saw : InForce(i)' => NoticedAfter(t, approvals[i].version)
             /\ \A i \in 1..tx'[t].saw : approvals'[i] = approvals[i]
  <2>1. \A i \in 1..tx'[t].saw : i \in 1..Len(approvals)
    BY <1>0, <1>1
  <2>2. ASSUME NEW i \in 1..tx'[t].saw, InForce(i)'
        PROVE  InForce(i) /\ approvals[i].version \in Approved'
    <3>1. InForce(i) /\ approvals'[i] = approvals[i]
      BY <1>0, <2>1, <2>2, InForceBefore
    <3>2. QED
      BY <2>2, <3>1 DEF InForce
  <2>3. QED
    BY <1>0, <1>1, <2>1, <2>2, ApprovalsGrow
<1>2. ASSUME NEW t \in Sessions, Supersedes(t)'
      PROVE  /\ tx'[t].saw <= Len(approvals)
             /\ \A i \in 1..tx'[t].saw :
                   InForce(i) /\ approvals[i].version \in Approved' => NoticedAfter(t, approvals[i].version)
  <2>1. CASE t # s
    <3>1. tx'[t] = tx[t]
      BY <1>0, <2>1, Frame
    <3>2. Supersedes(t)
      <4>1. CASE tx[t].stage = "superseding"
        BY <4>1 DEF Supersedes
      <4>2. CASE tx[t].stage = "commit" /\ tx[t].version \in Existing'
        <5>1. rows'[tx[t].version] = rows[tx[t].version]
          BY <1>0, <2>1, <4>2, Frame DEF Consistent, Written, Existing
        <5>2. QED
          BY <4>2, <5>1 DEF Supersedes, Existing
      <4>3. QED
        BY <1>2, <3>1, <4>1, <4>2 DEF Supersedes
    <3>3. \A v \in Versions : rows[v].holder = t => rows'[v] = rows[v]
      BY <1>0, <2>1, Frame
    <3>4. QED
      BY <3>1, <3>2, <3>3 DEF Noticed, IsNoticed, InForce, Approved
  <2>2. CASE t = s /\ StartSupersede(s)
    <3>1. tx'[s].saw = Len(approvals) /\ tx'[s].todo = Approved
      BY <1>0, <2>2, Types DEF StartSupersede, Transaction
    <3>2. QED
      BY <1>0, <2>2, <3>1 DEF InForce, IsNoticed
  <2>3. ASSUME t = s, NEW w \in Versions, SupersedeRow(s, w)
        PROVE  /\ tx'[t].saw <= Len(approvals)
               /\ \A i \in 1..tx'[t].saw : InForce(i) => NoticedAfter(t, approvals[i].version)
    <3>1. /\ tx'[s].saw = tx[s].saw /\ tx'[s].version = tx[s].version
          /\ tx'[s].todo = tx[s].todo \ {w} /\ tx[s].stage = "superseding"
      BY <1>0, <2>3, Types DEF SupersedeRow, Transaction
    <3>2. \A v \in Versions \ {w} : rows'[v] = rows[v]
      BY <1>0, <2>3, Types DEF SupersedeRow, Write
    <3>3. rows'[w].holder = s /\ (w \in Approved => rows'[w].written = "superseded")
      BY <1>0, <2>3, Types DEF SupersedeRow, Write, Approved
    <3>4. Supersedes(s)
      BY <3>1 DEF Supersedes
    <3>5. QED
      BY <2>3, <3>1, <3>2, <3>3, <3>4 DEF Noticed, IsNoticed, InForce, Approved
  <2>4. CASE t = s /\ SetApproved(s)
    <3>1. /\ tx'[s].saw = tx[s].saw /\ tx'[s].version = tx[s].version
          /\ tx'[s].todo = tx[s].todo /\ tx[s].stage = "superseding"
      BY <1>0, <2>4, Types DEF SetApproved, Transaction
    <3>2. \A v \in Versions \ {tx[s].version} : rows'[v] = rows[v]
      BY <1>0, <2>4, Types DEF SetApproved, Write
    <3>3. Supersedes(s)
      BY <3>1 DEF Supersedes
    <3>4. QED
      BY <2>4, <3>1, <3>2, <3>3 DEF Noticed, IsNoticed, InForce, Approved
  <2>5. CASE t = s /\ InsertProposal(s)
    <3>1. tx'[s].stage = "commit" /\ tx'[s].version = tx[s].version /\ tx[s].version \in Versions
      BY <1>0, <2>5, Types DEF InsertProposal, Transaction
    <3>2. rows'[tx[s].version].status = "none"
      BY <1>0, <2>5, <3>1, Types DEF InsertProposal, Write
    <3>3. QED
      BY <1>2, <2>5, <3>1, <3>2 DEF Supersedes, Existing
  <2>6. CASE t = s /\ tx'[s].stage \notin {"superseding", "commit"}
    BY <1>2, <2>6 DEF Supersedes
  <2>7. QED
    BY <1>0, <2>1, <2>2, <2>3, <2>4, <2>5, <2>6, Types
       DEF Step, ProposeReads, DuplicateVersion, ApproveReads, Commit, RollBack,
           NoTransaction, Transaction
<1>3. ASSUME NEW t \in Sessions, Supersedes(t)'
      PROVE  /\ tx'[t].saw <= Len(approvals')
             /\ \A i \in 1..tx'[t].saw : InForce(i)' => IsNoticed(t, approvals[i].version)'
  <2>1. /\ tx'[t].saw <= Len(approvals')
        /\ \A i \in 1..tx'[t].saw :
              /\ InForce(i)' => NoticedAfter(t, approvals[i].version)
              /\ approvals'[i] = approvals[i]
    <3> HIDE DEF NoticedAfter
    <3>1. QED
      BY <1>1, <1>2, <1>3
  <2>2. QED
    BY <2>1 DEF IsNoticed
<1>4. QED
  BY <1>3 DEF Noticed

LEMMA SeenStep ==
    ASSUME Consistent, Noticed, SeenIsSuperseded, Consistent', NEW s \in Sessions, Step(s)
    PROVE  SeenIsSuperseded'
<1>0. TypeOK /\ TypeOK' /\ Len(approvals) \in Nat
  BY DEF Consistent, TypeOK
<1> SUFFICES ASSUME NEW i \in 1..Len(approvals'), NEW j \in 1..Len(approvals'), i < j, InForce(i)'
             PROVE  approvals'[j].saw < i
  BY DEF SeenIsSuperseded
<1>1. i \in 1..Len(approvals)
  BY <1>0, ApprovalsGrow
<1>2. approvals'[i] = approvals[i] /\ InForce(i)
  BY <1>0, <1>1, InForceBefore
<1>3. CASE j \in 1..Len(approvals)
  <2>1. approvals'[j] = approvals[j]
    BY <1>0, <1>3, ApprovalsGrow
  <2>2. QED
    BY <1>1, <1>2, <1>3, <2>1 DEF SeenIsSuperseded
<1>4. CASE j \notin 1..Len(approvals)
  <2> DEFINE v == approvals[i].version
             approval == [version |-> tx[s].version, saw |-> tx[s].saw]
  <2>1. Commit(s) /\ tx[s].version \in Existing /\ approvals'[j] = approval
    BY <1>0, <1>4, ApprovalsStep
  <2>2. approval.saw = tx[s].saw
    OBVIOUS
  <2>3. tx[s].stage = "commit" /\ tx[s].saw \in Nat /\ tx[s].todo = {}
    BY <1>0, <2>1, Types DEF Commit, Transaction, Consistent, Numbers
  <2>4. SUFFICES ASSUME i <= tx[s].saw PROVE FALSE
    BY <2>1, <2>2, <2>3, <1>1
  <2>5. v # tx[s].version
    BY <1>0, <1>1, <2>1, InForceBefore
  <2>6. rows[v].holder = s /\ rows[v].written = "superseded" /\ v \in Versions
    <3>1. Supersedes(s)
      BY <2>1, <2>3 DEF Supersedes
    <3>2. i \in 1..tx[s].saw
      BY <1>1, <2>3, <2>4
    <3>3. QED
      BY <1>2, <2>3, <2>5, <3>1, <3>2 DEF Noticed, IsNoticed, InForce, Approved
  <2>7. rows'[v].status = "superseded"
    BY <2>1, <2>6 DEF Commit, Free
  <2>8. QED
    BY <1>2, <2>7 DEF InForce, Approved
<1>5. QED
  BY <1>3, <1>4

\* An approve supersedes every approval that it could see.
THEOREM SeenAreSuperseded == Spec => []SeenIsSuperseded
<1> DEFINE IInv == Consistent /\ Noticed /\ SeenIsSuperseded
<1>1. Init => IInv
  <2>1. Init => Noticed
    BY DEF Init, Noticed, Supersedes, NoTransaction
  <2>2. Init => SeenIsSuperseded
    BY DEF Init, SeenIsSuperseded
  <2>3. QED
    BY <2>1, <2>2, InitConsistent
<1>2. TypeOK' /\ IInv /\ [Next]_vars => IInv'
  <2>1. ASSUME TypeOK', IInv, NEW s \in Sessions, Step(s)
        PROVE  IInv'
    <3>1. Consistent'
      BY <2>1, HeldRowsStep, WrittenStep, NumbersStep, NoGapsStep DEF Consistent
    <3>2. QED
      BY <2>1, <3>1, NoticedStep, SeenStep
  <2>2. ASSUME IInv, UNCHANGED vars
        PROVE  IInv'
    BY <2>2 DEF vars, Consistent, TypeOK, NoGaps, HeldRows, Written, Numbers, Existing,
                Noticed, IsNoticed, Supersedes, SeenIsSuperseded, Approved, InForce
  <2>3. QED
    BY <2>1, <2>2 DEF Next, Step
<1>3. QED
  BY <1>1, <1>2, TypeCorrect, PTL DEF Spec

-----------------------------------------------------------------------------
(***************************************************************************)
(* Once a constitution was approved, one is in force.                      *)
(***************************************************************************)
LEMMA InForceStep ==
    ASSUME Consistent, approvals # <<>> => Approved # {}, NEW s \in Sessions, Step(s)
    PROVE  approvals' # <<>> => Approved' # {}
<1>0. TypeOK
  BY DEF Consistent
<1>1. CASE Commit(s) /\ tx[s].version \in Existing
  <2> DEFINE v == tx[s].version
  <2>1. v \in Versions /\ rows[v].holder = s /\ rows[v].written = "approved"
    BY <1>1 DEF Commit, Consistent, Written, Existing
  <2>2. rows'[v].status = "approved"
    BY <1>1, <2>1 DEF Commit, Free
  <2>3. QED
    BY <2>1, <2>2 DEF Approved
<1>2. CASE ~(Commit(s) /\ tx[s].version \in Existing)
  <2>1. approvals' = approvals
    BY <1>0, <1>2, ApprovalsStep
  <2>2. ASSUME NEW v \in Approved PROVE v \in Approved'
    <3>1. v \in Existing /\ v \in Versions
      BY DEF Approved, Existing
    <3>2. Commit(s) => rows[v].holder # s
      BY <1>2, <3>1, SessionsAssumption DEF Consistent, HeldRows
    <3>3. QED
      BY <1>0, <3>1, <3>2, StatusChanges DEF Approved
  <2>3. QED
    BY <2>1, <2>2
<1>3. QED
  BY <1>1, <1>2

\* getActive answers a constitution from the first approval on.
THEOREM AlwaysActive == Spec => []OnceActiveAlwaysActive
<1> DEFINE SomeApproved == approvals # <<>> => Approved # {}
           IInv == Consistent /\ SomeApproved
<1>1. Init => IInv
  BY InitConsistent DEF Init
<1>2. TypeOK' /\ IInv /\ [Next]_vars => IInv'
  <2>1. ASSUME TypeOK', IInv, NEW s \in Sessions, Step(s)
        PROVE  IInv'
    <3>1. Consistent'
      BY <2>1, HeldRowsStep, WrittenStep, NumbersStep, NoGapsStep DEF Consistent
    <3>2. QED
      BY <2>1, <3>1, InForceStep
  <2>2. ASSUME IInv, UNCHANGED vars
        PROVE  IInv'
    BY <2>2 DEF vars, Consistent, TypeOK, NoGaps, HeldRows, Written, Numbers, Existing, Approved
  <2>3. QED
    BY <2>1, <2>2 DEF Next, Step
<1>3. IInv => OnceActiveAlwaysActive
  <2>1. 0 \notin Approved
    BY BoundsAssumption DEF Approved, Versions
  <2>2. QED
    BY <2>1, ActiveIsApproved DEF OnceActiveAlwaysActive
<1>4. QED
  BY <1>1, <1>2, <1>3, TypeCorrect, PTL DEF Spec
=============================================================================
