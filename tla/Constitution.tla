----------------------------- MODULE Constitution -----------------------------
(***************************************************************************)
(* DrizzleBusinessConstitutionService (apps/control-plane): the versions   *)
(* of one organization's Business Constitution are proposed, and approved  *)
(* by humans, in transactions of several statements that run concurrently  *)
(* on Postgres at its default isolation level, READ COMMITTED: a statement *)
(* sees what was committed when it began and what its own transaction      *)
(* wrote, waits for a row another transaction holds, and then works on     *)
(* what that transaction left.                                             *)
(*                                                                         *)
(* The rules of a version are inserted in the transaction of its proposal  *)
(* and never changed, so they are left out.  getActive reads and does not  *)
(* write; it is the operator Active.                                       *)
(***************************************************************************)
EXTENDS Naturals, Sequences

CONSTANTS
    Sessions,     \* the database sessions of the control plane
    NoSession,
    MaxVersion,   \* bound: the versions that may be proposed
    MaxApprovals  \* bound: no approve begins when so many have committed

ASSUME SessionsAssumption == NoSession \notin Sessions
ASSUME BoundsAssumption == MaxVersion \in Nat /\ MaxApprovals \in Nat

VARIABLES
    rows,      \* for each version, its row: the committed status, the session
               \* that holds the row and the status that session wrote
    tx,        \* for each session, its transaction
    approvals  \* history: the approvals, in the order of their commits, each
               \* with the number of approvals its first UPDATE could see

vars == <<rows, tx, approvals>>

Versions == 1..MaxVersion
\* "none" is the absent row; no code writes "rejected".
Statuses == {"none", "proposed", "approved", "superseded"}
Stages == {"idle", "insert", "supersede", "superseding", "commit"}

Row == [status : Statuses, holder : Sessions \cup {NoSession}, written : Statuses]
Free(status) == [status |-> status, holder |-> NoSession, written |-> "none"]

Transaction == [stage : Stages, version : {0} \cup Versions,
                todo : SUBSET Versions, saw : Nat]
NoTransaction == [stage |-> "idle", version |-> 0, todo |-> {}, saw |-> 0]

Existing == {v \in Versions : rows[v].status # "none"}
Approved == {v \in Versions : rows[v].status = "approved"}

\* getActive: the approved version with the highest number, 0 if there is none.
Active ==
    IF Approved = {} THEN 0
    ELSE CHOOSE v \in Approved : \A w \in Approved : w <= v

\* The row is not held by another session.
IsFree(s, v) == rows[v].holder \in {NoSession, s}

Write(s, v, status) ==
    rows' = [rows EXCEPT ![v] = [status |-> @.status, holder |-> s, written |-> status]]

-----------------------------------------------------------------------------
Init ==
    /\ rows = [v \in Versions |-> Free("none")]
    /\ tx = [s \in Sessions |-> NoTransaction]
    /\ approvals = <<>>

\* Mutant of NextVersion: the number is one short.
LastVersion == IF Existing = {} THEN 0 ELSE CHOOSE v \in Existing : \A w \in Existing : w <= v

NextVersion ==
    1 + IF Existing = {} THEN 0 ELSE CHOOSE v \in Existing : \A w \in Existing : w <= v

\* propose: select coalesce(max(version), 0) + 1.
ProposeReads(s) ==
    /\ tx[s].stage = "idle"
    /\ NextVersion <= MaxVersion
    /\ tx' = [tx EXCEPT ![s].stage = "insert", ![s].version = NextVersion]
    /\ UNCHANGED <<rows, approvals>>

\* Mutant of InsertProposal: a number another proposal is about to take is skipped.
InsertOrSkip(s) ==
    /\ tx[s].stage = "insert"
    /\ \E v \in Versions :
          /\ v = tx[s].version \/ (v = 1 + tx[s].version /\ ~IsFree(s, tx[s].version))
          /\ IsFree(s, v) /\ rows[v].status = "none"
          /\ Write(s, v, "proposed")
          /\ tx' = [tx EXCEPT ![s].stage = "commit", ![s].version = v]
    /\ UNCHANGED approvals

InsertProposal(s) ==
    /\ tx[s].stage = "insert"
    /\ IsFree(s, tx[s].version) /\ rows[tx[s].version].status = "none"
    /\ Write(s, tx[s].version, "proposed")
    /\ tx' = [tx EXCEPT ![s].stage = "commit"]
    /\ UNCHANGED approvals

\* business_constitutions_org_version_unique is violated: propose rejects.
DuplicateVersion(s) ==
    /\ tx[s].stage = "insert"
    /\ IsFree(s, tx[s].version) /\ rows[tx[s].version].status # "none"
    /\ tx' = [tx EXCEPT ![s] = NoTransaction]
    /\ UNCHANGED <<rows, approvals>>

-----------------------------------------------------------------------------
\* approve, called by a human: the candidate is read, and not locked.
ApproveReads(s, v) ==
    /\ tx[s].stage = "idle"
    /\ rows[v].status = "proposed"
    /\ Len(approvals) < MaxApprovals
    /\ tx' = [tx EXCEPT ![s].stage = "supersede", ![s].version = v]
    /\ UNCHANGED <<rows, approvals>>

\* Mutant of StartSupersede: only older versions are superseded.
SupersedeOlder(s) ==
    /\ tx[s].stage = "supersede"
    /\ tx' = [tx EXCEPT ![s].stage = "superseding", ![s].saw = Len(approvals),
                        ![s].todo = {v \in Approved : v < tx[s].version}]
    /\ UNCHANGED <<rows, approvals>>

\* The UPDATE of the approved rows finds them ...
StartSupersede(s) ==
    /\ tx[s].stage = "supersede"
    /\ tx' = [tx EXCEPT ![s].stage = "superseding", ![s].saw = Len(approvals),
                        ![s].todo = Approved]
    /\ UNCHANGED <<rows, approvals>>

\* ... and locks each, in any order, and updates it if it is still approved.
SupersedeRow(s, v) ==
    /\ tx[s].stage = "superseding"
    /\ v \in tx[s].todo
    /\ IsFree(s, v)
    /\ Write(s, v, IF rows[v].status = "approved" THEN "superseded" ELSE rows[v].status)
    /\ tx' = [tx EXCEPT ![s].todo = @ \ {v}]
    /\ UNCHANGED approvals

\* Mutant of SetApproved: the status is checked again.
SetApprovedIfProposed(s) ==
    LET v == tx[s].version
        current == IF rows[v].holder = s THEN rows[v].written ELSE rows[v].status
    IN  /\ tx[s].stage = "superseding" /\ tx[s].todo = {}
        /\ IsFree(s, v)
        /\ Write(s, v, IF current = "proposed" THEN "approved" ELSE current)
        /\ tx' = [tx EXCEPT ![s].stage = "commit"]
        /\ UNCHANGED approvals

\* The UPDATE of the candidate, by its id alone.
SetApproved(s) ==
    /\ tx[s].stage = "superseding" /\ tx[s].todo = {}
    /\ IsFree(s, tx[s].version)
    /\ Write(s, tx[s].version, "approved")
    /\ tx' = [tx EXCEPT ![s].stage = "commit"]
    /\ UNCHANGED approvals

-----------------------------------------------------------------------------
Commit(s) ==
    /\ tx[s].stage = "commit"
    /\ rows' = [v \in Versions |->
                  IF rows[v].holder = s THEN Free(rows[v].written) ELSE rows[v]]
    /\ approvals' = IF tx[s].version \in Existing
                    THEN Append(approvals, [version |-> tx[s].version, saw |-> tx[s].saw])
                    ELSE approvals
    /\ tx' = [tx EXCEPT ![s] = NoTransaction]

\* The connection is lost, or Postgres breaks a deadlock: nothing was done.
RollBack(s) ==
    /\ tx[s].stage # "idle"
    /\ rows' = [v \in Versions |->
                  IF rows[v].holder = s THEN Free(rows[v].status) ELSE rows[v]]
    /\ tx' = [tx EXCEPT ![s] = NoTransaction]
    /\ UNCHANGED approvals

Next ==
    \E s \in Sessions :
        \/ ProposeReads(s)
        \/ InsertProposal(s)
        \/ DuplicateVersion(s)
        \/ \E v \in Versions : ApproveReads(s, v) \/ SupersedeRow(s, v)
        \/ StartSupersede(s)
        \/ SetApproved(s)
        \/ Commit(s)
        \/ RollBack(s)

Spec == Init /\ [][Next]_vars

-----------------------------------------------------------------------------
TypeOK ==
    /\ rows \in [Versions -> Row]
    /\ tx \in [Sessions -> Transaction]
    /\ approvals \in Seq([version : Versions, saw : Nat])
    /\ \A s \in Sessions : tx[s].stage # "idle" => tx[s].version \in Versions
    /\ \A v \in Versions :
          rows[v].holder # NoSession => tx[rows[v].holder].stage \in {"superseding", "commit"}

(***************************************************************************)
(* Versions are numbered without a gap, however proposals overlap or fail: *)
(* the number is read and then inserted, and the unique index refuses one  *)
(* of two proposals that read the same.                                    *)
(***************************************************************************)
NoGaps == \A v \in Existing : 1..v \subseteq Existing

(***************************************************************************)
(* Once a constitution was approved, one is in force: getActive never      *)
(* answers null between the two UPDATEs of an approve, nor after two       *)
(* approves of the same candidate.                                         *)
(***************************************************************************)
OnceActiveAlwaysActive == approvals # <<>> => Active # 0

(***************************************************************************)
(* An approve supersedes every approval its first UPDATE could see.  Two   *)
(* versions are approved at once only by approves that overlapped, and     *)
(* after one that overlapped none the version it approved is in force.     *)
(***************************************************************************)
InForce(i) ==
    /\ approvals[i].version \in Approved
    /\ \A k \in (i + 1)..Len(approvals) : approvals[k].version # approvals[i].version

SeenIsSuperseded ==
    \A i, j \in 1..Len(approvals) : i < j /\ InForce(i) => approvals[j].saw < i
=============================================================================
