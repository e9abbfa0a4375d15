-------------------------- MODULE InvitationsProofs --------------------------
(***************************************************************************)
(* What Invitations guarantees for every number of threads, users,         *)
(* invitations and links, with crashes and expiries at any moment.         *)
(***************************************************************************)
EXTENDS Invitations, FiniteSetTheorems, TLAPS

-----------------------------------------------------------------------------
(***************************************************************************)
(* Type correctness.                                                       *)
(***************************************************************************)
\* A thread at rest holds an invitation and a user that mean nothing.
LEMMA SomeInvitationAndUser ==
    /\ (CHOOSE i \in Invitations : TRUE) \in Invitations
    /\ Nobody \in Users
<1>1. PICK i \in Invitations : TRUE
    BY InvitationsAssumption
<1>2. Requested[i] \in Users
    BY InvitationsAssumption
<1> QED
    BY <1>1, <1>2 DEF Nobody

\* An empty table and an empty stream are well formed.
LEMMA InitTypes == Init => TypeOK
<1> SUFFICES ASSUME Init PROVE TypeOK
    OBVIOUS
<1>1. row \in [Invitations -> Row]
    BY SomeInvitationAndUser DEF Init, Row, Statuses
<1>2. proc \in [Procs -> Thread]
    BY SomeInvitationAndUser DEF Init, Thread, Steps
<1>3. members \in Memberships
    BY InvitationsAssumption DEF Init
<1> QED
    BY <1>1, <1>2, <1>3 DEF Init, TypeOK

\* The statements that only read the stream, or only move on.
LEMMA GoToTypes ==
    ASSUME TypeOK, NEW p \in Procs, NEW step \in Steps, GoTo(p, step)
    PROVE  proc' \in [Procs -> Thread]
BY DEF TypeOK, GoTo, Thread

LEMMA ReadVersionTypes ==
    ASSUME TypeOK, NEW p \in Procs, NEW step, NEW next \in Steps, ReadVersion(p, step, next)
    PROVE  TypeOK'
<1>1. Len(stream) \in Nat
    BY DEF TypeOK
<1>2. proc' \in [Procs -> Thread]
    BY <1>1 DEF TypeOK, ReadVersion, Thread
<1> QED
    BY <1>2 DEF TypeOK, ReadVersion

\* An append at the expected version adds one event or ends in a conflict.
LEMMA AppendTypes ==
    ASSUME TypeOK, NEW p \in Procs, NEW step, NEW type \in EventTypes, NEW next \in Steps,
           AppendAtVersion(p, step, type, next)
    PROVE  stream' \in Seq(EventSet) /\ proc' \in [Procs -> Thread]
<1>1. EventFor(type, proc[p].invitation) \in EventSet
    BY DEF TypeOK, EventFor, EventSet, Thread
<1>2. stream' \in Seq(EventSet)
    BY <1>1 DEF TypeOK, AppendAtVersion
<1> QED
    BY <1>2, GoToTypes DEF AppendAtVersion

\* No step leaves the types, one handler after the other.
LEMMA NextTypes == TypeOK /\ [Next]_vars => TypeOK'
<1> SUFFICES ASSUME TypeOK, [Next]_vars PROVE TypeOK'
    OBVIOUS
<1>1. ASSUME NEW p \in Procs, Handler(p)
      PROVE  TypeOK'
    <2> DEFINE mine == proc[p].invitation
    <2>0. /\ mine \in Invitations /\ proc[p] \in Thread
          /\ proc[p].approver \in Users /\ proc[p].expected \in Nat
          /\ row[mine] \in Row
        BY DEF TypeOK, Thread
    <2>1. CASE RequestAccess(p)
        <3>1. PICK i \in Invitations, approver \in Managers :
                proc' = [proc EXCEPT ![p] = [pc |-> "request insert", invitation |-> i,
                                             approver |-> approver, expected |-> 0]]
            BY <2>1 DEF RequestAccess
        <3>2. [pc |-> "request insert", invitation |-> i, approver |-> approver, expected |-> 0]
                \in Thread
            BY DEF Managers, Thread, Steps
        <3>3. proc' \in [Procs -> Thread]
            BY <3>1, <3>2 DEF TypeOK
        <3> QED
            BY <2>1, <3>3 DEF TypeOK, RequestAccess
    <2>2. CASE CreateInvitation(p)
        <3>1. proc' \in [Procs -> Thread]
            BY <2>2, GoToTypes DEF CreateInvitation, Steps
        <3>2. row' \in [Invitations -> Row]
            BY <2>2 DEF TypeOK, CreateInvitation, Row, Statuses, Thread
        <3>3. \A i \in Invitations : row'[i].link > 0 => row'[i].status # "none"
            BY <2>2 DEF TypeOK, CreateInvitation
        <3> QED
            BY <2>2, <3>1, <3>2, <3>3 DEF TypeOK, CreateInvitation
    <2>3. CASE RequestVersion(p)
        BY <2>3, ReadVersionTypes DEF RequestVersion, Steps
    <2>4. CASE RequestAppend(p)
        BY <2>4, AppendTypes DEF TypeOK, RequestAppend, Steps, EventTypes
    <2>5. CASE RequestMail(p)
        <3>1. proc' \in [Procs -> Thread]
            BY <2>5, GoToTypes DEF RequestMail, Steps
        <3> QED
            BY <2>5, <3>1 DEF TypeOK, RequestMail, Thread
    <2>6. CASE Approve(p)
        <3>1. PICK i \in decisions :
                proc' = [proc EXCEPT ![p].pc = "approve update", ![p].invitation = i]
            BY <2>6 DEF Approve
        <3>2. proc' \in [Procs -> Thread]
            BY <2>0, <3>1 DEF TypeOK, Thread, Steps
        <3> QED
            BY <2>6, <3>2 DEF TypeOK, Approve
    <2>7. CASE ApproveUpdate(p)
        <3>1. row' = [row EXCEPT ![mine].status = "approved", ![mine].link = row[mine].link + 1]
            BY <2>7 DEF ApproveUpdate
        <3>2. row' \in [Invitations -> Row]
            <4>1. row \in [Invitations -> Row]
                BY DEF TypeOK
            <4>2. row[mine].link + 1 \in Nat
                BY <2>0 DEF Row
            <4> QED
                BY <2>0, <3>1, <4>1, <4>2 DEF Row, Statuses
        <3>3. \A i \in Invitations : row'[i].link > 0 => row'[i].status # "none"
            BY <2>0, <3>1 DEF TypeOK, Row
        <3>4. row'[mine].link \in Nat
            BY <2>0, <3>2 DEF Row
        <3>5. proc' = [proc EXCEPT ![p].pc = "approve mail", ![p].expected = row'[mine].link]
            BY <2>7 DEF ApproveUpdate
        <3>6. proc' \in [Procs -> Thread]
            BY <2>0, <3>4, <3>5 DEF TypeOK, Thread, Steps
        <3> QED
            BY <2>7, <3>2, <3>3, <3>6 DEF TypeOK, ApproveUpdate
    <2>8. CASE ApproveMail(p)
        <3>1. proc' \in [Procs -> Thread]
            BY <2>8, GoToTypes DEF ApproveMail, Steps
        <3>2. access' = access \cup {<<mine, proc[p].expected>>}
            BY <2>8 DEF ApproveMail
        <3>3. access' \subseteq Invitations \X Nat
            BY <2>0, <3>2 DEF TypeOK
        <3> QED
            BY <2>8, <3>1, <3>3 DEF TypeOK, ApproveMail
    <2>9. CASE ApproveVersion(p)
        BY <2>9, ReadVersionTypes DEF ApproveVersion, Steps
    <2>10. CASE ApproveAppend(p)
        BY <2>10, AppendTypes DEF TypeOK, ApproveAppend, Steps, EventTypes
    <2>11. CASE Accept(p)
        <3>1. PICK link \in access :
                proc' = [proc EXCEPT ![p].pc = "accept update", ![p].invitation = link[1]]
            BY <2>11 DEF Accept
        <3>2. link[1] \in Invitations
            BY DEF TypeOK
        <3>3. proc' \in [Procs -> Thread]
            BY <2>0, <3>1, <3>2 DEF TypeOK, Thread, Steps
        <3> QED
            BY <2>11, <3>3 DEF TypeOK, Accept
    <2>12. CASE AcceptUpdate(p)
        <3>1. proc' \in [Procs -> Thread]
            BY <2>12, GoToTypes DEF AcceptUpdate, Steps
        <3>2. row' \in [Invitations -> Row]
            BY <2>0, <2>12 DEF TypeOK, AcceptUpdate, Row, Statuses
        <3>3. \A i \in Invitations : row'[i].link > 0 => row'[i].status # "none"
            BY <2>0, <2>12 DEF TypeOK, AcceptUpdate, Row
        <3> QED
            BY <2>12, <3>1, <3>2, <3>3 DEF TypeOK, AcceptUpdate
    <2>13. CASE AcceptVersion(p)
        BY <2>13, ReadVersionTypes DEF AcceptVersion, Steps
    <2>14. CASE AcceptLoad(p)
        <3>1. proc' \in [Procs -> Thread]
            BY <2>14, GoToTypes DEF AcceptLoad, Steps
        <3> QED
            BY <2>14, <3>1 DEF TypeOK, AcceptLoad
    <2>15. CASE AcceptAppend(p)
        <3>1. stream' \in Seq(EventSet) /\ proc' \in [Procs -> Thread]
            BY <2>15, AppendTypes DEF AcceptAppend, Steps, EventTypes
        <3>2. members' \in Memberships
            BY <2>15, InvitationsAssumption DEF TypeOK, AcceptAppend, Memberships, MaybeRole, Thread
        <3> QED
            BY <2>15, <3>1, <3>2 DEF TypeOK, AcceptAppend
    <2>16. CASE AcceptToken(p)
        <3>1. proc' \in [Procs -> Thread]
            BY <2>16, GoToTypes DEF AcceptToken, Steps
        <3>2. tokens' = [tokens EXCEPT ![mine] = tokens[mine] + 1]
            BY <2>16 DEF AcceptToken
        <3>3. tokens \in [Invitations -> Nat]
            BY DEF TypeOK
        <3>4. tokens' \in [Invitations -> Nat]
            BY <2>0, <3>2, <3>3
        <3> QED
            BY <2>16, <3>1, <3>4 DEF TypeOK, AcceptToken
    <2>17. CASE AcceptSession(p)
        <3>1. proc' \in [Procs -> Thread]
            BY <2>17, GoToTypes DEF AcceptSession, Steps
        <3>2. sessions' = [sessions EXCEPT ![mine] = sessions[mine] + 1]
            BY <2>17 DEF AcceptSession
        <3>3. sessions \in [Invitations -> Nat]
            BY DEF TypeOK
        <3>4. sessions' \in [Invitations -> Nat]
            BY <2>0, <3>2, <3>3
        <3> QED
            BY <2>17, <3>1, <3>4 DEF TypeOK, AcceptSession
    <2>18. CASE Conflict(p)
        <3>1. proc' \in [Procs -> Thread]
            BY <2>18, GoToTypes DEF Conflict, Steps
        <3> QED
            BY <2>18, <3>1 DEF TypeOK, Conflict
    <2>19. CASE Crash(p)
        <3>1. proc' \in [Procs -> Thread]
            BY <2>19, GoToTypes DEF Crash, Steps
        <3> QED
            BY <2>19, <3>1 DEF TypeOK, Crash
    <2> QED
        BY <1>1, <2>1, <2>2, <2>3, <2>4, <2>5, <2>6, <2>7, <2>8, <2>9, <2>10, <2>11, <2>12,
           <2>13, <2>14, <2>15, <2>16, <2>17, <2>18, <2>19 DEF Handler
<1>2. CASE Reject
    <2>1. row' \in [Invitations -> Row]
        BY <1>2 DEF TypeOK, Reject, Row, Statuses
    <2>2. \A i \in Invitations : row'[i].link > 0 => row'[i].status # "none"
        BY <1>2 DEF TypeOK, Reject, Row
    <2> QED
        BY <1>2, <2>1, <2>2 DEF TypeOK, Reject
<1>3. CASE OtherCommand
    <2>1. stream' \in Seq(EventSet)
        BY <1>3 DEF TypeOK, OtherCommand, EventFor, EventSet, EventTypes
    <2>2. members' \in Memberships
        BY <1>3 DEF TypeOK, OtherCommand, Memberships, MaybeRole
    <2> QED
        BY <1>3, <2>1, <2>2 DEF TypeOK, OtherCommand
<1>4. CASE Expire
    BY <1>4 DEF TypeOK, Expire
<1>5. CASE UNCHANGED vars
    BY <1>5 DEF TypeOK, vars
<1> QED
    BY <1>1, <1>2, <1>3, <1>4, <1>5 DEF Next

\* Every row, link, event and thread of access by invitation is well formed,
\* and a row that was ever approved is there (auth.py, event_store.py).
THEOREM TypesHold == Spec => []TypeOK
<1>1. TypeOK /\ [Next]_vars => TypeOK'
    BY NextTypes
<1> QED
    BY <1>1, InitTypes, PTL DEF Spec

-----------------------------------------------------------------------------
(***************************************************************************)
(* A rejection is final.                                                   *)
(***************************************************************************)

\* A handler changes its own thread only.
LEMMA OthersUntouched ==
    ASSUME TypeOK, NEW p \in Procs, Handler(p), NEW q \in Procs, q # p
    PROVE  proc'[q] = proc[q]
<1>1. \E thread : proc' = [proc EXCEPT ![p] = thread]
    <2>1. CASE RequestAccess(p)
        BY <2>1 DEF RequestAccess
    <2>2. CASE ~RequestAccess(p)
        BY <2>2 DEF Handler, CreateInvitation, RequestVersion, RequestAppend, RequestMail,
            Approve, ApproveUpdate, ApproveMail, ApproveVersion, ApproveAppend, Accept,
            AcceptUpdate, AcceptVersion, AcceptLoad, AcceptAppend, AcceptToken, AcceptSession,
            Conflict, Crash, ReadVersion, AppendAtVersion, GoTo
    <2> QED
        BY <2>1, <2>2
<1> QED
    BY <1>1 DEF TypeOK

\* The steps that write a row back from memory.
Writing == {"request insert", "approve update", "accept update"}

\* A handler that leaves the row of i alone does not begin to write it.
LEMMA MovesOn ==
    ASSUME TypeOK, NEW p \in Procs, NEW step \in Steps \ Writing, GoTo(p, step),
           NEW i \in Invitations
    PROVE  proc'[p].pc \notin Writing
BY DEF TypeOK, GoTo, Thread

\* A rejected row that no thread is about to write stays so.
LEMMA RejectionStep ==
    ASSUME TypeOK, [Next]_vars, NEW i \in Invitations, row[i].status = "rejected", Quiet(i)
    PROVE  (row[i].status = "rejected" /\ Quiet(i))'
<1>1. ASSUME NEW p \in Procs, Handler(p)
      PROVE  (row[i].status = "rejected" /\ Quiet(i))'
    <2> DEFINE mine == proc[p].invitation
    <2>0. /\ mine \in Invitations /\ proc[p] \in Thread
          /\ mine = i => proc[p].pc \notin Writing
          /\ row \in [Invitations -> Row] /\ proc \in [Procs -> Thread]
        BY DEF TypeOK, Thread, Quiet, Writing
    <2>1. row'[i].status = "rejected"
        <3>1. CASE CreateInvitation(p) \/ ApproveUpdate(p) \/ AcceptUpdate(p)
            <4>1. mine # i
                BY <2>0, <3>1 DEF CreateInvitation, ApproveUpdate, AcceptUpdate, At, Writing
            <4>2. row'[i] = row[i]
                BY <2>0, <3>1, <4>1 DEF CreateInvitation, ApproveUpdate, AcceptUpdate
            <4> QED
                BY <4>2
        <3>2. CASE ~(CreateInvitation(p) \/ ApproveUpdate(p) \/ AcceptUpdate(p))
            BY <1>1, <3>2 DEF Handler, RequestAccess, RequestVersion, RequestAppend, RequestMail,
                Approve, ApproveMail, ApproveVersion, ApproveAppend, Accept,
                AcceptVersion, AcceptLoad, AcceptAppend, AcceptToken, AcceptSession,
                Conflict, Crash, ReadVersion
        <3> QED
            BY <3>1, <3>2
    <2>2. proc'[p].invitation = i => proc'[p].pc \notin Writing
        <3>1. CASE RequestAccess(p) \/ Approve(p) \/ Accept(p)
            <4>1. proc'[p].invitation # i
                <5>1. CASE RequestAccess(p)
                    <6>1. PICK j \in Invitations, approver \in Managers :
                            /\ row[j].status = "none"
                            /\ proc' = [proc EXCEPT ![p] =
                                        [pc |-> "request insert", invitation |-> j,
                                         approver |-> approver, expected |-> 0]]
                        BY <5>1 DEF RequestAccess
                    <6>2. proc'[p].invitation = j
                        BY <2>0, <6>1
                    <6> QED
                        BY <6>1, <6>2
                <5>2. CASE Approve(p)
                    BY <2>0, <5>2 DEF Approve, Usable, Thread
                <5>3. CASE Accept(p)
                    BY <2>0, <5>3 DEF Accept, Usable, Thread
                <5> QED
                    BY <3>1, <5>1, <5>2, <5>3
            <4> QED
                BY <4>1
        <3>2. CASE RequestVersion(p) \/ ApproveVersion(p) \/ AcceptVersion(p) \/ ApproveUpdate(p)
            <4>1. PICK step, n :
                    /\ step \in Steps \ Writing
                    /\ proc' = [proc EXCEPT ![p].pc = step, ![p].expected = n]
                BY <3>2 DEF RequestVersion, ApproveVersion, AcceptVersion, ReadVersion,
                    ApproveUpdate, Steps, Writing
            <4>2. proc'[p].pc = step
                BY <2>0, <4>1 DEF Thread
            <4> QED
                BY <4>1, <4>2
        <3>3. CASE \E step \in Steps \ Writing : GoTo(p, step)
            BY <3>3, MovesOn
        <3>4. \/ RequestAccess(p) \/ Approve(p) \/ Accept(p) \/ RequestVersion(p)
              \/ ApproveVersion(p) \/ AcceptVersion(p) \/ ApproveUpdate(p)
              \/ \E step \in Steps \ Writing : GoTo(p, step)
            BY <1>1 DEF Handler, CreateInvitation, RequestAppend, RequestMail, ApproveMail,
                ApproveAppend, AcceptUpdate, AcceptLoad, AcceptAppend, AcceptToken,
                AcceptSession, Conflict, Crash, AppendAtVersion, Steps, Writing
        <3> QED
            BY <3>1, <3>2, <3>3, <3>4
    <2>3. \A q \in Procs : proc'[q].invitation = i => proc'[q].pc \notin Writing
        BY <1>1, <2>2, OthersUntouched DEF Quiet, Writing
    <2> QED
        BY <2>1, <2>3 DEF Quiet, Writing
<1>2. CASE Reject
    BY <1>2 DEF Reject, Quiet, TypeOK, Row
<1>3. CASE OtherCommand \/ Expire
    BY <1>3 DEF OtherCommand, Expire, Quiet
<1>4. CASE UNCHANGED vars
    BY <1>4 DEF vars, Quiet
<1> QED
    BY <1>1, <1>2, <1>3, <1>4 DEF Next

\* Once no handler is left that had read the row before it was rejected, no
\* later link changes it (approve_invitation, reject_invitation,
\* accept_invitation).
THEOREM RejectionsFinal == Spec => RejectionIsFinal
<1>1. TypeOK /\ [Next]_vars =>
        [\A i \in Invitations :
            row[i].status = "rejected" /\ Quiet(i)
                => (row[i].status = "rejected" /\ Quiet(i))']_vars
    BY RejectionStep
<1> QED
    BY <1>1, TypesHold, PTL DEF Spec, RejectionIsFinal

-----------------------------------------------------------------------------
(***************************************************************************)
(* Grants are authorised.                                                  *)
(*                                                                         *)
(* A thread that is about to append a grant has looked at the approver's   *)
(* role at the version it expects.  That says something of the approver in *)
(* the row only because a row is inserted once, before anybody reads it,   *)
(* and no later statement changes its approver.                            *)
(***************************************************************************)
Begun(p) == proc[p].pc \notin {"idle", "request insert"}

RowsAreThere ==
    /\ \A p \in Procs : At(p, "request insert") =>
        /\ row[proc[p].invitation].status = "none"
        /\ \A q \in Procs \ {p} : At(q, "request insert") =>
                proc[q].invitation # proc[p].invitation
    /\ \A p \in Procs : Begun(p) => row[proc[p].invitation].status # "none"
    /\ \A i \in decisions : row[i].status # "none"

OnBehalfOfManager ==
    \A p \in Procs :
        /\ proc[p].pc \in {"accept load", "accept append"} => proc[p].expected <= Len(stream)
        /\ At(p, "accept append") /\ Len(stream) = proc[p].expected =>
                row[proc[p].invitation].approver \in Managers

\* Only request_access inserts a row, where there was none.
LEMMA RowsStay ==
    ASSUME TypeOK, RowsAreThere, NEW p \in Procs, Handler(p), ~CreateInvitation(p)
    PROVE  \A i \in Invitations : /\ row'[i].status = "none" <=> row[i].status = "none"
                                  /\ row'[i].approver = row[i].approver
<1> DEFINE mine == proc[p].invitation
<1>1. mine \in Invitations /\ row \in [Invitations -> Row]
    BY DEF TypeOK, Thread
<1>2. CASE ApproveUpdate(p)
    <2>1. row[mine].status # "none"
        BY <1>2 DEF RowsAreThere, Begun, ApproveUpdate, At
    <2>2. row' = [row EXCEPT ![mine].status = "approved", ![mine].link = row[mine].link + 1]
        BY <1>2 DEF ApproveUpdate
    <2> QED
        BY <1>1, <2>1, <2>2 DEF Row
<1>3. CASE AcceptUpdate(p)
    <2>1. row[mine].status # "none"
        BY <1>3 DEF RowsAreThere, Begun, AcceptUpdate, At
    <2>2. row' = [row EXCEPT ![mine].status = "accepted"]
        BY <1>3 DEF AcceptUpdate
    <2> QED
        BY <1>1, <2>1, <2>2 DEF Row
<1>4. CASE row' = row
    BY <1>4
<1>5. ApproveUpdate(p) \/ AcceptUpdate(p) \/ row' = row
    BY DEF Handler, RequestAccess, RequestVersion, RequestAppend, RequestMail,
        Approve, ApproveMail, ApproveVersion, ApproveAppend, Accept,
        AcceptVersion, AcceptLoad, AcceptAppend, AcceptToken, AcceptSession,
        Conflict, Crash, ReadVersion
<1> QED
    BY <1>2, <1>3, <1>4, <1>5

\* Of a thread that takes a step: it is at rest, or its row is there.
LEMMA ThreadHasRow ==
    ASSUME TypeOK, RowsAreThere, NEW p \in Procs, Handler(p), ~RequestAccess(p), ~CreateInvitation(p)
    PROVE  /\ proc'[p].pc # "request insert"
           /\ proc'[p].pc # "idle" => row[proc'[p].invitation].status # "none"
<1>1. proc \in [Procs -> Thread] /\ proc[p] \in Thread
    BY DEF TypeOK
<1>2. CASE Approve(p)
    BY <1>1, <1>2 DEF Approve, Usable, Thread
<1>3. CASE Accept(p)
    BY <1>1, <1>3 DEF Accept, Usable, Thread
<1>4. CASE RequestVersion(p) \/ ApproveVersion(p) \/ AcceptVersion(p) \/ ApproveUpdate(p)
    <2>1. PICK step, n :
            /\ step \in Steps \ {"request insert"}
            /\ proc' = [proc EXCEPT ![p].pc = step, ![p].expected = n]
        BY <1>4 DEF RequestVersion, ApproveVersion, AcceptVersion, ReadVersion,
            ApproveUpdate, Steps
    <2>2. proc'[p].pc = step /\ proc'[p].invitation = proc[p].invitation
        BY <1>1, <2>1 DEF Thread
    <2>3. Begun(p)
        BY <1>4 DEF RequestVersion, ApproveVersion, AcceptVersion, ReadVersion,
            ApproveUpdate, Begun, At
    <2> QED
        BY <2>1, <2>2, <2>3 DEF RowsAreThere
<1>5. CASE \E step \in Steps \ {"request insert"} : GoTo(p, step) /\ (Begun(p) \/ step = "idle")
    <2>1. PICK step \in Steps \ {"request insert"} : GoTo(p, step) /\ (Begun(p) \/ step = "idle")
        BY <1>5
    <2>2. proc'[p].pc = step /\ proc'[p].invitation = proc[p].invitation
        BY <1>1, <2>1 DEF GoTo, Thread
    <2> QED
        BY <2>1, <2>2 DEF RowsAreThere
<1>6. \/ Approve(p) \/ Accept(p) \/ RequestVersion(p) \/ ApproveVersion(p) \/ AcceptVersion(p)
      \/ ApproveUpdate(p)
      \/ \E step \in Steps \ {"request insert"} : GoTo(p, step) /\ (Begun(p) \/ step = "idle")
    BY DEF Handler, RequestAppend, RequestMail, ApproveMail,
        ApproveAppend, AcceptUpdate, AcceptLoad, AcceptAppend, AcceptToken,
        AcceptSession, Conflict, Crash, AppendAtVersion, Steps, Begun, At
<1> QED
    BY <1>2, <1>3, <1>4, <1>5, <1>6

\* Threads only ever hold rows that were inserted, and insert them once.
LEMMA RowsAreThereStep ==
    TypeOK /\ RowsAreThere /\ [Next]_vars => RowsAreThere'
<1> SUFFICES ASSUME TypeOK, RowsAreThere, [Next]_vars PROVE RowsAreThere'
    OBVIOUS
<1>0. TypeOK'
    BY NextTypes
<1>1. ASSUME NEW p \in Procs, Handler(p)
      PROVE  RowsAreThere'
    <2> DEFINE mine == proc[p].invitation
    <2>0. /\ mine \in Invitations /\ proc[p] \in Thread
          /\ row \in [Invitations -> Row] /\ proc \in [Procs -> Thread]
          /\ \A q \in Procs : proc[q].invitation \in Invitations /\ proc'[q].invitation \in Invitations
          /\ decisions \subseteq Invitations
          /\ \A q \in Procs : q # p => proc'[q] = proc[q]
        BY <1>0, <1>1, OthersUntouched DEF TypeOK, Thread
    <2>1. CASE RequestAccess(p)
        <3>1. PICK i \in Invitations, approver \in Managers :
                /\ row[i].status = "none"
                /\ \A q \in Procs \ {p} : At(q, "request insert") => proc[q].invitation # i
                /\ proc' = [proc EXCEPT ![p] =
                            [pc |-> "request insert", invitation |-> i,
                             approver |-> approver, expected |-> 0]]
            BY <2>1 DEF RequestAccess
        <3>2. proc'[p].pc = "request insert" /\ proc'[p].invitation = i
            BY <2>0, <3>1
        <3>3. row' = row /\ decisions' = decisions
            BY <2>1 DEF RequestAccess
        <3> QED
            BY <2>0, <3>1, <3>2, <3>3 DEF RowsAreThere, At, Begun
    <2>2. CASE CreateInvitation(p)
        <3>1. /\ proc'[p].pc = "request version" /\ proc'[p].invitation = mine
              /\ proc[p].pc = "request insert" /\ decisions' = decisions
            BY <2>0, <2>2 DEF CreateInvitation, GoTo, Thread, At
        <3>2. /\ row'[mine].status = "pending_approval"
              /\ \A i \in Invitations : i # mine => row'[i] = row[i]
            BY <2>0, <2>2 DEF CreateInvitation
        <3>3. \A q \in Procs : q # p /\ At(q, "request insert") => proc[q].invitation # mine
            BY <3>1 DEF RowsAreThere, At
        <3>4. ASSUME NEW q \in Procs, At(q, "request insert")'
              PROVE  /\ row'[proc'[q].invitation].status = "none"
                     /\ \A r \in Procs \ {q} : At(r, "request insert")' =>
                            proc'[r].invitation # proc'[q].invitation
            <4>1. q # p /\ proc'[q] = proc[q] /\ At(q, "request insert")
                BY <2>0, <3>1, <3>4 DEF At
            <4>2. \A r \in Procs : At(r, "request insert")' =>
                        r # p /\ proc'[r] = proc[r] /\ At(r, "request insert")
                BY <2>0, <3>1 DEF At
            <4>3. row'[proc[q].invitation] = row[proc[q].invitation]
                BY <2>0, <3>2, <3>3, <4>1
            <4> QED
                BY <4>1, <4>2, <4>3 DEF RowsAreThere
        <3>5. ASSUME NEW q \in Procs, Begun(q)'
              PROVE  row'[proc'[q].invitation].status # "none"
            <4>1. CASE q = p
                BY <3>1, <3>2, <4>1
            <4>2. CASE q # p
                <5>1. row[proc'[q].invitation].status # "none"
                    BY <2>0, <3>5, <4>2 DEF RowsAreThere, Begun
                <5> QED
                    BY <2>0, <3>2, <5>1
            <4> QED
                BY <4>1, <4>2
        <3>6. \A i \in decisions' : row'[i].status # "none"
            BY <2>0, <3>1, <3>2, <3>3 DEF RowsAreThere
        <3> QED
            BY <3>4, <3>5, <3>6 DEF RowsAreThere
    <2>3. CASE ~RequestAccess(p) /\ ~CreateInvitation(p)
        <3>1. \A i \in Invitations : row'[i].status = "none" <=> row[i].status = "none"
            BY <1>1, <2>3, RowsStay
        <3>2. /\ proc'[p].pc # "request insert"
              /\ proc'[p].pc # "idle" => row[proc'[p].invitation].status # "none"
            BY <1>1, <2>3, ThreadHasRow
        <3>3. \A i \in decisions' : row[i].status # "none"
            <4>1. CASE RequestMail(p)
                BY <2>0, <4>1 DEF RequestMail, RowsAreThere, Begun, At
            <4>2. CASE decisions' = decisions
                BY <4>2 DEF RowsAreThere
            <4>3. RequestMail(p) \/ decisions' = decisions
                BY <1>1 DEF Handler, RequestAccess, CreateInvitation, RequestVersion, RequestAppend,
                    Approve, ApproveUpdate, ApproveMail, ApproveVersion, ApproveAppend, Accept,
                    AcceptUpdate, AcceptVersion, AcceptLoad, AcceptAppend, AcceptToken,
                    AcceptSession, Conflict, Crash, ReadVersion
            <4> QED
                BY <4>1, <4>2, <4>3
        <3>4. decisions' \subseteq Invitations
            BY <1>0 DEF TypeOK
        <3>5. ASSUME NEW q \in Procs, At(q, "request insert")'
              PROVE  /\ row'[proc'[q].invitation].status = "none"
                     /\ \A r \in Procs \ {q} : At(r, "request insert")' =>
                            proc'[r].invitation # proc'[q].invitation
            <4>1. \A r \in Procs : At(r, "request insert")' =>
                        r # p /\ proc'[r] = proc[r] /\ At(r, "request insert")
                BY <2>0, <3>2 DEF At
            <4>2. row[proc'[q].invitation].status = "none"
                BY <3>5, <4>1 DEF RowsAreThere
            <4>3. row'[proc'[q].invitation].status = "none"
                BY <2>0, <3>1, <4>2
            <4> QED
                BY <3>5, <4>1, <4>3 DEF RowsAreThere
        <3>6. ASSUME NEW q \in Procs, Begun(q)'
              PROVE  row'[proc'[q].invitation].status # "none"
            <4>1. row[proc'[q].invitation].status # "none"
                BY <2>0, <3>2, <3>6 DEF RowsAreThere, Begun
            <4> QED
                BY <2>0, <3>1, <4>1
        <3>7. \A i \in decisions' : row'[i].status # "none"
            BY <2>0, <3>1, <3>2, <3>3, <3>4 DEF RowsAreThere
        <3> QED
            BY <3>5, <3>6, <3>7 DEF RowsAreThere
    <2> QED
        BY <2>1, <2>2, <2>3
<1>2. CASE Reject
    <2>1. PICK i \in decisions : row' = [row EXCEPT ![i].status = "rejected"]
        BY <1>2 DEF Reject
    <2>2. /\ row \in [Invitations -> Row] /\ i \in Invitations /\ row[i].status # "none"
          /\ \A q \in Procs : proc[q].invitation \in Invitations
          /\ decisions \subseteq Invitations /\ decisions' = decisions /\ proc' = proc
        BY <1>2 DEF TypeOK, Thread, RowsAreThere, Reject
    <2>3. \A j \in Invitations : row'[j].status = "none" <=> row[j].status = "none"
        BY <2>1, <2>2 DEF Row
    <2> QED
        BY <2>2, <2>3 DEF RowsAreThere, At, Begun
<1>3. CASE OtherCommand \/ Expire
    BY <1>3 DEF OtherCommand, Expire, RowsAreThere, At, Begun
<1>4. CASE UNCHANGED vars
    BY <1>4 DEF vars, RowsAreThere, At, Begun
<1> QED
    BY <1>1, <1>2, <1>3, <1>4 DEF Next

\* The memberships change only with the stream.
LEMMA StreamGrows ==
    ASSUME TypeOK, [Next]_vars
    PROVE  /\ Len(stream) \in Nat
           /\ \/ stream' = stream /\ members' = members
              \/ Len(stream') = Len(stream) + 1
<1>1. stream \in Seq(EventSet) /\ Len(stream) \in Nat
    BY DEF TypeOK
<1>2. \/ stream' = stream /\ members' = members
      \/ \E e : stream' = Append(stream, e)
    BY DEF Next, vars, Handler, RequestAccess, CreateInvitation, RequestVersion, RequestAppend,
        RequestMail, Approve, ApproveUpdate, ApproveMail, ApproveVersion, ApproveAppend,
        Accept, AcceptUpdate, AcceptVersion, AcceptLoad, AcceptAppend, AcceptToken,
        AcceptSession, Conflict, Crash, ReadVersion, AppendAtVersion,
        Reject, OtherCommand, Expire
<1>3. \A e : Len(Append(stream, e)) = Len(stream) + 1
    BY <1>1
<1> QED
    BY <1>1, <1>2, <1>3

\* Whoever the bus lets manage memberships is an admin or the creator.
LEMMA ManagersManage ==
    ASSUME NEW u \in Users, HasPermission(members[u], "membership.manage")
    PROVE  u \in Managers
<1>1. "membership.manage" \in Permission
    BY DEF Permission, ManagePermissions
<1>2. PERMISSIONS["membership.manage"] = {"admin", "creator"}
    BY <1>1 DEF PERMISSIONS, ReadPermissions, WorkPermissions, ManagePermissions
<1> QED
    BY <1>2 DEF HasPermission, Managers

\* The approver of a row, and of a thread about to grant, is a manager still.
LEMMA OnBehalfStep ==
    TypeOK /\ RowsAreThere /\ OnBehalfOfManager /\ [Next]_vars => OnBehalfOfManager'
<1> SUFFICES ASSUME TypeOK, RowsAreThere, OnBehalfOfManager, [Next]_vars,
                    NEW q \in Procs
             PROVE  /\ proc'[q].pc \in {"accept load", "accept append"} =>
                            proc'[q].expected <= Len(stream')
                    /\ proc'[q].pc = "accept append" /\ Len(stream') = proc'[q].expected =>
                            row'[proc'[q].invitation].approver \in Managers'
    BY DEF OnBehalfOfManager, At
<1>0. /\ proc[q] \in Thread /\ proc[q].invitation \in Invitations /\ proc[q].expected \in Nat
      /\ row[proc[q].invitation].approver \in Users
      /\ proc \in [Procs -> Thread] /\ row \in [Invitations -> Row] /\ Len(stream) \in Nat
    BY StreamGrows DEF TypeOK, Thread, Row
<1>1. ASSUME proc'[q] = proc[q],
             Begun(q) => row'[proc[q].invitation].approver = row[proc[q].invitation].approver
      PROVE  /\ proc'[q].pc \in {"accept load", "accept append"} =>
                    proc'[q].expected <= Len(stream')
             /\ proc'[q].pc = "accept append" /\ Len(stream') = proc'[q].expected =>
                    row'[proc'[q].invitation].approver \in Managers'
    <2>1. CASE stream' = stream /\ members' = members
        BY <1>1, <2>1 DEF OnBehalfOfManager, At, Begun, Managers
    <2>2. CASE Len(stream') = Len(stream) + 1
        <3>0. proc[q].expected \in Nat /\ Len(stream) \in Nat
            BY <1>0
        <3>1. proc[q].pc \in {"accept load", "accept append"} =>
                    proc[q].expected <= Len(stream)
            BY DEF OnBehalfOfManager
        <3>2. ASSUME proc[q].expected <= Len(stream)
              PROVE  proc[q].expected <= Len(stream') /\ proc[q].expected # Len(stream')
            BY <2>2, <3>0, <3>2
        <3> QED
            BY <1>1, <3>1, <3>2
    <2> QED
        BY <2>1, <2>2, StreamGrows
<1>2. CASE Handler(q)
    <2>1. CASE AcceptVersion(q)
        <3>1. proc' = [proc EXCEPT ![q].pc = "accept load", ![q].expected = Len(stream)]
            BY <2>1 DEF AcceptVersion, ReadVersion
        <3>2. proc'[q].pc = "accept load" /\ proc'[q].expected = Len(stream)
            BY <1>0, <3>1 DEF Thread
        <3>3. Len(stream') = Len(stream)
            BY <2>1 DEF AcceptVersion, ReadVersion
        <3>4. proc'[q].expected <= Len(stream')
            <4>1. Len(stream) \in Nat /\ proc'[q].expected = Len(stream)
                BY <1>0, <3>2
            <4> QED
                BY <3>3, <4>1
        <3> QED
            BY <3>2, <3>4
    <2>2. CASE AcceptLoad(q)
        <3>1. /\ proc'[q].expected = proc[q].expected /\ proc'[q].invitation = proc[q].invitation
              /\ proc'[q].pc = IF HasPermission(members[row[proc[q].invitation].approver],
                                                "membership.manage")
                               THEN "accept append" ELSE "idle"
            BY <1>0, <2>2 DEF AcceptLoad, GoTo, Thread
        <3>2. stream' = stream /\ members' = members /\ row' = row
            BY <2>2 DEF AcceptLoad
        <3>3. proc[q].expected <= Len(stream)
            BY <2>2 DEF AcceptLoad, At, OnBehalfOfManager
        <3>4. CASE HasPermission(members[row[proc[q].invitation].approver], "membership.manage")
            BY <1>0, <3>1, <3>2, <3>3, <3>4, ManagersManage DEF Managers
        <3>5. CASE ~HasPermission(members[row[proc[q].invitation].approver], "membership.manage")
            BY <3>1, <3>5
        <3> QED
            BY <3>4, <3>5
    <2>3. CASE ~AcceptVersion(q) /\ ~AcceptLoad(q)
        <3> DEFINE Elsewhere == Steps \ {"accept load", "accept append"}
        <3>1. \/ RequestAccess(q)
              \/ \E step \in Elsewhere : \E i :
                      proc' = [proc EXCEPT ![q].pc = step, ![q].invitation = i]
              \/ \E step \in Elsewhere : \E n :
                      proc' = [proc EXCEPT ![q].pc = step, ![q].expected = n]
              \/ \E step \in Elsewhere : proc' = [proc EXCEPT ![q].pc = step]
            BY <1>2, <2>3 DEF Handler, CreateInvitation, RequestVersion, RequestAppend,
                RequestMail, Approve, ApproveUpdate, ApproveMail, ApproveVersion, ApproveAppend,
                Accept, AcceptUpdate, AcceptAppend, AcceptToken, AcceptSession, Conflict, Crash,
                ReadVersion, AppendAtVersion, GoTo, Steps
        <3>2. CASE RequestAccess(q)
            <4>1. PICK i, approver :
                    proc' = [proc EXCEPT ![q] = [pc |-> "request insert", invitation |-> i,
                                                 approver |-> approver, expected |-> 0]]
                BY <3>2 DEF RequestAccess
            <4>2. proc'[q].pc = "request insert"
                BY <1>0, <4>1
            <4> QED
                BY <4>2
        <3>3. CASE ~RequestAccess(q)
            <4>1. proc'[q].pc \in Elsewhere
                BY <1>0, <3>1, <3>3 DEF Thread
            <4> QED
                BY <4>1
        <3> QED
            BY <3>2, <3>3
    <2> QED
        BY <2>1, <2>2, <2>3
<1>3. ASSUME NEW p \in Procs, Handler(p), p # q
      PROVE  /\ proc'[q] = proc[q]
             /\ Begun(q) => row'[proc[q].invitation].approver = row[proc[q].invitation].approver
    <2>1. proc'[q] = proc[q]
        BY <1>3, OthersUntouched
    <2>2. CASE CreateInvitation(p)
        <3>1. row[proc[p].invitation].status = "none"
            BY <2>2 DEF CreateInvitation, RowsAreThere
        <3>2. Begun(q) => proc[p].invitation # proc[q].invitation
            BY <3>1 DEF RowsAreThere
        <3> QED
            BY <1>0, <2>1, <2>2, <3>2 DEF CreateInvitation
    <2>3. CASE ~CreateInvitation(p)
        BY <1>0, <1>3, <2>1, <2>3, RowsStay
    <2> QED
        BY <2>2, <2>3
<1>4. CASE Reject
    <2>1. PICK i \in decisions : row' = [row EXCEPT ![i].status = "rejected"]
        BY <1>4 DEF Reject
    <2>2. row'[proc[q].invitation].approver = row[proc[q].invitation].approver
        BY <1>0, <2>1 DEF Row
    <2> QED
        BY <1>1, <1>4, <2>2 DEF Reject
<1>5. CASE OtherCommand \/ Expire \/ UNCHANGED vars
    BY <1>1, <1>5 DEF OtherCommand, Expire, vars
<1> QED
    BY <1>1, <1>2, <1>3, <1>4, <1>5 DEF Next

\* The inductive invariant.
IInv == TypeOK /\ RowsAreThere /\ OnBehalfOfManager

\* What a step relies on: rows are inserted once and before they are read,
\* and who grants was found to be a manager at the version expected.
THEOREM InvariantHolds == Spec => []IInv
<1>1. Init => IInv
    <2> SUFFICES ASSUME Init PROVE IInv
        OBVIOUS
    <2>1. \A p \in Procs : proc[p].pc = "idle"
        BY DEF Init
    <2>2. decisions = {}
        BY DEF Init
    <2> QED
        BY <2>1, <2>2, InitTypes DEF IInv, RowsAreThere, OnBehalfOfManager, At, Begun
<1>2. IInv /\ [Next]_vars => IInv'
    BY NextTypes, RowsAreThereStep, OnBehalfStep DEF IInv
<1> QED
    BY <1>1, <1>2, PTL DEF Spec

\* Only an event that grants the membership of i adds to the grants of i.
LEMMA GrantsOfAppend ==
    ASSUME stream \in Seq(EventSet), NEW e, e \in EventSet, stream' = Append(stream, e),
           NEW i \in Invitations
    PROVE  /\ Grants(i) \in Nat
           /\ Grants(i)' = IF e = EventFor("MembershipGranted", i) THEN Grants(i) + 1
                           ELSE Grants(i)
<1> DEFINE granted == EventFor("MembershipGranted", i)
           old == {v \in 1 .. Len(stream) : stream[v] = granted}
           new == {v \in 1 .. Len(stream') : stream'[v] = granted}
           top == Len(stream) + 1
<1>1. /\ Len(stream) \in Nat /\ Len(stream') = top /\ stream'[top] = e
      /\ \A v \in 1 .. Len(stream) : stream'[v] = stream[v]
    OBVIOUS
<1>2. IsFiniteSet(old) /\ top \notin old /\ Cardinality(old) \in Nat
    <2>1. IsFiniteSet(1 .. Len(stream))
        BY <1>1, FS_Interval
    <2>2. IsFiniteSet(old)
        BY <2>1, FS_Subset
    <2> QED
        BY <1>1, <2>2, FS_CardinalityType
<1>3. new = IF e = granted THEN old \cup {top} ELSE old
    BY <1>1
<1>4. Cardinality(old \cup {top}) = Cardinality(old) + 1
    BY <1>2, FS_AddElement
<1>5. Grants(i) = Cardinality(old) /\ Grants(i)' = Cardinality(new)
    BY DEF Grants, EventFor
<1> QED
    BY <1>2, <1>3, <1>4, <1>5

\* The grants of an invitation are counted from a finite stream.
LEMMA GrantsAreNaturals ==
    ASSUME TypeOK, NEW i \in Invitations
    PROVE  Grants(i) \in Nat
<1>1. IsFiniteSet(1 .. Len(stream))
    BY FS_Interval DEF TypeOK
<1>2. IsFiniteSet({v \in 1 .. Len(stream) : stream[v] = EventFor("MembershipGranted", i)})
    BY <1>1, FS_Subset
<1> QED
    BY <1>2, FS_CardinalityType DEF Grants

\* The steps that append, with what they append.
LEMMA Appends ==
    ASSUME TypeOK, [Next]_vars
    PROVE  \/ stream' = stream
           \/ \E p \in Procs : AcceptAppend(p)
           \/ \E e \in EventSet : stream' = Append(stream, e) /\ e.type # "MembershipGranted"
<1>1. ASSUME NEW p \in Procs, RequestAppend(p) \/ ApproveAppend(p)
      PROVE  \E e \in EventSet : stream' = Append(stream, e) /\ e.type # "MembershipGranted"
    <2>1. proc[p].invitation \in Invitations
        BY DEF TypeOK, Thread
    <2>2. PICK type \in EventTypes \ {"MembershipGranted"} :
            stream' = Append(stream, EventFor(type, proc[p].invitation))
        BY <1>1 DEF RequestAppend, ApproveAppend, AppendAtVersion, EventTypes
    <2>3. /\ EventFor(type, proc[p].invitation) \in EventSet
          /\ EventFor(type, proc[p].invitation).type = type
        BY <2>1 DEF EventFor, EventSet
    <2> QED
        BY <2>2, <2>3
<1>2. CASE OtherCommand
    <2>1. PICK i \in Invitations : stream' = Append(stream, EventFor("Other", i))
        BY <1>2 DEF OtherCommand
    <2>2. EventFor("Other", i) \in EventSet /\ EventFor("Other", i).type = "Other"
        BY DEF EventFor, EventSet, EventTypes
    <2> QED
        BY <2>1, <2>2
<1>3. \/ stream' = stream \/ OtherCommand
      \/ \E p \in Procs : RequestAppend(p) \/ ApproveAppend(p) \/ AcceptAppend(p)
    BY DEF Next, vars, Handler, RequestAccess, CreateInvitation, RequestVersion,
        RequestMail, Approve, ApproveUpdate, ApproveMail, ApproveVersion,
        Accept, AcceptUpdate, AcceptVersion, AcceptLoad, AcceptToken,
        AcceptSession, Conflict, Crash, ReadVersion, Reject, Expire
<1> QED
    BY <1>1, <1>2, <1>3

\* A grant is stored only on behalf of somebody who manages the project at
\* that moment (AuthService.accept, CommandBus.execute).
THEOREM GrantsAreAuthorised == Spec => GrantsAuthorised
<1>1. ASSUME IInv, [Next]_vars, NEW i \in Invitations, Grants(i)' > Grants(i)
      PROVE  row[i].approver \in Managers
    <2>0. Grants(i) \in Nat /\ stream \in Seq(EventSet)
        BY <1>1, GrantsAreNaturals DEF IInv, TypeOK
    <2>1. CASE stream' = stream
        <3>1. Grants(i)' = Grants(i)
            BY <2>1 DEF Grants
        <3> QED
            BY <1>1, <2>0, <3>1
    <2>2. ASSUME NEW p \in Procs, AcceptAppend(p)
          PROVE  row[i].approver \in Managers
        <3> DEFINE mine == proc[p].invitation
        <3>1. /\ mine \in Invitations /\ stream' = Append(stream, EventFor("MembershipGranted", mine))
              /\ At(p, "accept append") /\ Len(stream) = proc[p].expected
            BY <1>1, <2>2 DEF AcceptAppend, AppendAtVersion, IInv, TypeOK, Thread
        <3>2. EventFor("MembershipGranted", mine) \in EventSet
            BY <3>1 DEF EventFor, EventSet, EventTypes
        <3>3. EventFor("MembershipGranted", mine) = EventFor("MembershipGranted", i)
            <4>1. Grants(i)' = IF EventFor("MembershipGranted", mine) = EventFor("MembershipGranted", i)
                              THEN Grants(i) + 1 ELSE Grants(i)
                BY <2>0, <3>1, <3>2, GrantsOfAppend
            <4> QED
                BY <1>1, <2>0, <4>1
        <3>4. mine = i
            BY <3>3 DEF EventFor
        <3> QED
            BY <1>1, <3>1, <3>4 DEF IInv, OnBehalfOfManager
    <2>3. ASSUME NEW e \in EventSet, stream' = Append(stream, e), e.type # "MembershipGranted"
          PROVE  FALSE
        <3>1. e # EventFor("MembershipGranted", i)
            BY <2>3 DEF EventFor
        <3> QED
            BY <1>1, <2>0, <2>3, <3>1, GrantsOfAppend
    <2> QED
        BY <1>1, <2>1, <2>2, <2>3, Appends DEF IInv
<1>2. IInv /\ [Next]_vars =>
        [\A i \in Invitations : Grants(i)' > Grants(i) => row[i].approver \in Managers]_vars
    BY <1>1
<1> QED
    BY <1>2, InvariantHolds, PTL DEF Spec, GrantsAuthorised

-----------------------------------------------------------------------------
(***************************************************************************)
(* Accounts follow grants.                                                 *)
(*                                                                         *)
(* A grant is followed by a token and a token by a session in the same     *)
(* thread, so the threads that are between two of these statements count   *)
(* as well; a crash only takes such a thread away.                         *)
(***************************************************************************)
Between(step, i) == {p \in Procs : At(p, step) /\ proc[p].invitation = i}

AccountsPending ==
    \A i \in Invitations :
        /\ tokens[i] + Cardinality(Between("accept token", i)) <= Grants(i)
        /\ sessions[i] + Cardinality(Between("accept session", i)) <= tokens[i]

\* One thread enters or leaves a set of waiting threads at a time.
LEMMA BetweenChanges ==
    ASSUME NEW p \in Procs, \A q \in Procs : q # p => proc'[q] = proc[q], NEW step, NEW i
    PROVE  /\ Cardinality(Between(step, i)) \in Nat /\ Cardinality(Between(step, i)') \in Nat
           /\ IF proc'[p].pc = step /\ proc'[p].invitation = i
              THEN Cardinality(Between(step, i)') <= Cardinality(Between(step, i)) + 1
              ELSE IF At(p, step) /\ proc[p].invitation = i
              THEN Cardinality(Between(step, i)') = Cardinality(Between(step, i)) - 1
              ELSE Cardinality(Between(step, i)') <= Cardinality(Between(step, i))
<1> DEFINE old == Between(step, i)
           new == Between(step, i)'
<1>1. IsFiniteSet(old) /\ Cardinality(old) \in Nat
    BY InvitationsAssumption, FS_Subset, FS_CardinalityType DEF Between
<1>2. IsFiniteSet(new) /\ Cardinality(new) \in Nat
    BY InvitationsAssumption, FS_Subset, FS_CardinalityType DEF Between
<1>3. new = IF proc'[p].pc = step /\ proc'[p].invitation = i THEN old \cup {p} ELSE old \ {p}
    BY DEF Between, At
<1>4. p \in old <=> At(p, step) /\ proc[p].invitation = i
    BY DEF Between
<1>5. /\ Cardinality(old \cup {p}) = IF p \in old THEN Cardinality(old) ELSE Cardinality(old) + 1
      /\ Cardinality(old \ {p}) = IF p \in old THEN Cardinality(old) - 1 ELSE Cardinality(old)
    BY <1>1, FS_AddElement, FS_RemoveElement
<1> QED
    BY <1>1, <1>2, <1>3, <1>4, <1>5

\* Events are never removed, so the grants of an invitation never shrink.
LEMMA GrantsGrow ==
    ASSUME TypeOK, [Next]_vars, NEW i \in Invitations
    PROVE  Grants(i)' \in Nat /\ Grants(i)' >= Grants(i)
<1>0. Grants(i) \in Nat /\ stream \in Seq(EventSet)
    BY GrantsAreNaturals DEF TypeOK
<1>1. CASE stream' = stream
    <2>1. Grants(i)' = Grants(i)
        BY <1>1 DEF Grants
    <2> QED
        BY <1>0, <2>1
<1>2. ASSUME NEW e \in EventSet, stream' = Append(stream, e)
      PROVE  Grants(i)' \in Nat /\ Grants(i)' >= Grants(i)
    <2>1. Grants(i)' = Grants(i) \/ Grants(i)' = Grants(i) + 1
        BY <1>0, <1>2, GrantsOfAppend
    <2> QED
        BY <1>0, <2>1
<1>3. ASSUME NEW p \in Procs, AcceptAppend(p)
      PROVE  Grants(i)' \in Nat /\ Grants(i)' >= Grants(i)
    <2>1. EventFor("MembershipGranted", proc[p].invitation) \in EventSet
        BY DEF TypeOK, Thread, EventFor, EventSet, EventTypes
    <2> QED
        BY <1>2, <1>3, <2>1 DEF AcceptAppend, AppendAtVersion
<1> QED
    BY <1>1, <1>2, <1>3, Appends

\* Granting, handing out a token and opening a session each move one thread on.
LEMMA AccountsStep ==
    TypeOK /\ AccountsPending /\ [Next]_vars => AccountsPending'
<1> SUFFICES ASSUME TypeOK, AccountsPending, [Next]_vars, NEW i \in Invitations
             PROVE  /\ tokens'[i] + Cardinality(Between("accept token", i)') <= Grants(i)'
                    /\ sessions'[i] + Cardinality(Between("accept session", i)') <= tokens'[i]
    BY DEF AccountsPending
<1> DEFINE waiting == Cardinality(Between("accept token", i))
           newWaiting == Cardinality(Between("accept token", i)')
           leaving == Cardinality(Between("accept session", i))
           newLeaving == Cardinality(Between("accept session", i)')
           granted == Grants(i)
           newGranted == Grants(i)'
<1>0. /\ tokens[i] \in Nat /\ sessions[i] \in Nat
      /\ granted \in Nat /\ newGranted \in Nat /\ newGranted >= granted
      /\ tokens[i] + waiting <= granted
      /\ sessions[i] + leaving <= tokens[i]
    BY GrantsAreNaturals, GrantsGrow DEF TypeOK, AccountsPending
<1> HIDE DEF waiting, newWaiting, leaving, newLeaving, granted, newGranted
<1>1. ASSUME NEW p \in Procs, Handler(p)
      PROVE  /\ tokens'[i] + newWaiting <= newGranted
             /\ sessions'[i] + newLeaving <= tokens'[i]
    <2> DEFINE mine == proc[p].invitation
    <2>0. /\ mine \in Invitations /\ proc[p] \in Thread
          /\ proc \in [Procs -> Thread]
          /\ tokens \in [Invitations -> Nat] /\ sessions \in [Invitations -> Nat]
          /\ \A q \in Procs : q # p => proc'[q] = proc[q]
        BY <1>1, OthersUntouched DEF TypeOK, Thread
    <2> HIDE DEF mine
    <2>1. CASE AcceptAppend(p)
        <3>1. /\ proc'[p].pc = "accept token" /\ proc'[p].invitation = mine
              /\ proc[p].pc = "accept append"
            BY <2>0, <2>1 DEF AcceptAppend, AppendAtVersion, GoTo, At, Thread, mine
        <3>2. tokens' = tokens /\ sessions' = sessions
            BY <2>1 DEF AcceptAppend
        <3>3. mine = i => newGranted = granted + 1
            <4>1. EventFor("MembershipGranted", mine) \in EventSet
                BY <2>0 DEF EventFor, EventSet, EventTypes
            <4>2. stream' = Append(stream, EventFor("MembershipGranted", mine))
                BY <2>1 DEF AcceptAppend, AppendAtVersion, mine
            <4> QED
                BY <4>1, <4>2, GrantsOfAppend DEF TypeOK, granted, newGranted
        <3>4. /\ waiting \in Nat /\ newWaiting \in Nat
              /\ IF mine = i THEN newWaiting <= waiting + 1 ELSE newWaiting <= waiting
            BY <2>0, <3>1, BetweenChanges DEF At, waiting, newWaiting
        <3>5. leaving \in Nat /\ newLeaving \in Nat /\ newLeaving <= leaving
            BY <2>0, <3>1, BetweenChanges DEF At, leaving, newLeaving
        <3> QED
            BY <1>0, <3>2, <3>3, <3>4, <3>5
    <2>2. CASE AcceptToken(p)
        <3>1. /\ proc'[p].pc = "accept session" /\ proc'[p].invitation = mine
              /\ proc[p].pc = "accept token" /\ proc[p].invitation = mine
            BY <2>0, <2>2 DEF AcceptToken, GoTo, At, Thread, mine
        <3>2. /\ tokens'[i] = IF mine = i THEN tokens[i] + 1 ELSE tokens[i]
              /\ sessions' = sessions
            BY <2>0, <2>2 DEF AcceptToken, mine
        <3>3. /\ waiting \in Nat /\ newWaiting \in Nat
              /\ IF mine = i THEN newWaiting = waiting - 1 ELSE newWaiting <= waiting
            BY <2>0, <3>1, BetweenChanges DEF At, waiting, newWaiting
        <3>4. /\ leaving \in Nat /\ newLeaving \in Nat
              /\ IF mine = i THEN newLeaving <= leaving + 1 ELSE newLeaving <= leaving
            BY <2>0, <3>1, BetweenChanges DEF At, leaving, newLeaving
        <3> QED
            BY <1>0, <3>2, <3>3, <3>4
    <2>3. CASE AcceptSession(p)
        <3>1. /\ proc'[p].pc = "idle" /\ proc[p].pc = "accept session"
              /\ proc[p].invitation = mine
            BY <2>0, <2>3 DEF AcceptSession, GoTo, At, Thread, mine
        <3>2. /\ sessions'[i] = IF mine = i THEN sessions[i] + 1 ELSE sessions[i]
              /\ tokens' = tokens
            BY <2>0, <2>3 DEF AcceptSession, mine
        <3>3. waiting \in Nat /\ newWaiting \in Nat /\ newWaiting <= waiting
            BY <2>0, <3>1, BetweenChanges DEF At, waiting, newWaiting
        <3>4. /\ leaving \in Nat /\ newLeaving \in Nat
              /\ IF mine = i THEN newLeaving = leaving - 1 ELSE newLeaving <= leaving
            BY <2>0, <3>1, BetweenChanges DEF At, leaving, newLeaving
        <3> QED
            BY <1>0, <3>2, <3>3, <3>4
    <2>4. CASE ~AcceptAppend(p) /\ ~AcceptToken(p) /\ ~AcceptSession(p)
        <3> DEFINE Elsewhere == Steps \ {"accept token", "accept session"}
        <3>1. proc'[p].pc \in Elsewhere
            <4>1. \/ RequestAccess(p)
                  \/ \E step \in Elsewhere : \E j :
                          proc' = [proc EXCEPT ![p].pc = step, ![p].invitation = j]
                  \/ \E step \in Elsewhere : \E n :
                          proc' = [proc EXCEPT ![p].pc = step, ![p].expected = n]
                  \/ \E step \in Elsewhere : proc' = [proc EXCEPT ![p].pc = step]
                BY <1>1, <2>4 DEF Handler, CreateInvitation, RequestVersion, RequestAppend,
                    RequestMail, Approve, ApproveUpdate, ApproveMail, ApproveVersion, ApproveAppend,
                    Accept, AcceptUpdate, AcceptVersion, AcceptLoad, Conflict, Crash,
                    ReadVersion, AppendAtVersion, GoTo, Steps
            <4>2. CASE RequestAccess(p)
                <5>1. PICK j, approver :
                        proc' = [proc EXCEPT ![p] = [pc |-> "request insert", invitation |-> j,
                                                     approver |-> approver, expected |-> 0]]
                    BY <4>2 DEF RequestAccess
                <5>2. proc'[p].pc = "request insert"
                    BY <2>0, <5>1
                <5> QED
                    BY <5>2 DEF Steps
            <4>3. CASE ~RequestAccess(p)
                BY <2>0, <4>1, <4>3 DEF Thread
            <4> QED
                BY <4>2, <4>3
        <3>2. tokens' = tokens /\ sessions' = sessions
            BY <1>1, <2>4 DEF Handler, RequestAccess, CreateInvitation, RequestVersion,
                RequestAppend, RequestMail, Approve, ApproveUpdate, ApproveMail, ApproveVersion,
                ApproveAppend, Accept, AcceptUpdate, AcceptVersion, AcceptLoad, Conflict, Crash,
                ReadVersion
        <3>3. waiting \in Nat /\ newWaiting \in Nat /\ newWaiting <= waiting
            <4>0. proc'[p].pc # "accept token"
                BY <3>1
            <4>1. /\ waiting \in Nat /\ newWaiting \in Nat
                  /\ newWaiting = waiting - 1 \/ newWaiting <= waiting
                BY <2>0, <4>0, BetweenChanges DEF At, waiting, newWaiting
            <4> QED
                BY <4>1
        <3>4. leaving \in Nat /\ newLeaving \in Nat /\ newLeaving <= leaving
            <4>0. proc'[p].pc # "accept session"
                BY <3>1
            <4>1. /\ leaving \in Nat /\ newLeaving \in Nat
                  /\ newLeaving = leaving - 1 \/ newLeaving <= leaving
                BY <2>0, <4>0, BetweenChanges DEF At, leaving, newLeaving
            <4> QED
                BY <4>1
        <3> QED
            BY <1>0, <3>2, <3>3, <3>4
    <2> QED
        BY <2>1, <2>2, <2>3, <2>4
<1>2. ASSUME Reject \/ OtherCommand \/ Expire \/ UNCHANGED vars
      PROVE  tokens'[i] + newWaiting <= newGranted /\ sessions'[i] + newLeaving <= tokens'[i]
    <2>1. proc' = proc /\ tokens' = tokens /\ sessions' = sessions
        BY <1>2 DEF Reject, OtherCommand, Expire, vars
    <2>2. newWaiting = waiting /\ newLeaving = leaving
        BY <2>1 DEF Between, At, waiting, newWaiting, leaving, newLeaving
    <2>3. waiting \in Nat
        BY InvitationsAssumption, FS_Subset, FS_CardinalityType DEF Between, waiting
    <2>4. tokens'[i] = tokens[i] /\ sessions'[i] = sessions[i]
        BY <2>1
    <2> QED
        BY <1>0, <2>2, <2>3, <2>4
<1> QED
    BY <1>1, <1>2 DEF Next, newWaiting, newLeaving, newGranted

\* A token is handed out only for a membership that was granted, and a session
\* only for a token, whatever crashes or conflicts (AuthService.accept).
THEOREM AccountsAreGranted == Spec => []AccountsFollowGrants
<1>1. Init => AccountsPending
    <2> SUFFICES ASSUME Init, NEW i \in Invitations
                 PROVE  /\ tokens[i] + Cardinality(Between("accept token", i)) <= Grants(i)
                        /\ sessions[i] + Cardinality(Between("accept session", i)) <= tokens[i]
        BY DEF AccountsPending
    <2> DEFINE waiting == Cardinality(Between("accept token", i))
               leaving == Cardinality(Between("accept session", i))
               granted == Grants(i)
    <2>1. Between("accept token", i) = {} /\ Between("accept session", i) = {}
        BY DEF Init, Between, At
    <2>2. tokens[i] = 0 /\ sessions[i] = 0 /\ granted \in Nat
        BY InitTypes, GrantsAreNaturals DEF Init
    <2>3. waiting = 0 /\ leaving = 0
        BY <2>1, FS_EmptySet
    <2> HIDE DEF waiting, leaving, granted
    <2>4. tokens[i] + waiting <= granted /\ sessions[i] + leaving <= tokens[i]
        BY <2>2, <2>3
    <2> QED
        BY <2>4 DEF waiting, leaving, granted
<1>2. TypeOK /\ AccountsPending => AccountsFollowGrants
    <2> SUFFICES ASSUME TypeOK, AccountsPending, NEW i \in Invitations
                 PROVE  sessions[i] <= tokens[i] /\ tokens[i] <= Grants(i)
        BY DEF AccountsFollowGrants
    <2> DEFINE waiting == Cardinality(Between("accept token", i))
               leaving == Cardinality(Between("accept session", i))
               granted == Grants(i)
    <2>1. waiting \in Nat /\ leaving \in Nat
        BY InvitationsAssumption, FS_Subset, FS_CardinalityType DEF Between
    <2>2. tokens[i] \in Nat /\ sessions[i] \in Nat /\ granted \in Nat
        BY GrantsAreNaturals DEF TypeOK
    <2>3. tokens[i] + waiting <= granted /\ sessions[i] + leaving <= tokens[i]
        BY DEF AccountsPending
    <2> HIDE DEF waiting, leaving, granted
    <2>4. sessions[i] <= tokens[i] /\ tokens[i] <= granted
        BY <2>1, <2>2, <2>3
    <2> QED
        BY <2>4 DEF granted
<1> QED
    BY <1>1, <1>2, AccountsStep, TypesHold, PTL DEF Spec
=============================================================================
