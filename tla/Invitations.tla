---------------------------- MODULE Invitations ----------------------------
(***************************************************************************)
(* Access by e-mail: AuthService.request_access, approve, reject and       *)
(* accept, and the invitations table of EventStore.                        *)
(*                                                                         *)
(* The handlers run in the threads of the API's pool.  Each reads its row  *)
(* with one statement and updates it by its id with another, and none of   *)
(* the update statements repeats the test of the status; the row, the mail *)
(* and the event stream are changed one after another, without a           *)
(* transaction around them.  An append to the stream is atomic here: it    *)
(* fails when the stream is no longer at the expected version, which is    *)
(* what module CommandBus shows of it.                                     *)
(***************************************************************************)
EXTENDS Naturals, Sequences, FiniteSets, Permissions

CONSTANTS
    Procs,          \* the threads
    Users,          \* the e-mail addresses
    Invitations,    \* the invitation ids
    Requested,      \* Requested[i]: the requested_email of i
    RequestedRole,  \* RequestedRole[i]: the requested_role of i
    InitialMembers, \* the memberships before the first request
    Crashes,        \* may a request be cut off between two statements?
    MaxVersion,     \* bound on the length of the stream
    MaxLinks        \* bound on the access links of one invitation

Memberships == [Users -> MaybeRole]

ASSUME InvitationsAssumption ==
    /\ Invitations # {} /\ IsFiniteSet(Procs)
    /\ Requested \in [Invitations -> Users]
    /\ RequestedRole \in [Invitations -> Roles]
    /\ InitialMembers \in Memberships
    /\ Crashes \in BOOLEAN
    /\ MaxVersion \in Nat /\ MaxLinks \in Nat

VARIABLES
    row,        \* the invitations table
    expired,    \* the invitations past their expires_at
    decisions,  \* the invitations whose approve/reject links were mailed
    access,     \* the access links that were mailed
    stream,     \* the events of the project
    members,    \* their projection
    tokens,     \* API tokens handed out per invitation
    sessions,   \* browser sessions handed out per invitation
    proc        \* what each thread is doing

vars == <<row, expired, decisions, access, stream, members, tokens, sessions, proc>>

-----------------------------------------------------------------------------
Statuses == {"none", "pending_approval", "approved", "rejected", "accepted"}

\* link numbers the access tokens: the row knows only the hash of the last.
Row == [status : Statuses, approver : Users, link : Nat]

EventTypes == {"InvitationRequested", "InvitationApproved", "MembershipGranted", "Other"}

\* Of an event, its type and, for an invitation's own events, its id.
EventFor(type, i) == [type |-> type, invitation |-> i]
EventSet == [type : EventTypes, invitation : Invitations]

Grants(i) ==
    Cardinality({v \in 1 .. Len(stream) : stream[v] = EventFor("MembershipGranted", i)})

\* The steps of a handler, named for the statement that comes next.
Steps ==
    {"idle",
     "request insert", "request version", "request append", "request mail",
     "approve update", "approve mail", "approve version", "approve append",
     "accept update", "accept version", "accept load", "accept append",
     "accept token", "accept session"}

Thread == [pc : Steps, invitation : Invitations, approver : Users, expected : Nat]

TypeOK ==
    /\ row \in [Invitations -> Row]
    /\ expired \subseteq Invitations /\ decisions \subseteq Invitations
    /\ access \subseteq Invitations \X Nat
    /\ stream \in Seq(EventSet)
    /\ members \in Memberships
    /\ tokens \in [Invitations -> Nat] /\ sessions \in [Invitations -> Nat]
    /\ proc \in [Procs -> Thread]
    /\ \A i \in Invitations : row[i].link > 0 => row[i].status # "none"

Managers == {u \in Users : members[u] \in {"creator", "admin"}}

Nobody == CHOOSE u \in Users : TRUE

Init ==
    /\ row = [i \in Invitations |-> [status |-> "none", approver |-> Nobody, link |-> 0]]
    /\ expired = {} /\ decisions = {} /\ access = {}
    /\ stream = <<>>
    /\ members = InitialMembers
    /\ tokens = [i \in Invitations |-> 0] /\ sessions = [i \in Invitations |-> 0]
    /\ proc = [p \in Procs |-> [pc |-> "idle", invitation |-> CHOOSE i \in Invitations : TRUE,
                                approver |-> Nobody, expected |-> 0]]

-----------------------------------------------------------------------------
(***************************************************************************)
(* The two statements every handler ends or continues with: read the       *)
(* version of the stream, and append to it at that version.                *)
(***************************************************************************)
At(p, step) == proc[p].pc = step

GoTo(p, step) == proc' = [proc EXCEPT ![p].pc = step]

ReadVersion(p, step, next) ==
    /\ At(p, step)
    /\ proc' = [proc EXCEPT ![p].pc = next, ![p].expected = Len(stream)]
    /\ UNCHANGED <<row, expired, decisions, access, stream, members, tokens, sessions>>

AppendAtVersion(p, step, type, next) ==
    /\ At(p, step)
    /\ Len(stream) = proc[p].expected
    /\ Len(stream) < MaxVersion
    /\ stream' = Append(stream, EventFor(type, proc[p].invitation))
    /\ GoTo(p, next)

\* Faulty variant: accept goes on although its grant was refused.
ConflictIgnored(p) ==
    /\ proc[p].pc \in {"request append", "approve append", "accept append"}
    /\ Len(stream) # proc[p].expected
    /\ GoTo(p, IF At(p, "accept append") THEN "accept token" ELSE "idle")
    /\ UNCHANGED <<row, expired, decisions, access, stream, members, tokens, sessions>>

\* ConcurrencyError: the request ends where it is and nothing is undone.
Conflict(p) ==
    /\ proc[p].pc \in {"request append", "approve append", "accept append"}
    /\ Len(stream) # proc[p].expected
    /\ GoTo(p, "idle")
    /\ UNCHANGED <<row, expired, decisions, access, stream, members, tokens, sessions>>

-----------------------------------------------------------------------------
(***************************************************************************)
(* request_access.                                                         *)
(***************************************************************************)

\* The approver is a manager of the snapshot: the decision_email, when the
\* request names one, and else a creator, or an admin when there is none.
\* Without a manager the request is refused.  The id is a fresh one.
RequestAccess(p) ==
    /\ At(p, "idle")
    /\ \E i \in Invitations, approver \in Managers :
        /\ row[i].status = "none"
        /\ \A q \in Procs \ {p} : At(q, "request insert") => proc[q].invitation # i
        /\ proc' = [proc EXCEPT ![p] = [pc |-> "request insert", invitation |-> i,
                                        approver |-> approver, expected |-> 0]]
    /\ UNCHANGED <<row, expired, decisions, access, stream, members, tokens, sessions>>

CreateInvitation(p) ==
    /\ At(p, "request insert")
    /\ row' = [row EXCEPT ![proc[p].invitation] =
            [status |-> "pending_approval", approver |-> proc[p].approver, link |-> 0]]
    /\ GoTo(p, "request version")
    /\ UNCHANGED <<expired, decisions, access, stream, members, tokens, sessions>>

RequestVersion(p) == ReadVersion(p, "request version", "request append")

RequestAppend(p) ==
    /\ AppendAtVersion(p, "request append", "InvitationRequested", "request mail")
    /\ UNCHANGED <<row, expired, decisions, access, members, tokens, sessions>>

\* The mailer never fails: without SMTP it writes to the outbox.
RequestMail(p) ==
    /\ At(p, "request mail")
    /\ decisions' = decisions \cup {proc[p].invitation}
    /\ GoTo(p, "idle")
    /\ UNCHANGED <<row, expired, access, stream, members, tokens, sessions>>

-----------------------------------------------------------------------------
(***************************************************************************)
(* approve and reject: somebody opens a link of the decision mail.         *)
(***************************************************************************)
Usable(i, status) == row[i].status = status /\ i \notin expired

\* Faulty variant: the status is not tested.
ApproveUntested(p) ==
    /\ At(p, "idle")
    /\ \E i \in decisions \ expired :
        proc' = [proc EXCEPT ![p].pc = "approve update", ![p].invitation = i]
    /\ UNCHANGED <<row, expired, decisions, access, stream, members, tokens, sessions>>

\* The handlers that refuse leave no trace, so they need no step.
Approve(p) ==
    /\ At(p, "idle")
    /\ \E i \in decisions :
        /\ Usable(i, "pending_approval")
        /\ proc' = [proc EXCEPT ![p].pc = "approve update", ![p].invitation = i]
    /\ UNCHANGED <<row, expired, decisions, access, stream, members, tokens, sessions>>

ApproveUpdate(p) ==
    LET i == proc[p].invitation IN
    /\ At(p, "approve update")
    /\ row[i].link < MaxLinks
    /\ row' = [row EXCEPT ![i].status = "approved", ![i].link = @ + 1]
    /\ proc' = [proc EXCEPT ![p].pc = "approve mail", ![p].expected = row'[i].link]
    /\ UNCHANGED <<expired, decisions, access, stream, members, tokens, sessions>>

ApproveMail(p) ==
    /\ At(p, "approve mail")
    /\ access' = access \cup {<<proc[p].invitation, proc[p].expected>>}
    /\ GoTo(p, "approve version")
    /\ UNCHANGED <<row, expired, decisions, stream, members, tokens, sessions>>

ApproveVersion(p) == ReadVersion(p, "approve version", "approve append")

ApproveAppend(p) ==
    /\ AppendAtVersion(p, "approve append", "InvitationApproved", "idle")
    /\ UNCHANGED <<row, expired, decisions, access, members, tokens, sessions>>

\* Faulty variant: the rejected row is made free for another request.
RejectFrees ==
    /\ \E i \in decisions : row' = [row EXCEPT ![i].status = "none"]
    /\ UNCHANGED <<expired, decisions, access, stream, members, tokens, sessions, proc>>

\* reject_invitation tests nothing but the token, and records nothing.
Reject ==
    /\ \E i \in decisions : row' = [row EXCEPT ![i].status = "rejected"]
    /\ UNCHANGED <<expired, decisions, access, stream, members, tokens, sessions, proc>>

-----------------------------------------------------------------------------
(***************************************************************************)
(* accept: somebody opens an access link.                                  *)
(***************************************************************************)
Accept(p) ==
    /\ At(p, "idle")
    /\ \E link \in access :
        /\ row[link[1]].link = link[2]
        /\ Usable(link[1], "approved")
        /\ proc' = [proc EXCEPT ![p].pc = "accept update", ![p].invitation = link[1]]
    /\ UNCHANGED <<row, expired, decisions, access, stream, members, tokens, sessions>>

AcceptUpdate(p) ==
    /\ At(p, "accept update")
    /\ row' = [row EXCEPT ![proc[p].invitation].status = "accepted"]
    /\ GoTo(p, "accept version")
    /\ UNCHANGED <<expired, decisions, access, stream, members, tokens, sessions>>

\* ensure_user has no part in the properties and is left out.
AcceptVersion(p) == ReadVersion(p, "accept version", "accept load")

\* The grant is a command of the approver: PermissionDenied ends the request.
AcceptLoad(p) ==
    /\ At(p, "accept load")
    /\ GoTo(p, IF HasPermission(members[row[proc[p].invitation].approver],
                                "membership.manage")
               THEN "accept append" ELSE "idle")
    /\ UNCHANGED <<row, expired, decisions, access, stream, members, tokens, sessions>>

\* Faulty variant: the grant is appended at whatever version the stream is.
AcceptAppendUnchecked(p) ==
    LET i == proc[p].invitation IN
    /\ At(p, "accept append")
    /\ Len(stream) < MaxVersion
    /\ stream' = Append(stream, EventFor("MembershipGranted", i))
    /\ members' = [members EXCEPT ![Requested[i]] = RequestedRole[i]]
    /\ GoTo(p, "accept token")
    /\ UNCHANGED <<row, expired, decisions, access, tokens, sessions>>

AcceptAppend(p) ==
    LET i == proc[p].invitation IN
    /\ AppendAtVersion(p, "accept append", "MembershipGranted", "accept token")
    /\ members' = [members EXCEPT ![Requested[i]] = RequestedRole[i]]
    /\ UNCHANGED <<row, expired, decisions, access, tokens, sessions>>

AcceptToken(p) ==
    /\ At(p, "accept token")
    /\ tokens' = [tokens EXCEPT ![proc[p].invitation] = @ + 1]
    /\ GoTo(p, "accept session")
    /\ UNCHANGED <<row, expired, decisions, access, stream, members, sessions>>

AcceptSession(p) ==
    /\ At(p, "accept session")
    /\ sessions' = [sessions EXCEPT ![proc[p].invitation] = @ + 1]
    /\ GoTo(p, "idle")
    /\ UNCHANGED <<row, expired, decisions, access, stream, members, tokens>>

-----------------------------------------------------------------------------
(***************************************************************************)
(* The rest of the system.                                                 *)
(***************************************************************************)

\* Any other command on the project; a manager may revoke somebody else.
OtherCommand ==
    /\ Len(stream) < MaxVersion
    /\ \E i \in Invitations : stream' = Append(stream, EventFor("Other", i))
    /\ \/ UNCHANGED members
       \/ \E manager \in Managers, u \in Users :
            /\ u # manager
            /\ members' = [members EXCEPT ![u] = NoRole]
    /\ UNCHANGED <<row, expired, decisions, access, tokens, sessions, proc>>

\* The clock passes expires_at.
Expire ==
    /\ \E i \in Invitations : row[i].status # "none" /\ expired' = expired \cup {i}
    /\ UNCHANGED <<row, decisions, access, stream, members, tokens, sessions, proc>>

Crash(p) ==
    /\ Crashes
    /\ ~At(p, "idle")
    /\ GoTo(p, "idle")
    /\ UNCHANGED <<row, expired, decisions, access, stream, members, tokens, sessions>>

Handler(p) ==
    \/ RequestAccess(p) \/ CreateInvitation(p) \/ RequestVersion(p)
    \/ RequestAppend(p) \/ RequestMail(p)
    \/ Approve(p) \/ ApproveUpdate(p) \/ ApproveMail(p)
    \/ ApproveVersion(p) \/ ApproveAppend(p)
    \/ Accept(p) \/ AcceptUpdate(p) \/ AcceptVersion(p) \/ AcceptLoad(p)
    \/ AcceptAppend(p) \/ AcceptToken(p) \/ AcceptSession(p)
    \/ Conflict(p) \/ Crash(p)

Next == (\E p \in Procs : Handler(p)) \/ Reject \/ OtherCommand \/ Expire

Spec == Init /\ [][Next]_vars

-----------------------------------------------------------------------------
(***************************************************************************)
(* Properties.                                                             *)
(***************************************************************************)

\* A membership is granted on behalf of somebody who manages the project at
\* that moment: an approver who lost the role while the invitation was on
\* its way cannot bring anybody in (auth.py accept, bus.py execute).
GrantsAuthorised ==
    [][\A i \in Invitations : Grants(i)' > Grants(i) =>
            row[i].approver \in Managers]_vars

\* An account is handed out only for a membership that was granted: as many
\* grants as tokens, as many tokens as sessions (auth.py accept).
AccountsFollowGrants ==
    \A i \in Invitations : sessions[i] <= tokens[i] /\ tokens[i] <= Grants(i)

\* Nobody holds the row of i in memory and is about to overwrite it.
Quiet(i) ==
    \A p \in Procs : proc[p].invitation = i =>
        proc[p].pc \notin {"request insert", "approve update", "accept update"}

\* A rejection is final once no handler that had read the row before it is
\* left: every later link finds the row rejected (event_store.py
\* approve_invitation, accept_invitation).
RejectionIsFinal ==
    [][\A i \in Invitations :
         row[i].status = "rejected" /\ Quiet(i)
            => (row[i].status = "rejected" /\ Quiet(i))']_vars

=============================================================================
