------------------------------- MODULE Members -------------------------------
(***************************************************************************)
(* Who belongs to an organization: invitations (tenancy/invitations.ts),   *)
(* memberships and seats in a client workspace (tenancy/members.ts).       *)
(*                                                                         *)
(* A request reads its principal when it is authenticated; then its READ   *)
(* COMMITTED transaction (withTenant) reads what the guards need; then it  *)
(* writes.  Other requests commit between each of the three.  One          *)
(* organization with one workspace; every membership is ACTIVE, the only   *)
(* status the code writes.                                                 *)
(***************************************************************************)
EXTENDS Naturals, FiniteSets

CONSTANTS
    People,          \* users of the product
    Founder,         \* whoever created the organization
    Team,            \* the roles people have had there since: "NONE" is no member
    OrgRoles,        \* the organization roles in use
    Requests,        \* requests in flight at a time
    Invitations,     \* invitations that may be made, 1 .. n
    MaxRequests,     \* bound: requests made
    MaxRows          \* bound: memberships and seats ever created

ASSUME MembersAssumption ==
    /\ IsFiniteSet(People)
    /\ Founder \in People /\ Team[Founder] = "OWNER"
    /\ Team \in [People -> OrgRoles \cup {"NONE"}]
    /\ {"OWNER", "ADMIN", "CLIENT"} \subseteq OrgRoles
    /\ OrgRoles \subseteq {"OWNER", "ADMIN", "ACCOUNT_MANAGER", "CLIENT"}
    /\ Invitations \subseteq Nat /\ MaxRequests \in Nat /\ MaxRows \in Nat \ {0}

VARIABLES
    members,      \* OrganizationMembership of each person: its id and role
    seats,        \* WorkspaceMembership of each person: its id, client or staff
    invitations,  \* the Invitation rows
    request,      \* what each request is doing and what it has read
    rows,         \* ids given out so far
    requests,     \* requests made so far
    joins,        \* for the properties: memberships each invitation led to
    raced,        \* ... a request wrote after another had changed what it read
    usurped       \* ... somebody no longer an owner transferred the ownership

memberVars == <<members, seats, invitations, request, rows, requests, joins, raced, usurped>>
notRequests == <<members, seats, invitations, rows, joins, raced, usurped>>

NoRow == [id |-> 0, role |-> "NONE"]
NoInvitation == [made |-> FALSE, who |-> Founder, role |-> "NONE", seat |-> FALSE,
                 accepted |-> FALSE, revoked |-> FALSE, expired |-> FALSE]
NoRequest == [op |-> "none"]

\* createOrganization: the organization and its owner in one transaction.
MembersInit ==
    /\ members = [p \in People |-> IF Team[p] = "NONE" THEN NoRow ELSE [id |-> 1, role |-> Team[p]]]
    /\ seats = [p \in People |-> NoRow]
    /\ invitations = [i \in Invitations |-> NoInvitation]
    /\ request = [q \in Requests |-> NoRequest]
    /\ rows = 1 /\ requests = 0
    /\ joins = [i \in Invitations |-> 0] /\ raced = FALSE /\ usurped = FALSE

Belongs(p) == members[p] # NoRow
Seated(p) == seats[p] # NoRow
Owners == {p \in People : members[p].role = "OWNER"}
Pending(i) == /\ invitations[i].made /\ ~invitations[i].accepted
              /\ ~invitations[i].revoked /\ ~invitations[i].expired

Seats == {"CLIENT_SEAT", "STAFF_SEAT"}

\* clientRoles against the rest: CLIENT_VIEWER and CLIENT_APPROVER are one.
SeatFor(role) == IF role = "CLIENT" THEN "CLIENT_SEAT" ELSE "STAFF_SEAT"

----------------------------------------------------------------------------
(* A request: its principal, its reads, then its writes.                   *)

\* withAuth: the principal as the database has it now.
Authenticate(q, actor) ==
    /\ request[q] = NoRequest /\ requests < MaxRequests /\ Belongs(actor)
    /\ request' = [request EXCEPT ![q] = [op |-> "route", actor |-> actor,
           as |-> members[actor].role, seated |-> Seated(actor)]]
    /\ requests' = requests + 1
    /\ UNCHANGED notRequests

\* The grants a route asks for: member:invite, member:update_role and
\* member:remove need an org-wide role, since those routes name no workspace
\* (policy.ts decide); workspace:manage_members is also an account manager's,
\* in a workspace they sit in.
Granted(q, op) ==
    /\ request[q].op = "route"
    /\ CASE op = "transfer" -> request[q].as = "OWNER"
         [] op \in {"invite", "revoke", "role", "remove"} -> request[q].as \in {"OWNER", "ADMIN"}
         [] op \in {"seat", "unseat"} ->
                \/ request[q].as \in {"OWNER", "ADMIN"}
                \/ request[q].as = "ACCOUNT_MANAGER" /\ request[q].seated

\* A request that passes its guards; one that does not changes nothing.
Begin(q, op, actor, target, want, seen) ==
    /\ request' = [request EXCEPT ![q] =
           [op |-> op, actor |-> actor, target |-> target, want |-> want,
            seen |-> seen, alone |-> TRUE]]
    /\ UNCHANGED notRequests

Passes(q, op, target, want, seen) ==
    Begin(q, op, request[q].actor, target, want, seen) /\ UNCHANGED requests

Ready(q, op) == request[q].op = op

\* A commit: every other request now stands on what it read before.
Commits(q) ==
    /\ request' = [r \in Requests |->
           IF r = q THEN NoRequest
           ELSE IF request[r].op \in {"none", "route"} THEN request[r]
           ELSE [request[r] EXCEPT !.alone = FALSE]]
    /\ raced' = (raced \/ ~request[q].alone)
    /\ UNCHANGED requests

\* A guard throws, a write by id finds no row or meets a unique key.
RollsBack(q) ==
    /\ request' = [request EXCEPT ![q] = NoRequest]
    /\ UNCHANGED <<notRequests, requests>>

----------------------------------------------------------------------------
(* members.ts.                                                             *)

\* assertMayActOn: nobody acts on themselves, only an owner acts on an owner.
MayActOn(q, p) ==
    /\ Belongs(p) /\ p # request[q].actor
    /\ p \in Owners => request[q].as = "OWNER"

\* Mutant: the count includes the one who goes.
CountsThemselves(p) == p \in Owners => Cardinality(Owners) > 0

\* An owner goes only when another stays.
NotLastOwner(p) == p \in Owners => Cardinality(Owners) > 1

AskRole(q, p, role) ==
    /\ Granted(q, "role") /\ MayActOn(q, p)
    /\ role = "OWNER" => request[q].as = "OWNER"
    /\ members[p].role # role /\ NotLastOwner(p)
    /\ Passes(q, "role", p, role, members[p])

\* Mutant: a former client keeps the seat.
SeatsKept(p, before, after) == seats

\* Seats that no longer fit the role go with it.
SeatsAfterRole(p, before, after) ==
    IF (before = "CLIENT") # (after = "CLIENT") THEN [seats EXCEPT ![p] = NoRow] ELSE seats

UpdateRole(q) ==
    LET r == request[q] IN
    /\ Ready(q, "role")
    /\ IF members[r.target].id = r.seen.id
       THEN /\ members' = [members EXCEPT ![r.target].role = r.want]
            /\ seats' = SeatsAfterRole(r.target, r.seen.role, r.want)
            /\ Commits(q) /\ UNCHANGED <<invitations, rows, joins, usurped>>
       ELSE RollsBack(q)

AskRemove(q, p) ==
    /\ Granted(q, "remove") /\ MayActOn(q, p) /\ NotLastOwner(p)
    /\ Passes(q, "remove", p, "NONE", members[p])

\* The workspace grants go with the membership.
RemoveMember(q) ==
    LET r == request[q] IN
    /\ Ready(q, "remove")
    /\ IF members[r.target].id = r.seen.id
       THEN /\ members' = [members EXCEPT ![r.target] = NoRow]
            /\ seats' = [seats EXCEPT ![r.target] = NoRow]
            /\ Commits(q) /\ UNCHANGED <<invitations, rows, joins, usurped>>
       ELSE RollsBack(q)

AskTransfer(q, p) ==
    /\ Granted(q, "transfer")
    /\ Belongs(p) /\ p # request[q].actor /\ members[p].role # "CLIENT"
    /\ Passes(q, "transfer", p, "OWNER", members[p])

\* One transaction: the target becomes an owner and the actor an admin.
TransferOwnership(q) ==
    LET r == request[q] IN
    /\ Ready(q, "transfer")
    /\ IF members[r.target].id = r.seen.id /\ Belongs(r.actor)
       THEN /\ members' = [members EXCEPT ![r.target].role = "OWNER", ![r.actor].role = "ADMIN"]
            /\ usurped' = (usurped \/ members[r.actor].role # "OWNER")
            /\ Commits(q) /\ UNCHANGED <<seats, invitations, rows, joins>>
       ELSE RollsBack(q)

\* assertMayStaffWorkspace, and a seat of the target's own kind.
AskSeat(q, p, seat) ==
    /\ Granted(q, "seat") /\ Belongs(p)
    /\ request[q].as = "ACCOUNT_MANAGER" => members[p].role = "CLIENT"
    /\ seat = SeatFor(members[p].role) /\ seats[p].role # seat
    /\ Passes(q, "seat", p, seat, seats[p])

AddWorkspaceMember(q) ==
    LET r == request[q] IN
    /\ Ready(q, "seat")
    /\ IF seats[r.target].id # r.seen.id THEN RollsBack(q)
       ELSE /\ rows' = IF r.seen = NoRow THEN rows + 1 ELSE rows
            /\ rows' <= MaxRows
            /\ seats' = [seats EXCEPT ![r.target] =
                   [id |-> IF r.seen = NoRow THEN rows' ELSE r.seen.id, role |-> r.want]]
            /\ Commits(q) /\ UNCHANGED <<members, invitations, joins, usurped>>

AskUnseat(q, p) ==
    /\ Granted(q, "unseat") /\ Seated(p) /\ Belongs(p)
    /\ request[q].as = "ACCOUNT_MANAGER" => members[p].role = "CLIENT"
    /\ Passes(q, "unseat", p, "NONE", seats[p])

RemoveWorkspaceMember(q) ==
    LET r == request[q] IN
    /\ Ready(q, "unseat")
    /\ IF seats[r.target].id = r.seen.id
       THEN /\ seats' = [seats EXCEPT ![r.target] = NoRow]
            /\ Commits(q) /\ UNCHANGED <<members, invitations, rows, joins, usurped>>
       ELSE RollsBack(q)

----------------------------------------------------------------------------
(* invitations.ts.                                                         *)

\* INVITABLE_ROLES, of those that can ask at all.
Invitable(as) == IF as = "OWNER" THEN OrgRoles \ {"OWNER"} ELSE OrgRoles \ {"OWNER", "ADMIN"}

\* Nobody who belongs, and nobody who has been asked already.
MayInvite(p) == ~Belongs(p) /\ \A i \in Invitations : Pending(i) => invitations[i].who # p

AskInvite(q, p, role) ==
    /\ Granted(q, "invite") /\ role \in Invitable(request[q].as) /\ MayInvite(p)
    /\ Passes(q, "invite", p, role, NoRow)

\* A client's invitation names a workspace; another's may.
CreateInvitation(q) ==
    LET r == request[q] IN
    /\ Ready(q, "invite")
    /\ \E i \in Invitations, seat \in BOOLEAN :
           /\ ~invitations[i].made /\ \A j \in Invitations : j < i => invitations[j].made
           /\ r.want = "CLIENT" => seat
           /\ invitations' = [invitations EXCEPT ![i] =
                  [NoInvitation EXCEPT !.made = TRUE, !.who = r.target, !.role = r.want,
                                       !.seat = seat]]
    /\ Commits(q) /\ UNCHANGED <<members, seats, rows, joins, usurped>>

\* listInvitations shows what is neither accepted nor revoked, expired or not.
AskRevoke(q, i) ==
    /\ Granted(q, "revoke")
    /\ invitations[i].made /\ ~invitations[i].accepted /\ ~invitations[i].revoked
    /\ Passes(q, "revoke", i, "NONE", NoRow)

\* By id: whatever has become of it since.
RevokeInvitation(q) ==
    LET r == request[q] IN
    /\ Ready(q, "revoke")
    /\ invitations' = [invitations EXCEPT ![r.target].revoked = TRUE]
    /\ Commits(q) /\ UNCHANGED <<members, seats, rows, joins, usurped>>

\* INVITATION_TTL_MS has passed.
Expire(i) ==
    /\ Pending(i)
    /\ invitations' = [invitations EXCEPT ![i].expired = TRUE]
    /\ UNCHANGED <<members, seats, request, rows, requests, joins, raced, usurped>>

\* The invited person follows the link; the row is read outside a transaction.
OpenInvitation(q, i) ==
    /\ Pending(i)
    /\ request[q] = NoRequest /\ requests < MaxRequests /\ requests' = requests + 1
    /\ Begin(q, "accept", invitations[i].who, i, "NONE", NoRow)

\* Mutant: the read before the transaction is enough.
ClaimableAsRead(i) == TRUE

\* updateMany where acceptedAt and revokedAt are null.
Claimable(i) == ~invitations[i].accepted /\ ~invitations[i].revoked

\* The claim, the membership and the seat: a membership that exists, or one
\* no longer needed, rolls all of it back; a seat that exists stays.
AcceptInvitation(q) ==
    LET i == request[q].target
        p == request[q].actor
        takesSeat == invitations[i].seat /\ ~Seated(p) IN
    /\ Ready(q, "accept")
    /\ IF ~Claimable(i) \/ Belongs(p) THEN RollsBack(q)
       ELSE /\ rows' = IF takesSeat THEN rows + 2 ELSE rows + 1
            /\ rows' <= MaxRows
            /\ invitations' = [invitations EXCEPT ![i].accepted = TRUE]
            /\ members' = [members EXCEPT ![p] = [id |-> rows + 1, role |-> invitations[i].role]]
            /\ seats' = IF takesSeat
                        THEN [seats EXCEPT ![p] = [id |-> rows + 2,
                                                   role |-> SeatFor(invitations[i].role)]]
                        ELSE seats
            /\ joins' = [joins EXCEPT ![i] = @ + 1]
            /\ Commits(q) /\ UNCHANGED usurped

----------------------------------------------------------------------------

Asks(q) ==
    \/ \E p \in People :
           \/ AskRemove(q, p) \/ AskTransfer(q, p) \/ AskUnseat(q, p)
           \/ \E role \in OrgRoles : AskRole(q, p, role) \/ AskInvite(q, p, role)
           \/ \E seat \in Seats : AskSeat(q, p, seat)
    \/ \E i \in Invitations : AskRevoke(q, i)

Commit(q) == \/ UpdateRole(q) \/ RemoveMember(q) \/ TransferOwnership(q)
             \/ AddWorkspaceMember(q) \/ RemoveWorkspaceMember(q)
             \/ CreateInvitation(q) \/ RevokeInvitation(q) \/ AcceptInvitation(q)

Declined(q) == request[q].op = "route" /\ RollsBack(q)

MembersNext ==
    \/ \E q \in Requests, actor \in People : Authenticate(q, actor)
    \/ \E q \in Requests : Asks(q) \/ Declined(q) \/ Commit(q)
    \/ \E q \in Requests, i \in Invitations : OpenInvitation(q, i)
    \/ \E i \in Invitations : Expire(i)

MembersSpec == MembersInit /\ [][MembersNext]_memberVars

----------------------------------------------------------------------------

Rows(roles) == [id : 1 .. MaxRows, role : roles] \cup {NoRow}

\* The rows have the columns they should; ids are never given out twice; and
\* an invitation that is accepted was made.
MembersTypeOK ==
    /\ members \in [People -> Rows(OrgRoles)]
    /\ seats \in [People -> Rows(Seats)]
    /\ rows \in 1 .. MaxRows /\ raced \in BOOLEAN /\ usurped \in BOOLEAN
    /\ \A p \in People : members[p].id <= rows /\ seats[p].id <= rows
    /\ \A i \in Invitations : invitations[i].accepted => invitations[i].made

\* "The last Owner cannot be demoted or removed" (members.ts): the
\* organization has an owner, unless two requests overlapped, each having
\* counted the other's.
OwnerRemains == raced \/ Owners # {}

\* A seat belongs to a member, and is of the kind of their role, whatever
\* order people joined, changed role, left and came back in; unless requests
\* overlapped, or an owner made a client meanwhile transferred the ownership
\* and became an admin with a client's seat.
SeatsFitRoles ==
    raced \/ usurped \/ \A p \in People : Seated(p) =>
                 Belongs(p) /\ seats[p].role = SeatFor(members[p].role)

\* An invitation lets one person in, once, however often the link is followed,
\* and nobody once it is revoked, also who had opened it before (acceptInvitation).
AdmitsOnce ==
    [][\A i \in Invitations : joins'[i] # joins[i] =>
           joins'[i] = 1 /\ ~invitations[i].revoked]_memberVars
=============================================================================
